--------------------------- MODULE MessageChannel ---------------------------
(***************************************************************************)
(* What the byte stream between the server and a client is meant to be: a  *)
(* channel that carries messages, each whole, in order and once, until the *)
(* connection is lost or given up.                                         *)
(***************************************************************************)
EXTENDS SequencesExt

CONSTANT Message

VARIABLES
  sent,     \* messages written on this connection
  handled,  \* messages acted on by the client
  open      \* is there a connection?

chan == <<sent, handled, open>>

ChannelInit == sent = << >> /\ handled = << >> /\ open = FALSE

\* A new connection, with whatever the server greets a client with.
Open ==
  /\ open' = TRUE
  /\ handled' = << >>
  /\ sent' \in Seq(Message)

Close == open /\ open' = FALSE /\ UNCHANGED <<sent, handled>>

Write ==
  /\ open
  /\ \E m \in Message : sent' = Append(sent, m)
  /\ UNCHANGED <<handled, open>>

\* The next messages, in order.
Deliver ==
  /\ open
  /\ \E n \in Len(handled) .. Len(sent) : handled' = SubSeq(sent, 1, n)
  /\ UNCHANGED <<sent, open>>

ChannelNext == Open \/ Close \/ Write \/ Deliver

ChannelSpec == ChannelInit /\ [][ChannelNext]_chan
=============================================================================
