---------------------------- MODULE ClientStream ----------------------------
(***************************************************************************)
(* The connection between the server and a client as bytes: what a client  *)
(* is sent when it connects (create_client in src/server/exporter.cc), and *)
(* how the client cuts the bytes it receives into messages                 *)
(* (updateTCPSocket in src/client/src/socket.cpp), however they arrive.    *)
(*                                                                         *)
(* A message is its bytes: the type, the rest of a part of fixed size and, *)
(* for descriptors and images, as many bytes more as the last byte of that *)
(* part says.  (The length of an image is four bytes in the code.)         *)
(***************************************************************************)
EXTENDS Integers, SequencesExt

CONSTANTS
  FixedSize,   \* packetSizes: type -> size of the part every message has
  Colours,     \* the descriptors the colour table of the server consists of
  Images,      \* contents of the images configured for the left and right
  Messages,    \* what the server sends while the trace is read
  MaxMessages, \* bound: messages sent on a connection after the greeting
  MaxRead      \* bytes read at a time (1024 in the code)

\* The types of messages; VERSION is a byte of its own.
FLOW == 0
IMAGE == 5
DESCRIPTOR == 4
VERSION == 21
PacketTypes == FLOW .. IMAGE

ASSUME FixedSizeAssumption ==
  /\ FixedSize \in [PacketTypes -> Nat \ {0}]
  /\ FixedSize[DESCRIPTOR] > 1 /\ FixedSize[IMAGE] > 1
ASSUME ReadAssumption == MaxMessages \in Nat /\ MaxRead \in Nat \ {0}

VARIABLES
  sent,       \* messages the server has written on this connection
  wire,       \* bytes written and not yet received
  mDataBuf,   \* bytes received and not yet handled
  handled,    \* messages handled
  bConnected,
  done        \* the client is shutting down

stream == <<sent, wire, mDataBuf, handled, bConnected, done>>
-----------------------------------------------------------------------------
\* The bytes from i on.
From(bytes, i) == SubSeq(bytes, i, Len(bytes))

\* The size of the message at i, when its fixed part is there.
ThisSize(bytes, i) ==
  FixedSize[bytes[i]] +
    (IF bytes[i] \in {DESCRIPTOR, IMAGE}
     THEN bytes[i + FixedSize[bytes[i]] - 1] ELSE 0)

\* Mutant of Complete: off by one.
CompleteAndMore(bytes, i) ==
  /\ Len(bytes) - i + 1 > FixedSize[bytes[i]]
  /\ Len(bytes) - i + 1 > ThisSize(bytes, i)
\* Is all of the message at i there?
Complete(bytes, i) ==
  /\ Len(bytes) - i + 1 >= FixedSize[bytes[i]]
  /\ Len(bytes) - i + 1 >= ThisSize(bytes, i)

\* What the client can take apart: a message that is as long as it says.
Framed(m) ==
  /\ m \in Seq(Nat) /\ m # << >>
  /\ \/ m = <<VERSION>>
     \/ /\ m[1] \in PacketTypes
        /\ Len(m) >= FixedSize[m[1]] /\ Len(m) = ThisSize(m, 1)

\* The server writes structures of the sizes the client knows; what is in an
\* image is of no importance.
ASSUME MessagesAssumption ==
  /\ Colours \in Seq(Seq(Nat)) /\ \A i \in 1 .. Len(Colours) : Framed(Colours[i])
  /\ \A m \in Messages : Framed(m)
ASSUME ImagesAssumption ==
  \A images \in Images : images[1] \in Seq(Nat) /\ images[2] \in Seq(Nat)

\* The loop of updateTCPSocket: the messages found, where it stopped, and
\* whether it stopped at a byte that is no type.
Parse(bytes) ==
  LET parse[i \in 1 .. Len(bytes) + 1] ==
        CASE i > Len(bytes) -> [messages |-> << >>, index |-> i, bad |-> FALSE]
          [] i <= Len(bytes) /\ bytes[i] = VERSION ->
               [parse[i + 1] EXCEPT !.messages = <<<<VERSION>>>> \o @]
          [] i <= Len(bytes) /\ bytes[i] \notin PacketTypes \cup {VERSION} ->
               [messages |-> << >>, index |-> i, bad |-> TRUE]
          [] i <= Len(bytes) /\ bytes[i] \in PacketTypes ->
               IF Complete(bytes, i)
               THEN LET next == i + ThisSize(bytes, i)
                    IN  [parse[next] EXCEPT !.messages =
                           <<SubSeq(bytes, i, next - 1)>> \o @]
               ELSE [messages |-> << >>, index |-> i, bad |-> FALSE]
  IN  parse[1]

\* The bytes of a sequence of messages.
Flat(messages) == FlattenSeq(messages)

\* The header and the contents of an image; without an image the header is
\* sent as well, and it was never filled in.
ImageMessage(image) ==
  IF image = << >>
  THEN [i \in 1 .. FixedSize[IMAGE] |-> 0]
  ELSE [i \in 1 .. FixedSize[IMAGE] |->
          CASE i = 1 -> IMAGE [] i = FixedSize[IMAGE] -> Len(image) [] OTHER -> 0]
       \o image

\* What create_client writes.
Greeting(images) ==
  <<<<VERSION>>>> \o Colours \o <<ImageMessage(images[1]), ImageMessage(images[2])>>
-----------------------------------------------------------------------------
StreamInit ==
  /\ sent = << >> /\ wire = << >> /\ mDataBuf = << >> /\ handled = << >>
  /\ bConnected = FALSE /\ done = FALSE

\* Mutant of NewBuffer: what the last connection left is not dropped.
OldBuffer == mDataBuf
\* mDataBuf.clear() in openSocket.
NewBuffer == << >>

\* openSocket connects, and the server greets the client.
OpenSocket ==
  /\ ~ done
  /\ \E images \in Images :
       /\ sent' = Greeting(images)
       /\ wire' = Flat(Greeting(images))
  /\ mDataBuf' = NewBuffer
  /\ handled' = << >>
  /\ bConnected' = TRUE
  /\ UNCHANGED done

\* The server writes a message (what is sent to whom is the business of
\* FlowTable and Exporter).
Send ==
  /\ bConnected
  /\ Len(sent) < Len(Colours) + 3 + MaxMessages
  /\ \E m \in Messages : sent' = Append(sent, m) /\ wire' = wire \o m
  /\ UNCHANGED <<mDataBuf, handled, bConnected, done>>

\* updateTCPSocket: a read of n bytes, then the loop over the buffer.
Update(n) ==
  LET buffer == mDataBuf \o SubSeq(wire, 1, n)
      found == Parse(buffer)
  IN  /\ bConnected /\ ~ done
      /\ n <= Len(wire)
      /\ wire' = From(wire, n + 1)
      /\ handled' = handled \o found.messages
      /\ done' = found.bad
      /\ mDataBuf' = IF found.bad THEN buffer ELSE From(buffer, found.index)
      /\ UNCHANGED <<sent, bConnected>>

\* A read fails, or finds the connection closed: disconnect.  What the reads
\* before it returned stays in the buffer.
Lose(n) ==
  /\ bConnected /\ ~ done
  /\ n <= Len(wire)
  /\ bConnected' = FALSE
  /\ mDataBuf' = mDataBuf \o SubSeq(wire, 1, n)
  /\ wire' = << >>
  /\ UNCHANGED <<sent, handled, done>>

StreamNext ==
  \/ OpenSocket \/ Send
  \/ \E n \in 0 .. MaxRead : Lose(n)
  \/ \E n \in 1 .. MaxRead : Update(n)

\* The client reads what there is to read once per frame.
StreamFairness == WF_stream(\E n \in 1 .. MaxRead : Update(n))

StreamSpec == StreamInit /\ [][StreamNext]_stream
FairStreamSpec == StreamSpec /\ StreamFairness
-----------------------------------------------------------------------------
\* The types of the variables; never more is handled than was sent.
StreamTypeOK ==
  /\ sent \in Seq(Seq(Nat)) /\ handled \in Seq(Seq(Nat))
  /\ wire \in Seq(Nat) /\ mDataBuf \in Seq(Nat)
  /\ Len(handled) <= Len(sent)
  /\ bConnected \in BOOLEAN /\ done \in BOOLEAN

\* However the bytes are cut into reads, what has been handled, then what is
\* in the buffer, then what is on its way, is what the server sent on this
\* connection: no byte is lost, handled twice, or left over from the last one.
NothingLost == bConnected => Flat(handled) \o mDataBuf \o wire = Flat(sent)

\* The client never takes the middle of a message for the start of another,
\* so it never meets a type it does not know and gives up.
NeverOutOfStep ==
  /\ ~ done
  /\ \A i \in 1 .. Len(handled) : i <= Len(sent) /\ handled[i] = sent[i]

\* A message that has arrived completely is handled at once, however much of
\* the next one came with it.
NothingHeldBack ==
  bConnected /\ ~ done /\ Len(handled) < Len(sent) =>
    Len(mDataBuf) < Len(sent[Len(handled) + 1])

Channel == INSTANCE MessageChannel
  WITH Message <- {<<VERSION>>} \cup ToSet(Colours) \cup Messages
                  \cup {ImageMessage(images[i]) : images \in Images, i \in {1, 2}},
       open <- bConnected

\* The stream is a channel of messages.
IsChannel == Channel!ChannelSpec

\* Every message sent is handled, or the connection ends; unless the user
\* goes on connecting again.
AllHandled ==
  <>[][~ OpenSocket]_stream =>
    []<>(bConnected => Len(handled) = Len(sent))
=============================================================================
