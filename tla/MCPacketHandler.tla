--------------------------- MODULE MCPacketHandler ---------------------------
(***************************************************************************)
(* Small instances of PacketHandler for TLC: two hosts inside, one         *)
(* outside; a handshake, an exchange with time stamps (one of them sent    *)
(* twice), a ping.  Client and server numbers and time stamps are chosen   *)
(* apart, as they are but for accidents.                                   *)
(***************************************************************************)
EXTENDS PacketHandler
CONSTANTS h1, h2, x, d1, d2

TwoDirs  == {d1, d2}
TwoHosts == {h1, h2}

Packet(kind, out, inner) ==
  [kind |-> kind, out |-> out, inner |-> inner, outer |-> x, syn |-> FALSE,
   ack |-> FALSE, fin |-> FALSE, rst |-> FALSE, seq |-> 0, ackno |-> 0,
   ts |-> 0, ecr |-> 0, tail |-> 0, size |-> 0]

SynOut    == [Packet("tcp", TRUE, h1) EXCEPT !.syn = TRUE, !.seq = 1]
SynAckIn  == [Packet("tcp", FALSE, h1) EXCEPT !.syn = TRUE, !.ack = TRUE,
                                              !.seq = 4, !.ackno = 2]
AckOut    == [Packet("tcp", TRUE, h1) EXCEPT !.ack = TRUE, !.seq = 2, !.ackno = 5,
                                              !.size = 1]
StampOut  == [Packet("tcp", TRUE, h2) EXCEPT !.ack = TRUE, !.ts = 7, !.size = 1]
StampIn   == [Packet("tcp", FALSE, h2) EXCEPT !.ack = TRUE, !.ts = 9, !.ecr = 7,
                                              !.size = 1]
Ping      == [Packet("echo", TRUE, h2) EXCEPT !.seq = 3]
Pong      == [Packet("reply", FALSE, h2) EXCEPT !.seq = 3]
UdpIn     == [Packet("udp", FALSE, h1) EXCEPT !.size = 1]

SomePackets == {SynOut, SynAckIn, AckOut, StampOut, StampIn, Pong, Ping, UdpIn}

\* For the list: a packet out that is never displayed, and packets in to both hosts.
BareAck   == [AckOut EXCEPT !.size = 0]
ListPackets == {BareAck, UdpIn, StampIn}
DefaultShow == [nondata |-> FALSE, data |-> TRUE, control |-> TRUE,
                nontcpudp |-> TRUE, resets |-> TRUE]

\* Without a list ever, two traces of three packets; with one, three traces, the
\* first of two packets, the others of one and as many more as the colour module
\* refuses.
AllPackets == SomePackets \cup ListPackets
Bounds ==
  \/ /\ path = None /\ runs <= 2 /\ \A d \in Dirs : disk[d] = {}
     /\ \A h \in seen : h.packet \in SomePackets
  \/ /\ Cardinality(seen) <= (IF runs = 1 THEN 2 ELSE 1) /\ now <= 3
     /\ \A h \in seen : h.packet \in ListPackets
MCSpec == Init /\ [][Next /\ Bounds']_vars

\* As chosen, no number is taken for another.
ASSUME PacketsApart == Apart
=============================================================================
