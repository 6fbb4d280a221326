--------------------------- MODULE MCClientStream ---------------------------
(***************************************************************************)
(* Small instances of ClientStream for TLC.  The sizes keep the order of   *)
(* those of the code: a FLOW is longer than two image headers.  The bytes  *)
(* inside the messages are chosen to look like types, lengths and VERSION. *)
(***************************************************************************)
EXTENDS ClientStream

Sizes == [type \in PacketTypes |-> CASE type = FLOW  -> 5
                                     [] type = 1     -> 3
                                     [] type = 3     -> 1
                                     [] OTHER        -> 2]
TwoColours == <<<<4, 2, 3, 21>>, <<4, 1, 0>>>>
BothImages == {<< <<9>>, <<3, 5>> >>}
NoImages   == {<< << >>, << >> >>}
AllKinds == {<<0, 21, 3, 9, 0>>, <<1, 0, 21>>, <<2, 21>>, <<3>>}
=============================================================================
