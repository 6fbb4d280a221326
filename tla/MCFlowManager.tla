--------------------------- MODULE MCFlowManager ---------------------------
(* Small instances of FlowManager for TLC. *)
EXTENDS FlowManager
CONSTANTS f1, f2, f3, i1, i2, t1, t2

TwoFlows == {f1, f2}
ThreeFlows == {f1, f2, f3}
TwoIds == {i1, i2}
OneType == {t1}
TwoTypes == {t1, t2}
Symmetric == Permutations(Flows) \cup Permutations(Ids) \cup Permutations(Types)
=============================================================================
