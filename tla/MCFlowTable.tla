----------------------------- MODULE MCFlowTable -----------------------------
(* Small instances of FlowTable for TLC. *)
EXTENDS FlowTable
CONSTANTS c1, h1, h2

OneClient == {c1}
Hosts     == {h1, h2}
=============================================================================
