------------------------------ MODULE MCFlowLoop ------------------------------
(* Instances of FlowLoop for TLC.                                              *)
EXTENDS FlowLoop

BothLoops     == {"grid", "secondary"}
SecondaryLoop == {"secondary"}

\* What a variable without a value may hold: too small, right, too large.
Garbage == {-9, 0, 2, 9}
================================================================================
