------------------------------ MODULE MCMSTInit ------------------------------
(***************************************************************************)
(* Small images for the spanning tree initialization: every pattern of     *)
(* residues -1, 0 and 1, and arcs of equal cost.                           *)
(***************************************************************************)
EXTENDS MSTInit

MCInputs ==
    {[residue |-> r, cost |-> [a \in Arcs |-> IF a \in CornerArcs THEN Ineligible ELSE 1]]
       : r \in [GridNodes -> -1..1]}

MCMinRes == -128
=============================================================================
