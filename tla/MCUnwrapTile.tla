---------------------------- MODULE MCUnwrapTile ----------------------------
(***************************************************************************)
(* Small interferograms for the solver: masks, flow patterns with the      *)
(* residues they balance, and costs.                                       *)
(***************************************************************************)
EXTENDS UnwrapTile

\* Nothing masked; the edge masked, so that one region of two by three pixels
\* has a boundary node; a region beside the last column, which touches ground,
\* with one masked column between them; two masked pixels that touch at a corner.
Masks ==
    {{}, Pixels \ ((1..2) \X (1..3)), {<<1, 1>>, <<2, 2>>},
     Pixels \ (((1..2) \X (1..2)) \cup ((0..3) \X {4}))}

\* Flows of -1 to 2, of which no node gets more than one cycle too many.
Pattern(i, m) ==
    [a \in Arcs |-> LET h == (3 * a[1] + 5 * a[2] + i * (a[1] + 2)) % m IN
                    IF a \in CornerArcs THEN 0
                    ELSE CASE h = 1 -> 1 [] h = 4 -> -1 [] h = 6 -> 2 [] OTHER -> 0]

Patterns == {Pattern(4, 11), Pattern(8, 11), Pattern(5, 13), Pattern(10, 13), Pattern(6, 9)}

Offsets(i, masked) ==
    [a \in Arcs |->
       IF Sides(a) \cap masked # {} THEN MaskCost
       ELSE ArcCost(((7 * a[1] + 4 * a[2] + i * a[1] * a[2]) % (NShortCycle + 1))
                      - NShortCycle \div 2,
                    1 + ((a[1] + a[2] + i) % 2),
                    IF (a[1] + i) % 3 = 0 THEN 5 ELSE LargeShort,
                    IF (a[1] + i) % 3 = 0 THEN 6 ELSE NoCostShelf)]

Residues(f) == [n \in GridNodes |-> -Surplus(f, n)]

NoFlow == [a \in Arcs |-> 0]

\* Flows brought by unwrapped input, flows still to be found, and no residues.
MCProblems ==
    {[masked |-> m, unwrapped |-> u, flow |-> IF u THEN f ELSE NoFlow,
      cost |-> Offsets(k, m), residue |-> Residues(f)]
       : m \in Masks, f \in Patterns, k \in 0..2, u \in BOOLEAN}
    \cup {[masked |-> {}, unwrapped |-> FALSE, flow |-> NoFlow,
           cost |-> Offsets(k, {}), residue |-> Residues(NoFlow)] : k \in 0..2}

MCMinInd == -3
MCMinRes == -128
=============================================================================
