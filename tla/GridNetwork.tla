---------------------------- MODULE GridNetwork ----------------------------
(***************************************************************************)
(* The primary network of snaphu: a node between every four pixels, one    *)
(* ground node for the edge of the image, and, for a region inside masked  *)
(* pixels, one boundary node that stands for nodes of the region's edge.   *)
(* Arcs are numbered as in the flow arrays: the row arcs <<r, c>>, r below *)
(* NRow - 1, run to the right, the column arcs below them run down.        *)
(***************************************************************************)
EXTENDS Integers, Sequences, FiniteSets

CONSTANTS NRow, NCol     \* the size of the image in pixels

ASSUME SizeAssumption == NRow \in Nat \ {0, 1} /\ NCol \in Nat \ {0, 1, 2}

Pixels == (0..NRow - 1) \X (0..NCol - 1)
GridNodes == (0..NRow - 2) \X (0..NCol - 2)
Ground == <<-2, -2>>
Boundary == <<-4, -4>>
Nodes == GridNodes \cup {Ground, Boundary}
NoNode == <<-9, -9>>         \* NULL
NonTreeArc == <<-8, -8>>     \* the apex of an arc not looked at yet

RowArcs == (0..NRow - 2) \X (0..NCol - 1)
ColArcs == (NRow - 1..2 * NRow - 2) \X (0..NCol - 2)
Arcs == RowArcs \cup ColArcs

\* Arcs from a corner node to ground beside another one: they are not used.
CornerArcs == {NRow - 1, 2 * NRow - 2} \X {0, NCol - 2}

Nbr(node, arc, dir) == [node |-> node, arc |-> arc, dir |-> dir]

\* The neighbours of a node in the order of NeighborNodeGrid(): right, down,
\* left, up; from ground the left, right, upper and lower edge.
AtOrGround(r, c) == IF <<r, c>> \in GridNodes THEN <<r, c>> ELSE Ground

GridNeighbors ==
    [n \in GridNodes \cup {Ground} |->
        IF n # Ground
        THEN LET r == n[1]
                 c == n[2]
             IN  << Nbr(AtOrGround(r, c + 1), <<r, c + 1>>, 1),
                    Nbr(AtOrGround(r + 1, c), <<NRow + r, c>>, 1),
                    Nbr(AtOrGround(r, c - 1), <<r, c>>, -1),
                    Nbr(AtOrGround(r - 1, c), <<NRow - 1 + r, c>>, -1) >>
        ELSE [i \in 1..NRow - 1 |-> Nbr(<<i - 1, 0>>, <<i - 1, 0>>, 1)]
             \o [i \in 1..NRow - 1 |->
                    Nbr(<<i - 1, NCol - 2>>, <<i - 1, NCol - 1>>, -1)]
             \o [i \in 1..NCol - 3 |-> Nbr(<<0, i>>, <<NRow - 1, i>>, 1)]
             \o [i \in 1..NCol - 3 |->
                    Nbr(<<NRow - 2, i>>, <<2 * NRow - 2, i>>, -1)]]

RangeOf(s) == {s[i] : i \in DOMAIN s}

\* The arc between two nodes of the grid, as GetArcGrid() finds it: never an
\* unused corner arc.
GridArc ==
    [from \in GridNodes \cup {Ground} |->
        [to \in {b.node : b \in RangeOf(GridNeighbors[from])} |->
            CHOOSE b \in RangeOf(GridNeighbors[from]) :
                b.node = to /\ b.arc \notin CornerArcs]]

\* The neighbours of a node when the nodes of ptrs are parts of the boundary
\* node, whose own neighbours are the list nbrs.
Neighbors(n, ptrs, nbrs) ==
    IF n = Boundary THEN nbrs
    ELSE [i \in DOMAIN GridNeighbors[n] |->
            LET b == GridNeighbors[n][i] IN
            IF b.node \in ptrs THEN [b EXCEPT !.node = Boundary] ELSE b]

\* GetArcGrid() looks for the boundary on the right, the left, below, above.
ToBoundary(n, ptrs) ==
    LET b == GridNeighbors[n] IN
    IF b[1].node \in ptrs THEN b[1]
    ELSE IF b[3].node \in ptrs THEN b[3]
    ELSE IF b[2].node \in ptrs THEN b[2] ELSE b[4]

Back(b) == [b EXCEPT !.dir = -b.dir]

GetArc(from, to, ptrs) ==
    IF to = Boundary THEN ToBoundary(from, ptrs)
    ELSE IF from = Boundary THEN Back(ToBoundary(to, ptrs))
    ELSE GridArc[from][to]

-----------------------------------------------------------------------------
\* Masks: pixels of zero magnitude.

\* The pixels on the two sides of an arc, and around a node.
Sides(a) ==
    IF a \in RowArcs THEN {a, <<a[1] + 1, a[2]>>}
    ELSE {<<a[1] - (NRow - 1), a[2]>>, <<a[1] - (NRow - 1), a[2] + 1>>}

Around(n) ==
    IF n = Ground THEN {p \in Pixels : p[1] \in {0, NRow - 1} \/ p[2] \in {0, NCol - 1}}
    ELSE (n[1]..n[1] + 1) \X (n[2]..n[2] + 1)

IsRegionArc(masked, a) == ~ Sides(a) \subseteq masked
IsRegionInteriorArc(masked, a) == Sides(a) \cap masked = {}
IsRegionEdgeArc(masked, a) ==
    IsRegionArc(masked, a) /\ ~ IsRegionInteriorArc(masked, a)
IsMaskedNode(masked, n) == Around(n) \subseteq masked

\* The nodes reached from those of s without crossing an arc between two masked
\* pixels, as ScanRegion() finds them.
Scan(masked, s) ==
    LET step(t) == t \cup UNION {{b.node : b \in
                      {b \in RangeOf(GridNeighbors[n]) : IsRegionArc(masked, b.arc)}}
                        : n \in t}
        scan[i \in 0..Cardinality(GridNodes)] ==
            IF i = 0 THEN s ELSE step(scan[i - 1])
    IN  scan[Cardinality(GridNodes)]

-----------------------------------------------------------------------------
\* Flows.  A node's surplus is the flow into it less the flow out of it.
Surplus(f, n) ==
    IF n = Ground THEN 0
    ELSE f[<<n[1], n[2]>>] - f[<<n[1], n[2] + 1>>]
         + f[<<n[1] + NRow - 1, n[2]>>] - f[<<n[1] + NRow, n[2]>>]
=============================================================================
