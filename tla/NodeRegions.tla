----------------------------- MODULE NodeRegions -----------------------------
(***************************************************************************)
(* The regions the solver works on: sets of nodes connected by arcs beside *)
(* a pixel that is not masked.  A region inside masked pixels has an edge  *)
(* of arcs that cost nothing; nodes of that edge are taken together as one *)
(* boundary node, the root of the region's tree, so chosen that no node    *)
(* has two arcs to it.  What flows to and from the boundary node is later  *)
(* balanced along the edge.                                                *)
(***************************************************************************)
EXTENDS GridNetwork

CONSTANTS
  NConnNodeMin,     \* regions of no more nodes than this are not solved
  MinBoundarySize   \* the fewest nodes a boundary node may stand for

ASSUME RegionAssumption == NConnNodeMin \in Nat /\ MinBoundarySize \in Nat \ {0}

\* op applied to s and each element of seq in turn.
Iterate(op(_, _), s, seq) ==
    LET go[i \in 0..Len(seq)] == IF i = 0 THEN s ELSE op(go[i - 1], seq[i])
    IN  go[Len(seq)]

-----------------------------------------------------------------------------
\* SelectSources(): ground first, then the grid nodes in order; each source is
\* the first node of its region.
NodeOrder ==
    <<Ground>> \o [i \in 1..(NRow - 1) * (NCol - 1) |->
                     <<(i - 1) \div (NCol - 1), (i - 1) % (NCol - 1)>>]

SelectSources(masked) ==
    LET select(s, n) ==
          IF n \in s.seen \/ IsMaskedNode(masked, n) THEN s
          ELSE LET region == Scan(masked, {n})
                   source == [node |-> n, size |-> Cardinality(region)]
               IN  [seen |-> s.seen \cup region,
                    list |-> IF source.size > NConnNodeMin
                             THEN Append(s.list, source) ELSE s.list]
    IN  Iterate(select, [seen |-> {}, list |-> << >>], NodeOrder).list

\* The nodes beside a region that are not part of it: ScanRegion() masks them
\* while the region is solved, and gives them their own status back after it.
Beside(region) ==
    UNION {{b.node : b \in RangeOf(GridNeighbors[n])} : n \in region} \ region

-----------------------------------------------------------------------------
\* InitBoundary().
NoBoundary == [ptrs |-> {}, list |-> << >>, nbrs |-> << >>]

\* First pass: the nodes reached from the source along arcs of the edge, by one
\* node of the list after the other.
EdgeNodes(masked, source) ==
    LET more(list, n) ==
          SelectSeq(GridNeighbors[n], LAMBDA b : /\ IsRegionEdgeArc(masked, b.arc)
                                                 /\ b.node \notin RangeOf(list))
        after(list, i) ==
          IF i > Len(list) THEN list
          ELSE list \o [j \in DOMAIN more(list, list[i]) |-> more(list, list[i])[j].node]
        found[i \in 0..Cardinality(GridNodes) + 1] ==
          IF i = 0 THEN <<source>> ELSE after(found[i - 1], i)
    IN  found[Cardinality(GridNodes) + 1]

\* Second pass: a node of the edge is a pointer to the boundary node if it has
\* an inner neighbour and no node beside it is next to another pointer.
BoundaryList(masked, edge) ==
    LET include(ptrs, n) ==
          LET inner == {b \in RangeOf(GridNeighbors[n]) :
                          /\ IsRegionInteriorArc(masked, b.arc)
                          /\ b.node \notin RangeOf(ptrs)}
              beside == {b.node : b \in RangeOf(GridNeighbors[n])}
              near  == {b.node : b \in inner}
                       \cup (beside \cap (RangeOf(edge) \ RangeOf(ptrs)))
              taken == {m \in near : \E b \in RangeOf(GridNeighbors[m]) :
                                        b.node \in RangeOf(ptrs)}
          IN  IF n # Ground /\ taken = {} /\ inner # {} THEN Append(ptrs, n) ELSE ptrs
    IN  Iterate(include, << >>, edge)

\* Mutant of BoundaryNeighbors: masked nodes are neighbours, too.
BoundaryNeighborsAll(region, ptrs) ==
    LET add(nbrs, n) == nbrs \o SelectSeq(GridNeighbors[n],
                                          LAMBDA b : b.node \notin RangeOf(ptrs))
    IN  Iterate(add, << >>, ptrs)

\* Third pass: the neighbours of the boundary node.
BoundaryNeighbors(region, ptrs) ==
    LET outside(b) == b.node \in region \ RangeOf(ptrs)
        add(nbrs, n) == nbrs \o SelectSeq(GridNeighbors[n], outside)
    IN  Iterate(add, << >>, ptrs)

InitBoundary(masked, region, source) ==
    LET ptrs == BoundaryList(masked, EdgeNodes(masked, source))
    IN  IF source = Ground \/ Len(ptrs) < MinBoundarySize THEN NoBoundary
        ELSE [ptrs |-> RangeOf(ptrs), list |-> ptrs,
              nbrs |-> BoundaryNeighbors(region, ptrs)]

\* CheckBoundary(): the nodes connected to the boundary node through nodes that
\* are not masked, and whether the lists of the boundary agree with them.
Connected(free, bnd) ==
    LET beside(n) == {b.node : b \in RangeOf(Neighbors(n, bnd.ptrs, bnd.nbrs))}
        next(s) == s \cup (UNION {beside(n) : n \in s} \cap (free \cup {Boundary}))
        reach[i \in 0..Cardinality(GridNodes)] ==
            IF i = 0 THEN {Boundary} ELSE next(reach[i - 1])
    IN  reach[Cardinality(GridNodes)]

ArcsToBoundary(nodes, bnd) ==
    {p \in (nodes \ {Boundary}) \X (1..4) :
        Neighbors(p[1], bnd.ptrs, bnd.nbrs)[p[2]].node = Boundary}

BoundaryAgrees(free, bnd) ==
    Cardinality(ArcsToBoundary(Connected(free, bnd), bnd)) = Len(bnd.nbrs)

-----------------------------------------------------------------------------
\* DischargeBoundary(): goes down the arcs of the edge from its first pointer,
\* an arc not followed yet to a node not visited yet before one followed once;
\* on the way back up an arc takes the excess of the node it leaves.  A node
\* is visited when its outcost is -1.
Descend(masked, residue, s) ==
    LET seen == s.seen \cup {s.at}
        isOpen(b) == /\ IsRegionEdgeArc(masked, b.arc)
                     /\ \/ s.mark[b.arc] = -1
                        \/ s.mark[b.arc] = 0 /\ b.node \notin seen
        isFresh(b) == s.mark[b.arc] = 0
        edge == SelectSeq(GridNeighbors[s.at], isOpen)
        fresh == SelectSeq(edge, isFresh)
        along == IF fresh # << >> THEN Head(fresh) ELSE edge[Len(edge)]
        excess == Surplus(s.flow, s.at) + residue[s.at]
    IN  IF edge = << >> THEN [s EXCEPT !.seen = seen]
        ELSE [at |-> along.node,
              mark |-> [s.mark EXCEPT ![along.arc] = @ - 1],
              flow |-> IF s.mark[along.arc] = -1
                       THEN [s.flow EXCEPT ![along.arc] = @ + along.dir * excess] ELSE s.flow,
              seen |-> seen]

\* No arc is followed more than twice.
Discharge(masked, residue, flow, visited, bnd) ==
    LET walk[i \in 0..2 * Cardinality(Arcs) + 1] ==
          IF i = 0
          THEN [at |-> bnd.list[1], mark |-> [a \in Arcs |-> 0], flow |-> flow, seen |-> visited]
          ELSE Descend(masked, residue, walk[i - 1])
    IN  IF bnd.list = << >> \/ bnd.nbrs = << >> THEN [flow |-> flow, seen |-> visited]
        ELSE walk[2 * Cardinality(Arcs) + 1]
=============================================================================
