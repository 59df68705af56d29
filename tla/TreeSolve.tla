------------------------------ MODULE TreeSolve ------------------------------
(***************************************************************************)
(* The network solver of snaphu, TreeSolve() of snaphu_solver.c, on the    *)
(* primary network, with what UnwrapTile() does around it for one flow     *)
(* increment.  Region by region it grows a spanning tree from the source,  *)
(* taking the nearest nodes off a bucket queue, and after every few nodes  *)
(* pivots on arcs outside the tree until none offers a negative cycle or a *)
(* shorter way: a flow increment is sent round a negative cycle, and an    *)
(* arc of the cycle leaves the tree for the one that closed it.            *)
(*                                                                         *)
(* Every arc outside the tree keeps the apex of its cycle, every node its  *)
(* potentials (outcost from the root, incost back to it), and a pivot      *)
(* repairs both only where they can have changed, which it recognizes by   *)
(* the group numbers it gives the nodes.  The thread, a list of the tree   *)
(* in preorder, is a sequence here.                                        *)
(***************************************************************************)
EXTENDS NodeRegions, BucketQueue, ArcCosts, FiniteSets

CONSTANTS
  Problems,         \* the interferograms: mask, residues, costs, initial flows
  Increments,       \* flow increments
  NewNodesPer,      \* 1 / maxnewnodeconst
  NMajorPrune, PruneCostThresh,
  MaxGroupBase,     \* where the group numbers start again
  MinInd, MaxInd,   \* the lowest and the highest bucket
  VeryFar           \* the potential of a node not reached yet

ASSUME TreeAssumption ==
    /\ Increments \subseteq Nat \ {0}
    /\ {NewNodesPer, NMajorPrune, MaxGroupBase} \subseteq Nat \ {0}
    /\ MinInd \in Int /\ MaxInd \in Int /\ MinInd < 0 /\ MaxInd > 0

\* Groups of nodes that are not on the tree; those on it have positive ones.
InBucket == -2
Pruned == -4
Masked == -5
BoundaryPtr == -6

VARIABLES
  problem, nflow,               \* the input, and the flow increment
  pc,                           \* where UnwrapTile() or TreeSolve() is
  sources,                      \* the regions still to be solved
  source, nconnected,           \* the region in hand: its root and its size
  treesize, nnewnodes, nmajor,
  \* what the steps of the solver work on
  flows, nodes, thread, apexes, bkts, boundary,
  candidatebag, candidatelist, groupcounter

counts == <<nconnected, treesize, nnewnodes, nmajor>>
network == <<flows, nodes, thread, apexes, bkts, boundary,
             candidatebag, candidatelist, groupcounter>>
vars == <<problem, nflow, pc, sources, source, counts, network>>

\* The network as a record, which a step hands from function to function.
Network == [flow |-> flows, node |-> nodes, thread |-> thread, apex |-> apexes,
            queue |-> bkts, bnd |-> boundary, bag |-> candidatebag,
            list |-> candidatelist, gc |-> groupcounter]

Becomes(w) ==
    /\ flows' = w.flow /\ nodes' = w.node /\ thread' = w.thread
    /\ apexes' = w.apex /\ bkts' = w.queue /\ boundary' = w.bnd
    /\ candidatebag' = w.bag /\ candidatelist' = w.list /\ groupcounter' = w.gc

-----------------------------------------------------------------------------
NeighborsIn(w, n) == Neighbors(n, w.bnd.ptrs, w.bnd.nbrs)
ArcIn(w, m, n) == GetArc(m, n, w.bnd.ptrs)
Cost(w, b) == GetCost(problem.cost[b.arc], w.flow[b.arc], b.dir, nflow)
OnTree(w, n) == w.node[n].group > 0

\* The nodes from n up to the root.
RECURSIVE PathUp(_, _)
PathUp(node, n) ==
    IF node[n].pred = NoNode THEN <<n>> ELSE <<n>> \o PathUp(node, node[n].pred)

FindApex(node, m, n) ==
    LET up == PathUp(node, m)
        shared == {i \in DOMAIN up : up[i] \in RangeOf(PathUp(node, n))}
    IN  up[CHOOSE i \in shared : \A j \in shared : i <= j]

\* The nodes on the way from n up to its ancestor a, without a.
PathTo(node, n, a) ==
    LET up == PathUp(node, n)
    IN  SubSeq(up, 1, (CHOOSE i \in DOMAIN up : up[i] = a) - 1)

\* A node's place on the thread, and the part of the thread below the node.
Place(w, n) == CHOOSE i \in DOMAIN w.thread : w.thread[i] = n

Subtree(w, n) ==
    LET i == Place(w, n)
        ends == {j \in i + 1..Len(w.thread) + 1 :
                   j > Len(w.thread)
                   \/ w.node[w.thread[j]].level <= w.node[n].level}
    IN  SubSeq(w.thread, i, (CHOOSE j \in ends : \A k \in ends : j <= k) - 1)

\* A node not on the tree: reached more cheaply, or by the way it was reached.
AddNewNode(w, from, b) ==
    LET old == w.node[b.node]
        new == w.node[from].out + Cost(w, b)
    IN  IF new < old.out \/ old.pred = from
        THEN [w EXCEPT !.queue = Link(Unlink(@, b.node, old.group = InBucket, old.out),
                                      b.node, new),
                       !.node[b.node].out = new,
                       !.node[b.node].pred = from,
                       !.node[b.node].group = InBucket]
        ELSE w

\* An arc between two nodes of the tree becomes a candidate if it closes a
\* negative cycle, in either direction, or offers a shorter way.
IsCandidate(w, arc) ==
    arc \in CornerArcs \/ \E c \in w.bag \cup w.list : c.arc = arc

\* What the arc b from the node `from' would bring: round the cycle there and
\* back, and as a shorter way there and back.
Violations(w, from, b, fwd, rev) ==
    LET f == w.node[from]
        t == w.node[b.node]
        round == w.node[w.apex[b.arc]].out + w.node[w.apex[b.arc]].in
    IN  << fwd + f.out + t.in - round, rev + t.out + f.in - round,
           fwd + f.out - t.out, rev + t.out - f.out >>

AddCandidate(w, from, b, violation) ==
    LET found == {i \in 1..4 : violation[i] < 0}
        c(i) == [from |-> IF i \in {1, 3} THEN from ELSE b.node,
                 to |-> IF i \in {1, 3} THEN b.node ELSE from,
                 dir |-> IF i \in {1, 3} THEN b.dir ELSE -b.dir,
                 arc |-> b.arc, violation |-> violation[i], augmenting |-> i <= 2]
    IN  IF found = {} THEN w
        ELSE [w EXCEPT !.bag = @ \cup {c(CHOOSE i \in found : \A j \in found : i <= j)}]

\* Mutant of CheckArcReducedCost: <= for <, and the first direction only.
CheckArcReducedCostLoose(w, from, b) ==
    LET round == w.node[w.apex[b.arc]].out + w.node[w.apex[b.arc]].in
        violation == Cost(w, b) + w.node[from].out + w.node[b.node].in - round
    IN  IF IsCandidate(w, b.arc) \/ violation > 0 THEN w
        ELSE [w EXCEPT !.bag = @ \cup
                {[from |-> from, to |-> b.node, dir |-> b.dir, arc |-> b.arc,
                  violation |-> violation, augmenting |-> TRUE]}]

CheckArcReducedCost(w, from, b) ==
    IF IsCandidate(w, b.arc) THEN w
    ELSE AddCandidate(w, from, b, Violations(w, from, b, Cost(w, b), Cost(w, Back(b))))

\* op applied to the network and every neighbour of every node of a walk.
OverNeighbors(op(_, _), w, walk) ==
    LET arcs == Iterate(LAMBDA s, n :
                   s \o [i \in DOMAIN NeighborsIn(w, n) |->
                           [from |-> n, to |-> NeighborsIn(w, n)[i]]], << >>, walk)
    IN  Iterate(op, w, arcs)

-----------------------------------------------------------------------------
\* Growing the tree.

\* InitTree(): the source is the tree, its neighbours are in buckets.
InitTree(w, root) ==
    LET w1 == [w EXCEPT !.node[root] = [group |-> 1, level |-> 0, in |-> 0,
                                        out |-> 0, pred |-> NoNode],
                        !.thread = <<root>>, !.queue.curr = MaxInd]
        enqueue(v, a) == IF v.node[a.to.node].group \in {Pruned, Masked} THEN v
                         ELSE AddNewNode(v, a.from, a.to)
    IN  OverNeighbors(enqueue, w1, <<root>>)

\* Mutant of Attach: the node goes to the end of the thread.
AttachAtEnd(w, n) ==
    LET from == w.node[n].pred
    IN  [w EXCEPT !.queue = AfterMin(@, n),
                  !.node[n].group = 1,
                  !.node[n].level = w.node[from].level + 1,
                  !.node[n].in = w.node[from].in + Cost(w, Back(ArcIn(w, from, n))),
                  !.thread = Append(@, n)]

\* The nearest node goes on the tree, next to its predecessor on the thread.
Attach(w, n) ==
    LET from == w.node[n].pred
        b == ArcIn(w, from, n)
    IN  [w EXCEPT !.queue = AfterMin(@, n),
                  !.node[n].group = 1,
                  !.node[n].level = w.node[from].level + 1,
                  !.node[n].in = w.node[from].in + Cost(w, Back(b)),
                  !.thread = SubSeq(@, 1, Place(w, from)) \o <<n>>
                             \o SubSeq(@, Place(w, from) + 1, Len(@))]

\* What is then done for each arc out of it.
LookAround(w, a) ==
    LET to == a.to.node IN
    IF OnTree(w, to)
    THEN IF to = w.node[a.from].pred
         THEN [w EXCEPT !.apex[a.to.arc] = NoNode]
         ELSE CheckArcReducedCost([w EXCEPT !.apex[a.to.arc] = FindApex(w.node, a.from, to)],
                                  a.from, a.to)
    ELSE IF w.node[to].group \in {Pruned, Masked} THEN w
    ELSE AddNewNode(w, a.from, a.to)

NearestNode(w) == MinOutCostNode(w.queue, [n \in Nodes |-> w.node[n].out])

-----------------------------------------------------------------------------
\* Pivots.  A cycle is the entering arc b from c.from to c.to, the path `fp'
\* from c.from up to the apex and the path `tp' from c.to up to it.

\* Mutant of CycleArcs: the arcs above c.to are not turned round.
CycleArcsOneWay(w, b, fp, tp) ==
    LET over(p) == [i \in DOMAIN p |-> ArcIn(w, w.node[p[i]].pred, p[i])]
    IN  <<b>> \o over(fp) \o over(tp)

\* The arcs a push follows: down to c.from, over b, and up from c.to.
CycleArcs(w, b, fp, tp) ==
    <<b>> \o [i \in DOMAIN fp |-> ArcIn(w, w.node[fp[i]].pred, fp[i])]
          \o [i \in DOMAIN tp |-> Back(ArcIn(w, w.node[tp[i]].pred, tp[i]))]

\* nflow is pushed until the next push would no longer pay.
RECURSIVE Push(_, _)
Push(w, cycle) ==
    LET w1 == [w EXCEPT !.flow = Iterate(LAMBDA f, b : [f EXCEPT ![b.arc] = @ + b.dir * nflow],
                                         @, cycle)]
    IN  IF Iterate(LAMBDA s, b : s + Cost(w1, b), 0, cycle) >= 0 THEN w1
        ELSE Push(w1, cycle)

\* The leaving arc is the one above the node returned.  After a push: an arc
\* that has no flow, the last one above c.to, or else the first above c.from.
Blocking(w, fp, tp) ==
    LET blocked(p) == {i \in DOMAIN p :
                         w.flow[ArcIn(w, w.node[p[i]].pred, p[i]).arc] = 0}
    IN  IF blocked(tp) # {}
        THEN tp[CHOOSE i \in blocked(tp) : \A j \in blocked(tp) : i >= j]
        ELSE IF blocked(fp) # {}
        THEN fp[CHOOSE i \in blocked(fp) : \A j \in blocked(fp) : i <= j]
        ELSE NoNode

\* Without a push: the last one above c.to whose node, like all those before
\* it, is reached more cheaply over b.
RECURSIVE LastNearer(_, _, _, _)
LastNearer(w, tp, i, out) ==
    IF i > Len(tp) \/ out >= w.node[tp[i]].out
    THEN IF i = 1 THEN NoNode ELSE tp[i - 1]
    ELSE LastNearer(w, tp, i + 1,
           out + Cost(w, Back(ArcIn(w, w.node[tp[i]].pred, tp[i]))))

SetGroup(w, ns, g) ==
    [w EXCEPT !.node = [n \in Nodes |-> IF n \in ns THEN [w.node[n] EXCEPT !.group = g]
                                        ELSE w.node[n]]]

\* Mutant of Shift: incost is left as it was.
ShiftOutOnly(w, ns, dout, din, dlevel, g) ==
    [w EXCEPT !.node = [n \in Nodes |->
        IF n \in ns THEN [w.node[n] EXCEPT !.out = @ + dout, !.level = @ + dlevel, !.group = g]
        ELSE w.node[n]]]

\* A change of the potentials, the level and the group of some nodes.
Shift(w, ns, dout, din, dlevel, g) ==
    [w EXCEPT !.node = [n \in Nodes |->
        IF n \in ns
        THEN [w.node[n] EXCEPT !.out = @ + dout, !.in = @ + din,
                               !.level = @ + dlevel, !.group = g]
        ELSE w.node[n]]]

\* NonDegenUpdateChildren(): from m down the path of nodes of group pathgroup to
\* the node last, each node and those below it off the path get the potentials
\* that the new costs of the path give them, and a group.
RECURSIVE UpdateChildren(_, _, _, _, _, _)
UpdateChildren(w, m, next, last, pathgroup, dgroup) ==
    LET b == ArcIn(w, m, next)
        dout == w.node[m].out - w.node[next].out + Cost(w, b)
        din == w.node[m].in - w.node[next].in + Cost(w, Back(b))
        g == w.node[m].group + dgroup
        w1 == Shift(w, {next}, dout, din, 0, g)
        kids == {k \in RangeOf(w.thread) : w.node[k].pred = next}
        onpath == {k \in kids : w.node[k].group = pathgroup}
        below == UNION {RangeOf(Subtree(w, k)) : k \in kids \ onpath}
    IN  IF m = last THEN w
        ELSE UpdateChildren(Shift(w1, below, dout, din, 0, g), next,
               IF onpath = {} THEN next ELSE CHOOSE k \in onpath : TRUE,
               last, pathgroup, dgroup)

\* The subtree of `root' moves below `mntpt': it follows mntpt on the thread.
MoveOnThread(thrd, below, mntpt) ==
    LET rest == SelectSeq(thrd, LAMBDA n : n \notin RangeOf(below))
        i == CHOOSE j \in DOMAIN rest : rest[j] = mntpt
    IN  SubSeq(rest, 1, i) \o below \o SubSeq(rest, i + 1, Len(rest))

Mount(w, mntpt, root, b, below) ==
    [Shift(w, RangeOf(below),
           w.node[mntpt].out - w.node[root].out + Cost(w, b),
           w.node[mntpt].in - w.node[root].in + Cost(w, Back(b)),
           w.node[mntpt].level - w.node[root].level + 1, w.gc + 1)
       EXCEPT !.gc = @ + 1, !.node[root].pred = mntpt,
              !.thread = MoveOnThread(@, below, mntpt)]

\* The node after a subtree on the thread (the source after the last one).
NodeAfter(thrd, below) ==
    LET last == CHOOSE i \in DOMAIN thrd : thrd[i] = below[Len(below)]
    IN  IF last = Len(thrd) THEN thrd[1] ELSE thrd[last + 1]

\* The tree above the leaving arc is turned over: each node on the path from
\* `root' to the leaving arc gets the one before it as its predecessor.
RECURSIVE Remount(_, _, _, _)
Remount(w, mntpt, root, leavingparent) ==
    LET below == Subtree(w, root)
        mounted == Mount(w, mntpt, root, ArcIn(w, mntpt, root), below)
    IN  IF w.node[root].pred = leavingparent
        THEN [net |-> mounted, skip |-> NodeAfter(mounted.thread, below)]
        ELSE Remount(mounted, root, w.node[root].pred, leavingparent)

\* Mutant of ResetApex: only nodes of the old groups are looked at.
ResetApexBelow(w, a, apex, base, leaving, fromgroup) ==
    LET g == w.node[a.to.node].group
        old == w.apex[a.to.arc]
    IN  IF OnTree(w, a.to.node)
        THEN IF g < w.node[a.from].group /\ old # NoNode
             THEN CheckArcReducedCost(
                    [w EXCEPT !.apex[a.to.arc] =
                        IF w.node[old].level > w.node[apex].level THEN apex ELSE old],
                    a.from, a.to)
             ELSE w
        ELSE IF g \in {Pruned, Masked} THEN w ELSE AddNewNode(w, a.from, a.to)

\* Arcs from the remounted tree to nodes of a lower group get their new apex:
\* on the turned path, at the old apex, or where the other side joins the cycle.
ResetApex(w, a, apex, base, leaving, fromgroup) ==
    LET arc == a.to.arc
        n == a.to.node
        g == w.node[n].group
        up == PathUp(w.node, n)
        joins == {i \in DOMAIN up : w.node[up[i]].group = fromgroup}
        old == w.apex[arc]
        new == IF g >= base THEN PathUp(w.node, leaving)[w.gc - g + 1]
               ELSE IF w.node[old].level > w.node[apex].level THEN apex
               ELSE IF old = apex THEN up[CHOOSE i \in joins : \A j \in joins : i <= j]
               ELSE old
    IN  IF OnTree(w, n)
        THEN IF g < w.node[a.from].group /\ old # NoNode
             THEN CheckArcReducedCost([w EXCEPT !.apex[arc] = new], a.from, a.to)
             ELSE w
        ELSE IF g \in {Pruned, Masked} THEN w ELSE AddNewNode(w, a.from, a.to)

\* Mutant of CheckAgain: arcs to nodes of the same group are taken for unchanged.
CheckAgainOthers(w, a, base) ==
    LET g == w.node[a.to.node].group
    IN  IF g > 0
        THEN IF w.apex[a.to.arc] # NoNode /\ g # w.node[a.from].group
             THEN CheckArcReducedCost(w, a.from, a.to) ELSE w
        ELSE IF g \in {Pruned, Masked} THEN w ELSE AddNewNode(w, a.from, a.to)

\* Arcs out of the other nodes whose potentials a push changed.
CheckAgain(w, a, base) ==
    LET g == w.node[a.to.node].group
        own == w.node[a.from].group
    IN  IF g > 0
        THEN IF w.apex[a.to.arc] # NoNode /\ (g # own \/ own = base)
             THEN CheckArcReducedCost(w, a.from, a.to) ELSE w
        ELSE IF g \in {Pruned, Masked} THEN w ELSE AddNewNode(w, a.from, a.to)

\* The nodes below `first', a child of the apex, less those from `to' up to
\* `skip' on the thread, which were looked at already.
CheckBelow(w, first, apex, to, skip, base) ==
    LET from == Place(w, to)
        upto == IF skip = to THEN from      \* no tree was remounted
                ELSE IF skip = w.thread[1] THEN Len(w.thread) + 1 ELSE Place(w, skip)
        done == {w.thread[i] : i \in from..upto - 1}
    IN  IF first = NoNode \/ w.node[first].pred # apex THEN w
        ELSE OverNeighbors(LAMBDA v, a : CheckAgain(v, a, base), w,
                           SelectSeq(Subtree(w, first), LAMBDA n : n \notin done))

\* The child of the apex on a path of the cycle, known by its group.
FirstOnPath(w, apex, g) ==
    LET found == {b \in RangeOf(NeighborsIn(w, apex)) :
                    w.node[b.node].group = g /\ w.apex[b.arc] = NoNode}
    IN  IF found = {} THEN NoNode ELSE (CHOOSE b \in found : TRUE).node

NextGroup(w) ==
    IF w.gc + 1 > MaxGroupBase
    THEN [SetGroup(w, {n \in Nodes : OnTree(w, n)}, 1) EXCEPT !.gc = 2]
    ELSE [w EXCEPT !.gc = @ + 1]

\* What entering the arc b from the node `from' would bring.
OutCostTo(w, from, b) == w.node[from].out + Cost(w, b)


\* Mutant of CycleCost: the way back is taken to cost what the way there does.
CycleCostSymmetric(w, from, b) == OutCostTo(w, from, b) - w.node[b.node].out

CycleCost(w, from, b) ==
    LET apex == w.node[w.apex[b.arc]]
    IN  OutCostTo(w, from, b) + w.node[b.node].in - apex.out - apex.in
Pays(w, from, b) ==
    OutCostTo(w, from, b) < w.node[b.node].out \/ CycleCost(w, from, b) < 0

\* The cycle an arc b from the node `enter' closes, and what it is entered for.
CycleOf(w, enter, b) ==
    LET apex == FindApex(w.node, enter, b.node)
    IN  [enter |-> enter, arc |-> b, apex |-> apex, augmenting |-> CycleCost(w, enter, b) < 0,
         fp |-> PathTo(w.node, enter, apex), tp |-> PathTo(w.node, b.node, apex)]

\* The push, and a group for each of the two paths.
MarkPaths(w, cyc) ==
    LET w1 == IF cyc.augmenting THEN Push(w, CycleArcs(w, cyc.arc, cyc.fp, cyc.tp)) ELSE w
    IN  SetGroup(SetGroup(w1, RangeOf(cyc.fp), w.gc + 1), RangeOf(cyc.tp), w.gc)

LeavingNode(w, cyc) ==
    IF cyc.augmenting THEN Blocking(w, cyc.fp, cyc.tp)
    ELSE LastNearer(w, cyc.tp, 1, OutCostTo(w, cyc.enter, cyc.arc))

\* The side of the leaving arc is the "to" side from here on.
SidesOf(w, cyc, leaving) ==
    LET fromside == leaving \notin RangeOf(cyc.tp)
        tog == IF fromside THEN w.gc + 1 ELSE w.gc
        fromg == IF fromside THEN w.gc ELSE w.gc + 1
    IN  [leaving |-> leaving,
         parent |-> IF leaving = NoNode THEN cyc.enter ELSE w.node[leaving].pred,
         from |-> IF fromside THEN cyc.arc.node ELSE cyc.enter,
         to |-> IF fromside THEN cyc.enter ELSE cyc.arc.node,
         tog |-> tog, fromg |-> fromg,
         firstto |-> FirstOnPath(w, cyc.apex, tog),
         firstfrom |-> FirstOnPath(w, cyc.apex, fromg)]

\* UpdateChildren for one path of the cycle, if it leaves the apex at all.
UpdatePath(w, apex, first, last, dgroup) ==
    IF first = NoNode THEN w
    ELSE UpdateChildren(w, apex, first, last, w.node[last].group, dgroup)

\* A push changed what the arcs of the cycle cost: the new potentials.
UpdateCycle(w, cyc, s) ==
    IF ~ cyc.augmenting
    THEN [SetGroup(w, {cyc.apex}, s.fromg) EXCEPT !.gc = s.tog + 2]
    ELSE LET up(v) == [v EXCEPT !.gc = v.node[s.from].group]
         IN  up(UpdatePath(UpdatePath(SetGroup(w, {cyc.apex}, s.tog + 2),
                                      cyc.apex, s.firstto, s.parent, 0),
                           cyc.apex, s.firstfrom, s.from, 1))

\* The leaving arc gives way to the arc that entered: the tree is turned over
\* and the arcs out of that part get their apexes.
ResetApexes(w, old, cyc, s, base) ==
    LET reset(v, a) == ResetApex(v, a, cyc.apex, base, s.leaving, old.node[cyc.apex].group)
    IN  OverNeighbors(reset,
                      [w EXCEPT !.apex[cyc.arc.arc] = NoNode,
                                !.apex[ArcIn(old, s.parent, s.leaving).arc] = cyc.apex],
                      Subtree(w, s.to))

Exchange(w, cyc, s, base) ==
    LET into(turned) == [turned EXCEPT !.net = ResetApexes(@, w, cyc, s, base)]
    IN  IF s.leaving = NoNode THEN [net |-> w, skip |-> s.to]
        ELSE into(Remount(w, s.from, s.to, s.parent))

\* After a push the arcs of the other nodes below the apex are looked at, too.
CheckOthers(x, cyc, s, base) ==
    LET check(v, first) == CheckBelow(v, first, cyc.apex, s.to, x.skip, base)
    IN  IF cyc.augmenting THEN Iterate(check, x.net, <<s.firstfrom, s.firstto>>) ELSE x.net

ReplaceArc(w, cyc, s, base) == CheckOthers(Exchange(w, cyc, s, base), cyc, s, base)

BaseGroup(w, cyc) == IF cyc.augmenting THEN w.node[cyc.apex].group ELSE w.gc + 1

AfterPush(w, cyc, s) ==
    LET replace(v) == ReplaceArc(v, cyc, s, BaseGroup(v, cyc))
    IN  replace(UpdateCycle(w, cyc, s))

PushAndReplace(w, cyc) ==
    LET replace(v) == AfterPush(v, cyc, SidesOf(v, cyc, LeavingNode(v, cyc)))
    IN  replace(MarkPaths(NextGroup(w), cyc))

PivotOn(w, enter, b) == PushAndReplace(w, CycleOf(w, enter, b))

\* An arc off the candidate list is tried the way it was found, then the other.
PivotCandidate(w, c) ==
    LET way == << [from |-> c.from, over |-> Nbr(c.to, c.arc, c.dir)],
                  [from |-> c.to, over |-> Nbr(c.from, c.arc, -c.dir)] >>
        paying == SelectSeq(way, LAMBDA y : Pays(w, y.from, y.over))
        pivot(y) == PivotOn(w, y.from, y.over)
    IN  IF paying = << >> THEN w ELSE pivot(Head(paying))

-----------------------------------------------------------------------------
\* PruneTree(): from the source down the thread; after a leaf is removed, back
\* to the node before it if that is above it.
IsUnneeded(w, n) ==
    /\ Len(Subtree(w, n)) = 1
    /\ \A b \in RangeOf(NeighborsIn(w, n)) :
         /\ w.node[b.node].group \notin {0, InBucket}
         /\ Cost(w, b) >= PruneCostThresh /\ Cost(w, Back(b)) >= PruneCostThresh
         /\ w.flow[b.arc] = 0

RECURSIVE Prune(_, _)
Prune(w, i) ==
    IF i = 1 \/ i > Len(w.thread) THEN w
    ELSE LET n == w.thread[i]
             above == w.node[w.thread[i - 1]].level < w.node[n].level
         IN  IF IsUnneeded(w, n)
             THEN Prune([w EXCEPT !.thread = SubSeq(@, 1, i - 1) \o SubSeq(@, i + 1, Len(@)),
                                  !.node[n].group = Pruned],
                        IF above THEN i - 1 ELSE i)
             ELSE Prune(w, i + 1)

-----------------------------------------------------------------------------
MaskStatus(n) == IF IsMaskedNode(problem.masked, n) THEN Masked ELSE 0

NewNode(group) == [group |-> group, level |-> 0, in |-> VeryFar, out |-> VeryFar,
                   pred |-> NoNode]

Init ==
    /\ problem \in Problems
    /\ nflow \in Increments
    /\ pc = "select"
    /\ sources = << >> /\ source = NoNode
    /\ nconnected = 0 /\ treesize = 0 /\ nnewnodes = 0 /\ nmajor = 0
    /\ flows = problem.flow
    /\ nodes = [n \in Nodes |-> NewNode(MaskStatus(n))]    \* MaskNodes()
    /\ thread = << >>
    /\ apexes = [a \in Arcs |-> NonTreeArc]
    /\ bkts = EmptyQueue(MinInd, MaxInd, MaxInd)
    /\ boundary = NoBoundary
    /\ candidatebag = {} /\ candidatelist = {} /\ groupcounter = 2

\* SelectSources() and SetupTreeSolveNetwork().
Select ==
    /\ pc = "select"
    /\ sources' = SelectSources(problem.masked)
    /\ nodes' = [n \in Nodes |-> NewNode(MaskStatus(n))]
    /\ apexes' = [a \in Arcs |-> NonTreeArc]
    /\ pc' = "region"
    /\ UNCHANGED <<problem, nflow, source, counts, flows, thread, bkts, boundary,
                   candidatebag, candidatelist, groupcounter>>

\* TreeSolve() up to its loop, for the next source.
StartRegion ==
    /\ pc = "region" /\ sources # << >>
    /\ LET start  == Head(sources)
           region == Scan(problem.masked, {start.node})
           bnd    == InitBoundary(problem.masked, region, start.node)
           root   == IF bnd = NoBoundary THEN start.node ELSE Boundary
           group(n) == IF n = Boundary THEN 0
                       ELSE IF n \in bnd.ptrs THEN BoundaryPtr
                       ELSE IF n \in region THEN 0
                       ELSE IF n \in Beside(region) THEN Masked ELSE nodes[n].group
           node   == [n \in Nodes |-> IF n = Boundary THEN NewNode(0)
                                      ELSE [nodes[n] EXCEPT !.group = group(n), !.level = 0]]
           free   == {n \in GridNodes \cup {Ground} : group(n) \notin {Masked, BoundaryPtr}}
           size   == IF bnd = NoBoundary THEN start.size
                     ELSE Cardinality(Connected(free, bnd))
           fits   == bnd = NoBoundary \/ BoundaryAgrees(free, bnd)
       IN  /\ source' = root
           /\ nconnected' = size
           /\ Becomes(InitTree([Network EXCEPT !.node = node, !.bnd = bnd, !.gc = 2,
                                               !.bag = {}, !.list = {}], root))
           /\ pc' = IF ~ fits THEN "failed" ELSE IF size > 1 THEN "grow" ELSE "finish"
    /\ sources' = Tail(sources)
    /\ treesize' = 1 /\ nnewnodes' = 0 /\ nmajor' = 0
    /\ UNCHANGED <<problem, nflow>>

MaxNewNodes == (nconnected + NewNodesPer - 1) \div NewNodesPer

AddNode ==
    /\ pc = "grow"
    /\ LET n == NearestNode(Network)
       IN  Becomes(OverNeighbors(LookAround, Attach(Network, n), <<n>>))
    /\ treesize' = treesize + 1 /\ nnewnodes' = nnewnodes + 1
    /\ pc' = IF nnewnodes' < MaxNewNodes /\ treesize' < nconnected
             THEN "grow" ELSE "candidates"
    /\ UNCHANGED <<problem, nflow, sources, source, nconnected, nmajor>>

\* The bag becomes the list, sorted: the augmenting arcs first, then the worst.
TakeCandidates ==
    /\ pc = "candidates" /\ candidatelist = {} /\ candidatebag # {}
    /\ candidatelist' = candidatebag
    /\ candidatebag' = {}
    /\ UNCHANGED <<problem, nflow, pc, sources, source, counts, flows, nodes,
                   thread, apexes, bkts, boundary, groupcounter>>

\* CandidateCompare(); qsort() may leave equals in either order.
IsBefore(c, d) ==
    \/ c.augmenting /\ ~ d.augmenting
    \/ c.augmenting = d.augmenting /\ c.violation < d.violation

Pivot ==
    /\ pc = "candidates"
    /\ \E c \in candidatelist :
         /\ \A d \in candidatelist : ~ IsBefore(d, c)
         /\ Becomes(PivotCandidate([Network EXCEPT !.list = @ \ {c}], c))
    /\ UNCHANGED <<problem, nflow, pc, sources, source, counts>>

\* No candidate is left: some nodes may go, then the tree grows on.
EndMajor ==
    /\ pc = "candidates" /\ candidatelist = {} /\ candidatebag = {}
    /\ nmajor' = nmajor + 1
    /\ Becomes(IF nmajor' % NMajorPrune = 0 THEN Prune(Network, 2) ELSE Network)
    /\ nnewnodes' = 0
    /\ pc' = IF treesize < nconnected THEN "grow" ELSE "finish"
    /\ UNCHANGED <<problem, nflow, sources, source, nconnected, treesize>>

\* DischargeBoundary() and CleanUpBoundaryNodes().
FinishRegion ==
    /\ pc = "finish"
    /\ LET start  == IF source = Boundary THEN boundary.nbrs[1].node ELSE source
           region == Scan(problem.masked, {start})
           before == {n \in GridNodes : nodes[n].out = -1}
           edge   == Discharge(problem.masked, problem.residue, flows, before, boundary)
       IN  /\ flows' = edge.flow
           /\ nodes' = [n \in Nodes |->
                [nodes[n] EXCEPT
                   !.out = IF n \in edge.seen \ before THEN 0 ELSE @,
                   !.group = IF n = Boundary THEN @ ELSE IF n \in region THEN 0
                             ELSE IF n \in Beside(region) THEN MaskStatus(n) ELSE @]]
    /\ boundary' = NoBoundary
    /\ pc' = "region"
    /\ UNCHANGED <<problem, nflow, sources, source, counts, thread, apexes, bkts,
                   candidatebag, candidatelist, groupcounter>>

EndIncrement ==
    /\ pc = "region" /\ sources = << >>
    /\ pc' = "done"
    /\ UNCHANGED <<problem, nflow, sources, source, counts, network>>

Stopped == pc \in {"done", "failed"} /\ UNCHANGED vars

Next == Select \/ StartRegion \/ AddNode \/ TakeCandidates \/ Pivot \/ EndMajor
        \/ FinishRegion \/ EndIncrement \/ Stopped

Spec == Init /\ [][Next]_vars

-----------------------------------------------------------------------------
\* Properties.

Solving == pc \in {"grow", "candidates", "finish"}
TreeNodes == {n \in Nodes : nodes[n].group > 0}
Waiting == {n \in Nodes : nodes[n].group = InBucket}

\* The thread holds the tree in preorder: each node is one level below its
\* predecessor, the last node one level up before it on the thread.  Every walk
\* of a subtree follows the thread by the levels alone.
TreeIsThreaded ==
    Solving =>
      /\ thread[1] = source /\ nodes[source].level = 0 /\ nodes[source].pred = NoNode
      /\ RangeOf(thread) = TreeNodes
      /\ Len(thread) = Cardinality(TreeNodes)
      /\ Len(thread) + Cardinality({n \in Nodes : nodes[n].group = Pruned}) = treesize
      /\ \A i \in 2..Len(thread) :
           LET n == nodes[thread[i]]
               up == {j \in 1..i - 1 : nodes[thread[j]].level = n.level - 1}
           IN  /\ n.level \in 1..nodes[thread[i - 1]].level + 1
               /\ n.pred = thread[CHOOSE j \in up : \A k \in up : j >= k]

\* A pivot changes flows and turns a part of the tree over, and repairs the
\* potentials by differences: each still is what the arcs of the tree cost now.
PotentialsFit ==
    Solving => \A n \in (TreeNodes \ {source}) \cup Waiting :
      LET p == nodes[n].pred
          b == ArcIn(Network, p, n)
      IN  /\ p \in TreeNodes
          /\ nodes[n].out = nodes[p].out + Cost(Network, b)
          /\ n \in TreeNodes => nodes[n].in = nodes[p].in + Cost(Network, Back(b))

\* The apex of every arc outside the tree is the lowest common ancestor of its
\* ends, though a pivot looks only at the arcs of the part it turned over; an
\* arc of the tree has none, and is never a candidate.
ApexesRight ==
    Solving =>
      /\ \A n \in TreeNodes : \A b \in RangeOf(NeighborsIn(Network, n)) :
           b.node \in TreeNodes /\ b.arc \notin CornerArcs =>
             apexes[b.arc] = IF nodes[n].pred = b.node \/ nodes[b.node].pred = n THEN NoNode
                             ELSE FindApex(nodes, n, b.node)
      /\ \A c \in candidatebag \cup candidatelist : apexes[c.arc] \in TreeNodes

\* The queue holds exactly the nodes the tree can grow by, each in the bucket of
\* its cost, none before the index the search starts from.  The tree never has
\* to grow from an empty queue, and the queue is empty when it has grown.
FringeQueued ==
    Solving =>
      /\ Waiting = {n \in Nodes : /\ nodes[n].group \in {0, InBucket}
                                  /\ \E b \in RangeOf(NeighborsIn(Network, n)) :
                                       b.node \in TreeNodes}
      /\ Holds(bkts, Waiting, [n \in Nodes |-> nodes[n].out])
      /\ IsFilled(bkts) <=> treesize < nconnected

\* When no candidate is left, no arc outside the tree offers a negative cycle or
\* a shorter way, though only some arcs are looked at after each pivot.
NoViolationLeft ==
    pc \in {"candidates", "finish"} /\ candidatebag = {} /\ candidatelist = {} =>
      \A n \in TreeNodes : \A b \in RangeOf(NeighborsIn(Network, n)) :
        b.node \in TreeNodes /\ apexes[b.arc] # NoNode /\ b.arc \notin CornerArcs
          => ~ Pays(Network, n, b)

\* Flow is conserved: at every node the flow in less the flow out makes up for
\* the residue, except, while their region is solved, at the nodes that the
\* boundary node stands for; the edge of the region makes up for those.
FlowsBalance ==
    pc # "select" => \A n \in GridNodes : nodes[n].group # BoundaryPtr =>
      Surplus(flows, n) + problem.residue[n] = 0

\* After each region every node is masked or free as the pixels have it, though
\* a region masks its neighbours in other regions; and CheckBoundary() never
\* finds the boundary of a region inconsistent.
RegionsApart ==
    /\ pc # "failed"
    /\ pc = "region" => \A n \in GridNodes \cup {Ground} : nodes[n].group = MaskStatus(n)

RECURSIVE CostOver(_, _)
CostOver(f, as) ==
    IF as = {} THEN 0
    ELSE LET a == CHOOSE x \in as : TRUE
         IN  EvalCost(problem.cost[a], f[a]) + CostOver(f, as \ {a})

\* A push of single cycles always lowers the cost of the flows, and balancing
\* the edge of a region does not change it.
CostFalls ==
    [][pc # "select" /\ nflow = 1 /\ flows' # flows =>
         IF pc = "finish" THEN CostOver(flows', Arcs) = CostOver(flows, Arcs)
         ELSE CostOver(flows', Arcs) < CostOver(flows, Arcs)]_flows

TypeOK ==
    /\ pc \in {"select", "region", "grow", "candidates", "finish", "failed", "done"}
    /\ problem.residue \in [GridNodes -> -1..1]
    /\ flows \in [Arcs -> Int]
    /\ DOMAIN nodes = Nodes
    /\ \A n \in Nodes :
         /\ nodes[n].group \in {0, InBucket, Pruned, Masked, BoundaryPtr} \cup Nat
         /\ nodes[n].level \in Nat /\ nodes[n].in \in Int /\ nodes[n].out \in Int
         /\ nodes[n].pred \in Nodes \cup {NoNode}
    /\ apexes \in [Arcs -> Nodes \cup {NoNode, NonTreeArc}]
    /\ RangeOf(thread) \subseteq Nodes
    /\ bkts.curr \in MinInd..MaxInd
    /\ \A c \in candidatebag \cup candidatelist : c.arc \in Arcs /\ c.violation < 0
    /\ treesize <= nconnected
=============================================================================
