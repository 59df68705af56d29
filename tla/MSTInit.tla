------------------------------- MODULE MSTInit -------------------------------
(***************************************************************************)
(* The initial flows of snaphu, MSTInitFlows() of snaphu_solver.c: a tree  *)
(* of arcs that connects the residues, grown by Prim's algorithm with      *)
(* Dijkstra's shortest paths inside, then the one flow along that tree     *)
(* that balances them.  Where a flow exceeds MaxFlow all flows are clipped *)
(* and the excess is put back as residues for another round.               *)
(***************************************************************************)
EXTENDS NodeRegions, BucketQueue

CONSTANTS
  MSTInputs,              \* residues and costs of arcs
  Unreached,              \* VERYFAR
  Ineligible,             \* LARGESHORT, the cost of the unused corner arcs
  MaxFlow,                \* params->initmaxflow
  CostIncrement,          \* INITMAXCOSTINCR
  MinRes, MaxRes,         \* the range of a residue
  MaxRounds

ASSUME MSTAssumption ==
    /\ {Unreached, Ineligible, MaxFlow, MaxRounds, CostIncrement} \subseteq Nat \ {0}
    /\ MinRes \in Int /\ MaxRes \in Int /\ MinRes < MaxRes

\* Only the corner arcs cost LARGESHORT.
IsInput(i) ==
    /\ i.residue \in [GridNodes -> MinRes..MaxRes] /\ i.cost \in [Arcs -> Nat]
    /\ \A a \in Arcs : IF a \in CornerArcs THEN i.cost[a] = Ineligible ELSE i.cost[a] < Ineligible

ASSUME InputAssumption == \A i \in MSTInputs : IsInput(i)

VARIABLES
  input, residue, mstcosts, mstflows, rounds,
  stage,                 \* where MSTInitFlows() or a function it calls is
  mstbkts, inbucket,     \* the queue, and the nodes in a bucket of it
  nodecost, pred,         \* outcost and pred of each node
  arcstatus,             \* -1 for an arc of the tree, then how often followed
  from, pathto, arcnum   \* what the loops of SolveMST() work on

treevars == <<mstbkts, inbucket, nodecost, pred>>
walkvars == <<from, pathto, arcnum>>
mstvars == <<input, residue, mstcosts, mstflows, rounds, stage, treevars, arcstatus, walkvars>>

GroundedNodes == GridNodes \cup {Ground}

MostOf(S) == CHOOSE x \in S : \A y \in S : x >= y
LeastOf(S) == CHOOSE x \in S : \A y \in S : x <= y

GroundCharge(res) ==
    LET less[i \in 0..Len(NodeOrder)] ==
          IF i = 0 THEN 0
          ELSE less[i - 1] - (IF NodeOrder[i] = Ground THEN 0 ELSE res[NodeOrder[i]])
    IN  less[Len(NodeOrder)]

Charge(res, n) == IF n = Ground THEN GroundCharge(res) ELSE res[n]

\* The first node that has a residue; NoNode if none has.
FirstResidue(res) ==
    LET found == {i \in DOMAIN NodeOrder : NodeOrder[i] # Ground /\ res[NodeOrder[i]] # 0}
    IN  IF found = {} THEN NoNode ELSE NodeOrder[LeastOf(found)]

Source == FirstResidue(residue)

\* The last bucket.  The search for the largest cost leaves out the first and
\* the last column of every row, as (row==nrow-1 || 2*nrow-2) always holds.
LastBucket(costs) ==
    LET most == MostOf({0} \cup {costs[a] : a \in {a \in Arcs : a[2] \notin {0, NCol - 2}}})
    IN  (most + 1) * (NRow + NCol + 1) - 1

StartFrom(i) ==
    /\ input = i
    /\ residue = i.residue /\ mstcosts = i.cost
    /\ mstflows = [a \in Arcs |-> 0]
    /\ arcstatus = [a \in Arcs |-> 0]
    /\ mstbkts = EmptyQueue(0, LastBucket(i.cost), 0) /\ inbucket = {}
    /\ nodecost = [n \in GroundedNodes |-> 0] /\ pred = [n \in GroundedNodes |-> NoNode]
    /\ from = NoNode /\ pathto = NoNode /\ arcnum = 1
    /\ stage = "solve" /\ rounds = 0

MSTStart == \E i \in MSTInputs : StartFrom(i)

-----------------------------------------------------------------------------
\* SolveMST().

\* InitNodes(), InitBuckets(): the source is in the first bucket.
StartTree ==
    /\ stage = "solve" /\ Source # NoNode /\ rounds < MaxRounds
    /\ mstbkts' = BucketInsert(EmptyQueue(0, LastBucket(input.cost), 0), Source, 0)
    /\ inbucket' = {Source}
    /\ nodecost' = [n \in GroundedNodes |-> IF n = Source THEN 0 ELSE Unreached]
    /\ pred' = [n \in GroundedNodes |-> NoNode]
    /\ arcstatus' = [a \in Arcs |-> 0]
    /\ stage' = "grow" /\ rounds' = rounds + 1
    /\ UNCHANGED <<input, residue, mstcosts, mstflows, walkvars>>

\* The closest node is scanned; if it is a residue its path is marked first.
TakeClosest ==
    /\ stage = "grow" /\ IsFilled(mstbkts)
    /\ from' = ClosestNode(mstbkts)
    /\ mstbkts' = AfterClosest(mstbkts) /\ inbucket' = inbucket \ {from'}
    /\ pathto' = from' /\ arcnum' = 1
    /\ stage' = IF Charge(residue, from') # 0 /\ from' # Source THEN "mark" ELSE "scan"
    /\ UNCHANGED <<input, residue, mstcosts, mstflows, rounds, nodecost, pred, arcstatus>>

\* Mutant of MarkPath: the test comes before the marking of the arc.
MarkPathEarly ==
    /\ stage = "mark"
    /\ IF Charge(residue, pred[pathto]) # 0
       THEN stage' = "scan" /\ UNCHANGED <<nodecost, arcstatus, pathto>>
       ELSE /\ nodecost' = [nodecost EXCEPT ![pathto] = 0]
            /\ arcstatus' = [arcstatus EXCEPT ![GridArc[pred[pathto]][pathto].arc] = -1]
            /\ stage' = stage /\ pathto' = pred[pathto]
    /\ UNCHANGED <<input, residue, mstcosts, mstflows, rounds, mstbkts, inbucket, pred,
                   from, arcnum>>

\* The arcs back from a residue to the last one on its path, or the source: they
\* are on the tree, and their nodes at distance zero from now on.
MarkPath ==
    /\ stage = "mark"
    /\ nodecost' = [nodecost EXCEPT ![pathto] = 0]
    /\ arcstatus' = [arcstatus EXCEPT ![GridArc[pred[pathto]][pathto].arc] = -1]
    /\ IF Charge(residue, pred[pathto]) # 0 THEN stage' = "scan" /\ pathto' = pathto
       ELSE stage' = stage /\ pathto' = pred[pathto]
    /\ UNCHANGED <<input, residue, mstcosts, mstflows, rounds, mstbkts, inbucket, pred,
                   from, arcnum>>

ArcDist(a) ==
    IF arcstatus[a] < 0 THEN 0 ELSE IF mstcosts[a] = Ineligible THEN Unreached ELSE mstcosts[a]

\* One of the neighbours gets a shorter way, over `from', if that is one.
Relax(to, newdist) ==
    IF newdist >= nodecost[to] THEN UNCHANGED treevars
    ELSE /\ mstbkts' = Link(Unlink(mstbkts, to, to \in inbucket, nodecost[to]), to, newdist)
         /\ inbucket' = inbucket \cup {to}
         /\ nodecost' = [nodecost EXCEPT ![to] = newdist]
         /\ pred' = [pred EXCEPT ![to] = from]

ScanArc ==
    /\ stage = "scan"
    /\ LET b == GridNeighbors[from][arcnum]
       IN  Relax(b.node, nodecost[from] + ArcDist(b.arc))
    /\ arcnum' = arcnum + 1
    /\ stage' = IF arcnum = Len(GridNeighbors[from]) THEN "grow" ELSE "scan"
    /\ UNCHANGED <<input, residue, mstcosts, mstflows, rounds, arcstatus, from, pathto>>

-----------------------------------------------------------------------------
\* DischargeTree(), which keeps the charges in nodecost, as the code in outcost.
StartDischarge ==
    /\ stage = "grow" /\ ~ IsFilled(mstbkts)
    /\ nodecost' = [n \in GroundedNodes |-> Charge(residue, n)]
    /\ from' = Source
    /\ stage' = "discharge"
    /\ UNCHANGED <<input, residue, mstcosts, mstflows, rounds, mstbkts, inbucket, pred,
                   arcstatus, pathto, arcnum>>

\* Down the first arc of the tree not followed yet, before back up the last one
\* followed once; on the way up the arc takes the charge of the node it leaves.
WithStatus(n, s) == {i \in DOMAIN GridNeighbors[n] : arcstatus[GridNeighbors[n][i].arc] = s}
IsWalked(n) == WithStatus(n, -1) = {} /\ WithStatus(n, -2) = {}

FollowArc ==
    /\ stage = "discharge" /\ ~ IsWalked(from)
    /\ LET fresh == WithStatus(from, -1)
           along == GridNeighbors[from][IF fresh # {} THEN LeastOf(fresh)
                                        ELSE MostOf(WithStatus(from, -2))]
       IN  /\ arcstatus' = [arcstatus EXCEPT ![along.arc] = @ - 1]
           /\ from' = along.node
           /\ IF fresh # {} THEN UNCHANGED <<mstflows, nodecost>>
              ELSE /\ mstflows' = [mstflows EXCEPT ![along.arc] = @ + along.dir * nodecost[from]]
                   /\ nodecost' = [nodecost EXCEPT ![along.node] = @ + nodecost[from], ![from] = 0]
    /\ UNCHANGED <<input, residue, mstcosts, rounds, stage, mstbkts, inbucket, pred,
                   pathto, arcnum>>

Discharged ==
    /\ stage = "discharge" /\ IsWalked(from)
    /\ stage' = "clip"
    /\ UNCHANGED <<input, residue, mstcosts, mstflows, rounds, treevars, arcstatus, walkvars>>

-----------------------------------------------------------------------------
\* ClipFlow().
MostFlow(flow) == MostOf({IF flow[a] < 0 THEN -flow[a] ELSE flow[a] : a \in Arcs})

\* ceil(mostflow * CLIPFACTOR) + 1, CLIPFACTOR a little more than 2/3.
ClipLimit(flow) == MostOf({(2 * MostFlow(flow)) \div 3 + 2, MaxFlow})

MaxCost(costs) ==
    CostIncrement + MostOf({0} \cup {costs[a] : a \in {a \in Arcs : costs[a] < Ineligible}})

Clipped(flow, a) ==
    IF flow[a] > ClipLimit(flow) THEN ClipLimit(flow)
    ELSE IF flow[a] < -ClipLimit(flow) THEN -ClipLimit(flow) ELSE flow[a]

Excess(flow, a) == flow[a] - Clipped(flow, a)

\* The residue of a node after each of its arcs, in the order of the loops: the
\* excess is added at an arc's start and subtracted at its end.
PutBack(flow, n) ==
    LET left == residue[n] - Excess(flow, <<n[1], n[2]>>)
        right == left + Excess(flow, <<n[1], n[2] + 1>>)
        above == right - Excess(flow, <<n[1] + NRow - 1, n[2]>>)
    IN  <<left, right, above, above + Excess(flow, <<n[1] + NRow, n[2]>>)>>

-----------------------------------------------------------------------------
NoResidue ==
    /\ stage = "solve" /\ Source = NoNode
    /\ stage' = "done"
    /\ UNCHANGED <<input, residue, mstcosts, mstflows, rounds, treevars, arcstatus, walkvars>>

\* The excess over the limit goes back to the residues of the arc's two ends; a
\* residue out of its range on the way ends the program.
ClipFlow ==
    /\ stage = "clip"
    /\ IF MostFlow(mstflows) <= MaxFlow \/ MaxCost(mstcosts) >= Ineligible
       THEN stage' = "done" /\ UNCHANGED <<residue, mstflows, mstcosts>>
       ELSE IF \A n \in GridNodes : RangeOf(PutBack(mstflows, n)) \subseteq MinRes..MaxRes
            THEN /\ stage' = "solve"
                 /\ residue' = [n \in GridNodes |-> PutBack(mstflows, n)[4]]
                 /\ mstflows' = [a \in Arcs |-> Clipped(mstflows, a)]
                 /\ mstcosts' = [a \in Arcs |-> IF Excess(mstflows, a) = 0 THEN mstcosts[a]
                                                ELSE MaxCost(mstcosts)]
            ELSE stage' = "aborted" /\ UNCHANGED <<residue, mstflows, mstcosts>>
    /\ UNCHANGED <<input, rounds, treevars, arcstatus, walkvars>>

MSTStopped ==
    /\ stage \in {"done", "aborted"} \/ (stage = "solve" /\ rounds = MaxRounds)
    /\ UNCHANGED mstvars

MSTStep ==
    \/ NoResidue \/ StartTree \/ TakeClosest \/ MarkPath \/ ScanArc
    \/ StartDischarge \/ FollowArc \/ Discharged \/ ClipFlow

MSTNext == MSTStep \/ MSTStopped

MSTSpec == MSTStart /\ [][MSTNext]_mstvars

-----------------------------------------------------------------------------
\* The flows the program goes on with balance the residues of the image, where
\* MSTInitFlows() returns (snaphu_solver.c:3617-3650), after one round or after
\* several of clipping.
InitialFlowsBalance ==
    stage = "done" => \A n \in GridNodes : Surplus(mstflows, n) + input.residue[n] = 0

\* The comment of ClipFlow() (snaphu_solver.c:3898-3905): it resets the residues
\* so that a solution for them and the clipped flows add up to a solution for
\* the image.
ResiduesMakeUp ==
    stage = "solve" => \A n \in GridNodes : residue[n] = input.residue[n] + Surplus(mstflows, n)

Marked == {a \in Arcs : arcstatus[a] < 0}

\* The nodes of s, and those one arc of a set further.
Onward(arcs, s) ==
    s \cup UNION {{b.node : b \in {b \in RangeOf(GridNeighbors[n]) : b.arc \in arcs}} : n \in s}

ReachedOver(arcs, n) ==
    LET reach[i \in 0..Cardinality(GridNodes)] ==
          IF i = 0 THEN {n} ELSE Onward(arcs, reach[i - 1])
    IN  reach[Cardinality(GridNodes)]

\* The arcs marked by SolveMST() are a tree that holds every residue: a node of
\* it is reached from the source in one way only.
ConnectsResidues ==
    stage = "discharge" =>
      LET tree == ReachedOver(Marked, Source)
      IN  /\ \A n \in GroundedNodes : Charge(residue, n) # 0 => n \in tree
          /\ Cardinality(Marked) = Cardinality(tree) - 1
=============================================================================
