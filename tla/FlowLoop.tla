------------------------------- MODULE FlowLoop -------------------------------
(***************************************************************************)
(* The loop over flow increments around TreeSolve, as snaphu has it twice: *)
(* in UnwrapTile, for the grid network of one tile, and, with other tests, *)
(* in AssembleTiles, for the secondary network that joins the tiles.       *)
(*                                                                         *)
(* An increment is settled when the residual network for that increment    *)
(* has no negative cycle: TreeSolve finds none (n = 0) and changes nothing *)
(* if it is, and otherwise settles it and changes the flow, so that other  *)
(* increments may no longer be settled.                                    *)
(***************************************************************************)
EXTENDS Integers, FiniteSets

CONSTANTS
  Loops,            \* which of the two: a subset of {"grid", "secondary"}
  MaxFlow,          \* params->maxflow: the largest increment tried
  InitialDone,      \* values nflowdone may have at the start
  MaxIgnored,       \* bounds: negative cycles that count as none,
  TopFlow, TopCost, \* flow on an arc, cost of a flow,
  MaxStalled        \* and the count of iterations without a new minimum

ASSUME LoopAssumption ==
  /\ Loops \subseteq {"grid", "secondary"}
  /\ MaxFlow \in Nat \ {0} /\ MaxIgnored \in Nat
  /\ InitialDone \subseteq Int
  /\ TopFlow \in Nat /\ TopCost \in Nat
  /\ MaxStalled \in Nat /\ MaxStalled >= 2 * MaxFlow /\ MaxStalled >= 2 * TopFlow

Increments   == 1 .. MaxFlow
CostValues   == 0 .. TopCost
InitialTotal == TopCost + 1       \* INITTOTALCOST

VARIABLES
  loop,              \* the loop of UnwrapTile or the one of AssembleTiles
  exact,             \* is an augmentation of a negative cycle always a gain?
  maxnflowcycles,    \* at most so many negative cycles count as none
  convex,            \* params->p >= 1.0
  start,             \* what nflowdone held before the first iteration
  nflow, nflowdone, notfirstloop, nnondecreasedcostiter,
  totalcost, mintotalcost,
  n,                 \* negative cycles TreeSolve found in this iteration
  cost,              \* cost of the flow, evaluated or not
  mostflow,          \* largest flow on an arc that is not masked; 0 if not asked for
  settled,           \* increments without a negative cycle
  ended,             \* "no", or why the loop was left
  stalled            \* evaluated iterations since the total's last new minimum

parameters == <<loop, exact, maxnflowcycles, convex, start>>
counters   == <<nflow, nflowdone, notfirstloop, nnondecreasedcostiter>>
network    == <<n, cost, mostflow, settled>>
vars       == <<parameters, counters, totalcost, mintotalcost, network, ended, stalled>>

Endings == {"no", "masked", "gaveup", "done"}

Secondary == loop = "secondary"

TypeOK ==
  /\ loop \in Loops /\ exact \in BOOLEAN /\ convex \in BOOLEAN
  /\ maxnflowcycles \in 0 .. MaxIgnored
  /\ start \in Int /\ (~Secondary => start = 0)
  /\ nflow \in Increments /\ nflowdone \in Int /\ notfirstloop \in BOOLEAN
  /\ nnondecreasedcostiter \in Nat /\ stalled \in 0 .. MaxStalled
  /\ totalcost \in 0 .. InitialTotal /\ mintotalcost \in 0 .. InitialTotal
  /\ n \in 0 .. maxnflowcycles + 1
  /\ cost \in CostValues /\ mostflow \in 0 .. TopFlow
  /\ settled \subseteq Increments /\ ended \in Endings

Lesser(a, b) == IF a < b THEN a ELSE b

--------------------------------------------------------------------------------
\* A flow that cannot cost less has no negative cycle for any increment.
Consistent(c, s) == exact /\ c = 0 => s = Increments

\* The secondary loop does not look for the largest flow.
Flows == IF Secondary THEN {0} ELSE 0 .. TopFlow

\* InitNetwork sets nflowdone for a grid network; AssembleTiles declares it without
\* a value.
Init ==
  /\ loop \in Loops /\ exact \in BOOLEAN /\ convex \in BOOLEAN
  /\ maxnflowcycles \in 0 .. MaxIgnored
  /\ start \in (IF Secondary THEN InitialDone ELSE {0})
  /\ nflow = 1 /\ nflowdone = start
  /\ notfirstloop = FALSE /\ nnondecreasedcostiter = 0
  /\ totalcost = InitialTotal /\ mintotalcost = InitialTotal
  /\ n = 0
  /\ cost \in CostValues /\ mostflow \in Flows
  /\ settled \in SUBSET Increments /\ Consistent(cost, settled)
  /\ ended \in (IF Secondary THEN {"no"} ELSE {"no", "masked"})
  /\ stalled = 0

\* TreeSolve from every source, with the increment nflow.
Solve ==
  IF nflow \in settled
    THEN n' = 0 /\ UNCHANGED <<cost, mostflow, settled>>
    ELSE /\ n' \in 1 .. maxnflowcycles + 1
         /\ cost' \in CostValues /\ (exact => cost' < cost)
         /\ settled' \in SUBSET Increments /\ nflow \in settled'
         /\ Consistent(cost', settled')
         /\ mostflow' \in Flows

\* Mutant of NoGain: both loops count an iteration that equals the minimum.
NoGainIfEqual == totalcost' >= mintotalcost'

\* The test that counts an iteration as one without gain, after the minimum has
\* been updated.
NoGain == IF Secondary THEN totalcost' >= mintotalcost' ELSE totalcost' > mintotalcost'

\* The total cost is evaluated from the second pass over the increments on.
EvaluateCost ==
  IF notfirstloop
    THEN /\ totalcost' = cost'
         /\ mintotalcost' = Lesser(mintotalcost, cost')
         /\ nnondecreasedcostiter' = IF NoGain THEN nnondecreasedcostiter + 1 ELSE 0
         /\ stalled' = IF cost' < mintotalcost THEN 0
                      ELSE Lesser(stalled + 1, MaxStalled)
    ELSE UNCHANGED <<totalcost, mintotalcost, nnondecreasedcostiter, stalled>>

\* Mutant of CountIncrement: < for <=.
CountIncrementStrictly ==
  nflowdone' = IF n' < maxnflowcycles THEN nflowdone + 1 ELSE 1

\* Mutant of CountIncrement: the count goes on after an increment that changed
\* the flow.
CountWithoutReset == nflowdone' = nflowdone + 1

CountIncrement ==
  nflowdone' = IF n' <= maxnflowcycles THEN nflowdone + 1 ELSE 1

\* The largest increment in use, and the number of iterations without gain that
\* ends the loop: the grid loop asks the flow, the secondary one the parameter.
TopIncrement(m) == IF Secondary THEN MaxFlow ELSE Lesser(MaxFlow, m)
Patience(m)     == 2 * (IF Secondary THEN MaxFlow ELSE m)

GiveUp == nnondecreasedcostiter' >= Patience(mostflow')
Done   == nflowdone' >= TopIncrement(mostflow') \/ (~Secondary /\ convex)

\* Mutant of NextIncrement: >= for >.
NextIncrementEarly ==
  IF nflow + 1 >= TopIncrement(mostflow')
    THEN nflow' = 1 /\ notfirstloop' = TRUE
    ELSE nflow' = nflow + 1 /\ UNCHANGED notfirstloop

NextIncrement ==
  IF nflow + 1 > TopIncrement(mostflow')
    THEN nflow' = 1 /\ notfirstloop' = TRUE
    ELSE nflow' = nflow + 1 /\ UNCHANGED notfirstloop

Iterate ==
  /\ ended = "no"
  /\ Solve /\ EvaluateCost /\ CountIncrement /\ UNCHANGED parameters
  /\ \/ GiveUp /\ ended' = "gaveup" /\ UNCHANGED <<nflow, notfirstloop>>
     \/ ~GiveUp /\ Done /\ ended' = "done" /\ UNCHANGED <<nflow, notfirstloop>>
     \/ ~GiveUp /\ ~Done /\ NextIncrement /\ UNCHANGED ended

Next == Iterate

Spec     == Init /\ [][Next]_vars
FairSpec == Spec /\ WF_vars(Next)

--------------------------------------------------------------------------------
\* The solver is asked for an increment only if some arc carries that much flow
\* (or for 1), although each iteration may change the flow.
IncrementIsUseful == ended = "no" => nflow <= TopIncrement(mostflow) \/ nflow = 1

\* "WARNING: No overall cost reduction for too many iterations": the loop gives
\* up only if the total has had no new minimum in that many evaluated iterations.
GivesUpOnlyIfStalled == ended = "gaveup" => stalled >= Patience(mostflow)

\* ... which the grid loop keeps to, whatever the costs do.
GridGivesUpOnlyIfStalled == ~Secondary => GivesUpOnlyIfStalled

Unsettled == 1 .. TopIncrement(mostflow) \ settled

\* Left as done, with no cycle to be ignored and no convexity to rely on.
FullyDone == ended = "done" /\ maxnflowcycles = 0 /\ (Secondary \/ ~convex)

\* "break if we're done with all flow increments": no increment in use has a
\* negative cycle left.
DoneMeansSettled == FullyDone => Unsettled = {}

\* ... which holds if the count starts at 0; but however the largest flow moves, the
\* grid loop may leave one increment unsettled, and never two.
SettledFromZero ==
  FullyDone /\ start = 0 =>
    /\ Secondary => Unsettled = {}
    /\ \A i, j \in Unsettled : i = j

\* The optimizer ends: in AssembleTiles whatever nflowdone holds at the start and
\* whatever the costs do, in UnwrapTile if an augmentation is always a gain.
Ends == Secondary \/ exact => <>(ended # "no")

--------------------------------------------------------------------------------
(* The inductive invariant behind the safety properties above.                  *)

\* How many iterations ago an increment was tried, if the loop has gone around.
TriesAgo(i) == IF i < nflow THEN nflow - i ELSE nflow + TopIncrement(mostflow) - i

\* Of the nflowdone increments tried last, all are settled; all but the oldest in
\* the grid loop, for an iteration that lowers the largest flow below its own
\* increment counts itself.
Slack == IF Secondary THEN 0 ELSE 1

RecentlySettled ==
  ended = "no" /\ maxnflowcycles = 0 /\ start = 0 =>
    \A i \in 1 .. TopIncrement(mostflow) : TriesAgo(i) <= nflowdone - Slack => i \in settled

\* The grid loop's count of iterations without gain is one of iterations without a
\* new minimum.
CountedStalls ==
  ~Secondary =>
    /\ mintotalcost <= totalcost
    /\ nnondecreasedcostiter <= stalled
    /\ ended = "no" => nnondecreasedcostiter = 0
                       \/ nnondecreasedcostiter < Patience(mostflow)

IInv == /\ RecentlySettled /\ CountedStalls /\ IncrementIsUseful
        /\ GridGivesUpOnlyIfStalled /\ SettledFromZero
================================================================================
