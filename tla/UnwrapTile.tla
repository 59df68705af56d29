----------------------------- MODULE UnwrapTile -----------------------------
(***************************************************************************)
(* UnwrapTile() of snaphu.c from its costs on, for one flow increment: the *)
(* minimum spanning tree gives flows that balance the residues, unless the *)
(* input is unwrapped and brings them, and the network solver improves     *)
(* them.  From the flows it leaves come the connected components and the   *)
(* regions of the tile.  All work on the same grid and the same costs.     *)
(***************************************************************************)
EXTENDS TreeSolve, MSTInit, RegionGrow

CONSTANT MaxScalarCost      \* params->maxcost

\* BuildCostArrays(): an arc's scalar cost is the lesser of its two incremental
\* costs at no flow, but at least one, beside masked pixels as well.
ScalarCosts(cost) ==
    [a \in Arcs |->
        LET least == MostOf({1, -MostOf({-GetCost(cost[a], 0, d, 1) : d \in {1, -1}})})
        IN  IF a \in CornerArcs THEN Ineligible
            ELSE IF least > MaxScalarCost THEN MaxScalarCost ELSE least]

UnwrapInit ==
    /\ Init /\ GrowOff
    /\ IF problem.unwrapped
       THEN /\ input = problem /\ residue = problem.residue /\ mstcosts = << >>
            /\ mstflows = problem.flow /\ arcstatus = << >>
            /\ mstbkts = << >> /\ inbucket = {} /\ nodecost = << >> /\ pred = << >>
            /\ from = NoNode /\ pathto = NoNode /\ arcnum = 1
            /\ stage = "handed" /\ rounds = 0
       ELSE StartFrom([residue |-> problem.residue, cost |-> ScalarCosts(problem.cost)])

InitFlows == MSTStep /\ UNCHANGED <<vars, growvars>>

HandOver ==
    /\ stage = "done" /\ stage' = "handed"
    /\ flows' = mstflows
    /\ UNCHANGED <<input, residue, mstcosts, mstflows, rounds, treevars, arcstatus, walkvars>>
    /\ UNCHANGED <<problem, nflow, pc, sources, source, counts, nodes, thread, apexes,
                   bkts, boundary, candidatebag, candidatelist, groupcounter, growvars>>

SolveNetwork ==
    /\ stage = "handed" /\ what = "none" /\ pc # "done" /\ Next
    /\ UNCHANGED <<mstvars, growvars>>

\* The components of what is solved, or, to grow them again, of the unwrapped input.
GrowConnCompsMask ==
    /\ stage = "handed" /\ what = "none"
    /\ pc = "done" \/ (pc = "select" /\ problem.unwrapped)
    /\ StartGrowing("components", Distances(problem.cost, flows, ConnCompThresh))
    /\ UNCHANGED <<vars, mstvars>>

\* The regions of a tile that has been solved.
GrowRegions ==
    /\ what = "components" /\ gpc = "idle" /\ pc = "done"
    /\ StartGrowing("regions", Distances(problem.cost, flows, TileCostThresh))
    /\ UNCHANGED <<vars, mstvars>>

GrowOn == Grow /\ UNCHANGED <<vars, mstvars>>

Finished == gpc = "idle" /\ (what = "regions" \/ (what = "components" /\ pc = "select"))

Returned == Finished /\ UNCHANGED <<vars, mstvars, growvars>>

UnwrapNext ==
    InitFlows \/ HandOver \/ SolveNetwork \/ GrowConnCompsMask \/ GrowRegions \/ GrowOn \/ Returned

\* No part waits for anything: until the tile is done the program goes on.
KeepsRunning ==
    []<><<UnwrapNext>>_<<vars, mstvars, growvars>> \/ <>[](Finished \/ pc = "failed")

UnwrapSpec == UnwrapInit /\ [][UnwrapNext]_<<vars, mstvars, growvars>> /\ KeepsRunning

-----------------------------------------------------------------------------
\* Every tile is finished: the pivots end for every flow increment, none goes
\* round in circles, and so do the regions, which are merged for ever only with
\* themselves.
TileFinished == <>Finished
=============================================================================
