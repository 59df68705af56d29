------------------------------ MODULE ArcCosts ------------------------------
(***************************************************************************)
(* The cost of an arc of the primary network in deformation mode, the      *)
(* incremental costs the solver works with, and what a cycle of arcs       *)
(* costs.  The cost of a flow is a parabola about the arc's offset, which  *)
(* a shelf (laycost, beyond dzmax) may cut off: it is not convex.          *)
(***************************************************************************)
EXTENDS Integers, Sequences

CONSTANTS
  NShortCycle,      \* the cost units of one cycle of phase (nshortcycle)
  LayFalloff,       \* layfalloffconst
  LargeShort        \* the largest incremental cost, LARGESHORT

ASSUME CostAssumption ==
    NShortCycle \in Nat \ {0} /\ LayFalloff \in Nat \ {0} /\ LargeShort \in Nat \ {0}

\* An arc's costT.  An arc beside a masked pixel has zero cost.
ArcCost(offset, sigsq, dzmax, laycost) ==
    [offset |-> offset, sigsq |-> sigsq, dzmax |-> dzmax, laycost |-> laycost]
NoCostShelf == -LargeShort
MaskCost == ArcCost(LargeShort \div 2, LargeShort, LargeShort, 0)

Magnitude(x) == IF x < 0 THEN -x ELSE x

\* The cost of a flow, as EvalCostDefo() and CalcCostDefo() compute it.
EvalCost(k, f) ==
    LET idz   == Magnitude(f * NShortCycle + k.offset)
        shelf == idz - k.dzmax
        bowl  == (idz * idz) \div k.sigsq
    IN  IF k.sigsq = LargeShort THEN 0
        ELSE IF shelf > 0
        THEN (shelf * shelf) \div (LayFalloff * k.sigsq) + k.laycost
        ELSE IF k.laycost # NoCostShelf /\ bowl > k.laycost THEN k.laycost ELSE bowl

\* Mutant of Scaled: rounded down.
ScaledDown(d, nflow) == d \div (nflow * nflow)

\* A difference of costs, divided by nflow^2 and rounded away from zero.
Scaled(d, nflow) ==
    LET nflowsq == nflow * nflow IN
    IF d > 0 THEN (d + nflowsq - 1) \div nflowsq ELSE -((nflowsq - 1 - d) \div nflowsq)

Clip(c) == IF c > LargeShort THEN LargeShort ELSE IF c < -LargeShort THEN -LargeShort ELSE c

\* The cost of pushing nflow along an arc of flow f, with it or against it:
\* what ReCalcCost() stores and GetCost() reads.
GetCost(k, f, dir, nflow) ==
    Clip(Scaled(EvalCost(k, f + dir * nflow) - EvalCost(k, f), nflow))
=============================================================================
