----------------------------- MODULE FlowLoopProofs -----------------------------
(***************************************************************************)
(* Theorems about FlowLoop, for every maximum increment, flow, cost and    *)
(* number of ignored cycles.                                               *)
(***************************************************************************)
EXTENDS FlowLoop, TLAPS

Inv == TypeOK /\ IInv

LEMMA LesserType ==
  ASSUME NEW a \in Int, NEW b \in Int
  PROVE  /\ Lesser(a, b) \in Int
         /\ Lesser(a, b) <= a /\ Lesser(a, b) <= b
         /\ Lesser(a, b) = a \/ Lesser(a, b) = b
  BY DEF Lesser

LEMMA TopType ==
  ASSUME NEW m \in Nat
  PROVE  /\ TopIncrement(m) \in 0 .. MaxFlow
         /\ Secondary => TopIncrement(m) = MaxFlow
         /\ Patience(m) \in Nat
         /\ ~Secondary => Patience(m) = 2 * m
  BY LoopAssumption DEF TopIncrement, Patience, Lesser

\* TypeOK holds initially.
LEMMA InitType == Init => TypeOK
  <1>. SUFFICES ASSUME Init PROVE TypeOK
    OBVIOUS
  <1>1. /\ nflowdone \in Int /\ start \in Int
        /\ ~Secondary => start = 0
    BY LoopAssumption DEF Init
  <1>5. mostflow \in 0 .. TopFlow
    BY LoopAssumption DEF Init, Flows
  <1>2. nflow \in Increments
    BY LoopAssumption DEF Init, Increments
  <1>3. /\ totalcost \in 0 .. InitialTotal /\ mintotalcost \in 0 .. InitialTotal
        /\ stalled \in 0 .. MaxStalled /\ n \in 0 .. maxnflowcycles + 1
        /\ maxnflowcycles \in 0 .. MaxIgnored
    BY LoopAssumption DEF Init, InitialTotal
  <1>4. ended \in Endings
    BY DEF Init, Endings
  <1>. QED
    BY <1>1, <1>2, <1>3, <1>4, <1>5 DEF Init, TypeOK

\* An iteration preserves the types.
LEMMA StepType == TypeOK /\ Iterate => TypeOK'
  <1>. SUFFICES ASSUME TypeOK, Iterate PROVE TypeOK'
    OBVIOUS
  <1>. USE LoopAssumption
  <1>1. /\ n' \in 0 .. maxnflowcycles + 1 /\ cost' \in CostValues
        /\ mostflow' \in 0 .. TopFlow /\ settled' \subseteq Increments
    <2>1. CASE nflow \in settled
      BY <2>1 DEF Iterate, Solve, Flows, TypeOK
    <2>2. CASE nflow \notin settled
      BY <2>2 DEF Iterate, Solve, Flows, TypeOK
    <2>. QED BY <2>1, <2>2
  <1>2. /\ totalcost' \in 0 .. InitialTotal /\ mintotalcost' \in 0 .. InitialTotal
        /\ nnondecreasedcostiter' \in Nat /\ stalled' \in 0 .. MaxStalled
    <2>1. CASE notfirstloop
      <3>1. /\ totalcost' = cost' /\ mintotalcost' = Lesser(mintotalcost, cost')
            /\ nnondecreasedcostiter' = IF NoGain THEN nnondecreasedcostiter + 1 ELSE 0
            /\ stalled' = IF cost' < mintotalcost THEN 0
                          ELSE Lesser(stalled + 1, MaxStalled)
        BY <2>1 DEF Iterate, EvaluateCost
      <3>2. nnondecreasedcostiter' \in Nat
        BY <3>1 DEF TypeOK
      <3>3. stalled' \in 0 .. MaxStalled
        BY <3>1 DEF TypeOK, Lesser
      <3>. QED BY <1>1, <3>1, <3>2, <3>3 DEF TypeOK, CostValues, InitialTotal, Lesser
    <2>2. CASE ~notfirstloop
      BY <2>2 DEF Iterate, EvaluateCost, TypeOK
    <2>. QED BY <2>1, <2>2 DEF TypeOK
  <1>3. nflowdone' \in Int
    BY DEF Iterate, CountIncrement, TypeOK
  <1>4. nflow' \in Increments /\ notfirstloop' \in BOOLEAN
    <2>1. TopIncrement(mostflow') \in 0 .. MaxFlow
      BY <1>1, TopType
    <2>2. nflow \in Nat /\ nflow >= 1 /\ nflow <= MaxFlow /\ notfirstloop \in BOOLEAN
      BY DEF TypeOK, Increments
    <2>3. UNCHANGED <<nflow, notfirstloop>> \/ NextIncrement
      BY DEF Iterate
    <2>4. CASE NextIncrement
      <3>1. nflow + 1 > TopIncrement(mostflow') \/ nflow + 1 <= TopIncrement(mostflow')
        BY <2>1, <2>2
      <3>2. CASE nflow + 1 > TopIncrement(mostflow')
        <4>1. nflow' = 1 /\ notfirstloop' = TRUE
          BY <3>2, <2>4 DEF NextIncrement
        <4>. QED BY <4>1 DEF Increments
      <3>3. CASE ~(nflow + 1 > TopIncrement(mostflow'))
        <4>1. nflow' = nflow + 1 /\ notfirstloop' = notfirstloop
          BY <3>3, <2>4 DEF NextIncrement
        <4>. QED BY <4>1, <3>3, <2>1, <2>2 DEF Increments
      <3>. QED BY <3>2, <3>3
    <2>. QED BY <2>2, <2>3, <2>4 DEF Increments
  <1>5. ended' \in Endings
    BY DEF Iterate, Endings, TypeOK
  <1>6. UNCHANGED <<loop, exact, maxnflowcycles, convex, start>>
    BY DEF Iterate, parameters
  <1>. QED
    BY <1>1, <1>2, <1>3, <1>4, <1>5, <1>6 DEF TypeOK, Secondary

\* What an iteration does to the counters of the grid loop.
LEMMA StepStalls == TypeOK /\ CountedStalls /\ Iterate => 
                      CountedStalls' /\ GridGivesUpOnlyIfStalled'
  <1>. SUFFICES ASSUME TypeOK, CountedStalls, Iterate, ~Secondary
                PROVE  CountedStalls' /\ GivesUpOnlyIfStalled'
    BY DEF CountedStalls, GridGivesUpOnlyIfStalled, Iterate, parameters, Secondary
  <1>. USE LoopAssumption
  <1>0. TypeOK' /\ Secondary' = Secondary /\ UNCHANGED <<loop, maxnflowcycles, start, convex>>
    BY StepType DEF Iterate, parameters, Secondary
  <1>1. mostflow' \in Nat /\ mostflow' <= TopFlow /\ Patience(mostflow') = 2 * mostflow'
        /\ Patience(mostflow') \in Nat
    BY <1>0, TopType DEF TypeOK
  <1>2. mostflow \in Nat /\ mostflow <= TopFlow /\ Patience(mostflow) = 2 * mostflow
    BY TopType DEF TypeOK
  <1>3. mintotalcost' <= totalcost'
    BY <1>0 DEF Iterate, EvaluateCost, TypeOK, CountedStalls, Lesser
  <1>4. nnondecreasedcostiter' <= stalled'
    <2>1. CASE notfirstloop /\ nnondecreasedcostiter' # 0
      <3>1. /\ totalcost' = cost' /\ mintotalcost' = Lesser(mintotalcost, cost')
            /\ nnondecreasedcostiter' = nnondecreasedcostiter + 1
            /\ totalcost' > mintotalcost'
        BY <2>1 DEF Iterate, EvaluateCost, NoGain
      <3>2. stalled' = Lesser(stalled + 1, MaxStalled)
        <4>1. cost' >= mintotalcost
          BY <3>1, <1>0 DEF Lesser, TypeOK, CostValues
        <4>. QED BY <4>1, <2>1, <1>0 DEF Iterate, EvaluateCost, TypeOK, CostValues
      <3>3. nnondecreasedcostiter + 1 <= MaxStalled
        BY <1>2 DEF CountedStalls, Iterate, TypeOK
      <3>. QED BY <3>1, <3>2, <3>3 DEF Lesser, CountedStalls, TypeOK
    <2>2. CASE nnondecreasedcostiter' = 0
      BY <2>2, <1>0 DEF TypeOK
    <2>3. CASE ~notfirstloop
      BY <2>3 DEF Iterate, EvaluateCost, CountedStalls
    <2>. QED BY <2>1, <2>2, <2>3 DEF TypeOK
  <1>5. ended' = "no" => nnondecreasedcostiter' < Patience(mostflow')
    <2>1. ended' = "no" => ~GiveUp
      BY DEF Iterate
    <2>2. nnondecreasedcostiter' \in Nat
      BY <1>0 DEF TypeOK
    <2>. DEFINE P == Patience(mostflow')
    <2>3. P \in Nat
      BY <1>1
    <2>4. ended' = "no" => ~(nnondecreasedcostiter' >= P)
      BY <2>1 DEF GiveUp
    <2>. HIDE DEF P
    <2>5. ended' = "no" => nnondecreasedcostiter' < P
      BY <2>2, <2>3, <2>4
    <2>. QED BY <2>5 DEF P
  <1>6. ended' = "gaveup" => nnondecreasedcostiter' >= Patience(mostflow')
    BY DEF Iterate, GiveUp
  <1>7. GivesUpOnlyIfStalled'
    <2>1. nnondecreasedcostiter' \in Nat /\ stalled' \in Nat
      BY <1>0 DEF TypeOK
    <2>2. ended' = "gaveup" => stalled' >= Patience(mostflow')
      <3>. DEFINE P == Patience(mostflow')
      <3>1. P \in Nat /\ (ended' = "gaveup" => nnondecreasedcostiter' >= P)
        BY <1>1, <1>6
      <3>. HIDE DEF P
      <3>2. ended' = "gaveup" => stalled' >= P
        BY <3>1, <2>1, <1>4
      <3>. QED BY <3>2 DEF P
    <2>. QED BY <1>0, <2>2 DEF GivesUpOnlyIfStalled, Patience
  <1>. QED
    BY <1>0, <1>3, <1>4, <1>5, <1>7 DEF CountedStalls, Patience

\* What an iteration does to the increments it has behind it.
LEMMA StepSettled ==
  TypeOK /\ RecentlySettled /\ IncrementIsUseful /\ Iterate =>
    RecentlySettled' /\ IncrementIsUseful' /\ SettledFromZero'
  <1>. SUFFICES ASSUME TypeOK, RecentlySettled, IncrementIsUseful, Iterate
                PROVE  RecentlySettled' /\ IncrementIsUseful' /\ SettledFromZero'
    OBVIOUS
  <1>. USE LoopAssumption
  <1>0. TypeOK' /\ Secondary' = Secondary /\ UNCHANGED <<loop, maxnflowcycles, start, convex>>
    BY StepType DEF Iterate, parameters, Secondary
  <1>. DEFINE Top  == TopIncrement(mostflow)
              Top1 == TopIncrement(mostflow')
  <1>1. /\ Top \in 0 .. MaxFlow /\ Top1 \in 0 .. MaxFlow
        /\ Secondary => Top = MaxFlow /\ Top1 = MaxFlow
    BY <1>0, TopType DEF TypeOK
  <1>2. Slack \in {0, 1} /\ (Secondary => Slack = 0) /\ (~Secondary => Slack = 1)
    BY DEF Slack
  <1>3. IncrementIsUseful'
    <2>1. CASE ended' = "no"
      <3>1. NextIncrement
        BY <2>1 DEF Iterate
      <3>2. nflow' <= Top1 \/ nflow' = 1
        BY <3>1, <1>1 DEF NextIncrement, TypeOK, Increments
      <3>. HIDE DEF Top1
      <3>. QED BY <1>0, <3>2 DEF IncrementIsUseful, Top1, TopIncrement
    <2>2. CASE ended' # "no"
      BY <2>2 DEF IncrementIsUseful
    <2>. QED BY <2>1, <2>2
  \* How long ago i was tried, once this iteration is over.
  <1>. DEFINE Ago(i) == IF i <= nflow THEN nflow + 1 - i ELSE nflow + 1 + Top1 - i
  <1>4. maxnflowcycles = 0 /\ start = 0 =>
          \A i \in 1 .. Top1 : Ago(i) <= nflowdone' - Slack => i \in settled'
    <2>. SUFFICES ASSUME maxnflowcycles = 0, start = 0, NEW i \in 1 .. Top1,
                         Ago(i) <= nflowdone' - Slack
                  PROVE  i \in settled'
      OBVIOUS
    <2>0. nflow \in Nat /\ i \in Nat /\ nflowdone \in Int /\ i \in Increments
      BY <1>1 DEF TypeOK, Increments
    <2>1. CASE nflow \in settled
      <3>1. n' = 0 /\ UNCHANGED <<mostflow, settled>>
        BY <2>1 DEF Iterate, Solve
      <3>2. nflowdone' = nflowdone + 1 /\ Top1 = Top
        BY <3>1 DEF Iterate, CountIncrement
      <3>3. CASE i = nflow
        BY <3>3, <3>1, <2>1
      <3>4. CASE i # nflow
        <4>1. TriesAgo(i) <= nflowdone - Slack
          <5>1. TriesAgo(i) = IF i < nflow THEN nflow - i ELSE nflow + Top - i
            BY DEF TriesAgo
          <5>. QED BY <5>1, <3>2, <3>4, <2>0, <1>1, <1>2
        <4>2. ended = "no"
          BY DEF Iterate
        <4>. QED BY <4>1, <4>2, <3>1, <3>2 DEF RecentlySettled
      <3>. QED BY <3>3, <3>4
    <2>2. CASE nflow \notin settled
      <3>1. n' \in 1 .. maxnflowcycles + 1 /\ nflow \in settled'
        BY <2>2 DEF Iterate, Solve
      <3>2. nflowdone' = 1
        BY <3>1 DEF Iterate, CountIncrement
      <3>3. i = nflow
        <4>1. Ago(i) <= 1
          <5>1. Ago(i) \in Int /\ Slack \in Int /\ Slack >= 0
            BY <1>2, <2>0, <1>1
          <5>. QED BY <5>1, <3>2
        <4>2. Secondary
          <5>1. Ago(i) >= 1
            BY <2>0, <1>1
          <5>2. Ago(i) \in Int
            BY <2>0, <1>1
          <5>. HIDE DEF Ago
          <5>. QED BY <5>1, <5>2, <3>2, <1>2
        <4>3. nflow <= Top1
          BY <4>2, <1>1, <2>0 DEF TypeOK, Increments
        <4>6. Top1 \in Nat /\ i <= Top1 /\ nflow >= 1
          <5>. HIDE DEF Top1
          <5>. QED BY <1>1 DEF TypeOK, Increments
        <4>4. ~(nflow < i)
          <5>1. SUFFICES ASSUME nflow < i PROVE FALSE
            OBVIOUS
          <5>2. Ago(i) = nflow + 1 + Top1 - i
            <6>. HIDE DEF Top1
            <6>. QED BY <5>1, <2>0
          <5>. HIDE DEF Top1, Ago
          <5>. QED BY <5>2, <4>1, <4>6, <2>0
        <4>5. Ago(i) = nflow + 1 - i
          BY <4>4, <2>0
        <4>. HIDE DEF Ago, Top1
        <4>. QED BY <4>1, <4>4, <4>5, <2>0
      <3>. QED BY <3>1, <3>3
    <2>. QED BY <2>1, <2>2
  <1>5. RecentlySettled'
    <2>. SUFFICES ASSUME ended' = "no", maxnflowcycles = 0, start = 0, NEW i \in 1 .. Top1,
                         TriesAgo(i)' <= nflowdone' - Slack
                  PROVE  i \in settled'
      BY <1>0 DEF RecentlySettled, TopIncrement, Slack
    <2>1. NextIncrement
      BY DEF Iterate
    <2>2. TriesAgo(i)' = IF i < nflow' THEN nflow' - i ELSE nflow' + Top1 - i
      BY <1>0 DEF TriesAgo, TopIncrement
    <2>3. nflow \in Nat /\ i \in Nat /\ nflow >= 1
      BY DEF TypeOK, Increments
    <2>4. 1 <= TriesAgo(i)'
      BY <2>1, <2>2, <2>3, <1>1 DEF NextIncrement
    <2>5. ASSUME nflow <= Top1 PROVE Ago(i) <= TriesAgo(i)'
      <3>1. CASE nflow + 1 > Top1
        <4>1. nflow' = 1
          BY <2>1, <3>1 DEF NextIncrement
        <4>. QED BY <4>1, <2>2, <2>3, <2>5, <3>1, <1>1
      <3>2. CASE ~(nflow + 1 > Top1)
        <4>1. nflow' = nflow + 1
          BY <2>1, <3>2 DEF NextIncrement
        <4>. QED BY <4>1, <2>2, <2>3, <1>1
      <3>. QED BY <3>1, <3>2
    <2>6. nflow <= Top1
      <3>1. CASE nflow \in settled
        <4>1. Top1 = Top /\ ended = "no"
          BY <3>1 DEF Iterate, Solve
        <4>2. nflow <= Top \/ nflow = 1
          BY <4>1 DEF IncrementIsUseful
        <4>. QED BY <4>1, <4>2, <1>1, <2>3
      <3>2. CASE nflow \notin settled
        <4>1. nflowdone' = 1
          BY <3>2 DEF Iterate, Solve, CountIncrement
        <4>2. Secondary
          <5>1. TriesAgo(i)' \in Int
            BY <2>1, <2>2, <2>3, <1>1 DEF NextIncrement
          <5>. QED BY <4>1, <5>1, <2>4, <1>2
        <4>. QED BY <4>2, <1>1, <2>3 DEF TypeOK, Increments
      <3>. QED BY <3>1, <3>2
    <2>. QED BY <1>4, <2>3, <2>5, <2>6, <1>0, <1>1, <1>2, <2>2 DEF TypeOK
  \* The last iteration has tried every increment in use at most Top1 times ago.
  <1>6. ASSUME FullyDone', start = 0, NEW i \in Unsettled'
        PROVE  /\ i \in 1 .. Top1 /\ ~Secondary
               /\ Top1 = 1 \/ (nflow <= Top1 /\ Ago(i) = Top1)
    <2>1. i \in 1 .. Top1 /\ i \notin settled'
      BY <1>0, <1>6 DEF Unsettled, TopIncrement
    <2>2. ended' = "done" /\ maxnflowcycles = 0 /\ (Secondary \/ ~convex)
      BY <1>0, <1>6 DEF FullyDone
    <2>3. nflowdone' >= Top1
      BY <2>2 DEF Iterate, Done
    <2>4. Ago(i) > nflowdone' - Slack
      <3>1. ~(Ago(i) <= nflowdone' - Slack)
        BY <1>4, <1>6, <2>1, <2>2
      <3>2. Ago(i) \in Int /\ nflowdone' \in Int /\ Slack \in Int
        BY <1>0, <1>1, <1>2, <2>1 DEF TypeOK, Increments
      <3>. HIDE DEF Ago
      <3>. QED BY <3>1, <3>2
    <2>5. nflow \in Nat /\ nflow >= 1 /\ i \in Nat /\ nflowdone' \in Int
      BY <1>0, <2>1, <1>1 DEF TypeOK, Increments
    <2>6. CASE nflow <= Top1
      <3>1. Ago(i) <= Top1 /\ Ago(i) \in Int
        <4>. HIDE DEF Top1
        <4>. QED BY <2>1, <2>5, <2>6, <1>1
      <3>2. ~Secondary
        <4>. HIDE DEF Ago, Top1
        <4>. QED BY <3>1, <2>3, <2>4, <2>5, <1>1, <1>2
      <3>3. Ago(i) = Top1
        <4>. HIDE DEF Ago, Top1
        <4>. QED BY <3>1, <3>2, <2>3, <2>4, <2>5, <1>1, <1>2
      <3>. QED BY <2>1, <2>6, <3>2, <3>3
    <2>7. CASE ~(nflow <= Top1)
      <3>1. ~Secondary
        BY <2>7, <1>1 DEF TypeOK, Increments
      <3>2. nflow \notin settled
        <4>1. SUFFICES ASSUME nflow \in settled PROVE FALSE
          OBVIOUS
        <4>2. Top1 = Top /\ ended = "no"
          BY <4>1 DEF Iterate, Solve
        <4>3. nflow <= Top \/ nflow = 1
          BY <4>2 DEF IncrementIsUseful
        <4>. HIDE DEF Top, Top1
        <4>. QED BY <4>2, <4>3, <2>1, <2>7, <1>1
      <3>3. nflowdone' = 1
        BY <3>2, <2>2 DEF Iterate, Solve, CountIncrement
      <3>4. Top1 = 1
        <4>. HIDE DEF Top1
        <4>. QED BY <3>3, <2>1, <2>3, <1>1
      <3>. QED BY <2>1, <3>1, <3>4
    <2>. QED BY <2>6, <2>7
  <1>7. SettledFromZero'
    <2>1. ASSUME Secondary, FullyDone', start = 0, NEW i \in Unsettled' PROVE FALSE
      BY <1>6, <2>1
    <2>2. ASSUME FullyDone', start = 0, NEW i \in Unsettled', NEW j \in Unsettled'
          PROVE  i = j
      <3>1. i \in 1 .. Top1 /\ (Top1 = 1 \/ (nflow <= Top1 /\ Ago(i) = Top1))
        BY <1>6, <2>2
      <3>2. j \in 1 .. Top1 /\ (Top1 = 1 \/ (nflow <= Top1 /\ Ago(j) = Top1))
        BY <1>6, <2>2
      <3>3. nflow \in Nat /\ nflow >= 1
        BY DEF TypeOK, Increments
      <3>. HIDE DEF Top1
      <3>. QED BY <3>1, <3>2, <3>3, <1>1
    <2>. QED BY <1>0, <2>1, <2>2 DEF SettledFromZero
  <1>. QED
    BY <1>3, <1>5, <1>7

\* FlowLoop's inductive invariant holds initially.
LEMMA InitInv == Init => Inv
  <1>. SUFFICES ASSUME Init PROVE Inv
    OBVIOUS
  <1>1. TypeOK
    BY InitType
  <1>2. RecentlySettled
    <2>. SUFFICES ASSUME start = 0 PROVE RecentlySettled
      BY DEF RecentlySettled
    <2>. DEFINE Top == TopIncrement(mostflow)
    <2>1. nflow = 1 /\ nflowdone = 0 /\ Slack \in {0, 1}
      BY DEF Init, Slack
    <2>2. Top \in 0 .. MaxFlow
      BY <1>1, TopType, LoopAssumption DEF TypeOK
    <2>3. \A i \in 1 .. Top : TriesAgo(i) = IF i < nflow THEN nflow - i ELSE nflow + Top - i
      BY DEF TriesAgo
    <2>. HIDE DEF Top
    <2>4. \A i \in 1 .. Top : ~(TriesAgo(i) <= nflowdone - Slack)
      BY <2>1, <2>2, <2>3, LoopAssumption
    <2>. QED BY <2>4 DEF RecentlySettled, Top
  <1>3. CountedStalls
    BY LoopAssumption DEF Init, CountedStalls, InitialTotal
  <1>4. IncrementIsUseful
    BY DEF Init, IncrementIsUseful
  <1>5. ended \notin {"gaveup", "done"}
    BY DEF Init
  <1>. QED
    BY <1>1, <1>2, <1>3, <1>4, <1>5
    DEF Inv, IInv, GridGivesUpOnlyIfStalled, GivesUpOnlyIfStalled, SettledFromZero, FullyDone

\* FlowLoop's inductive invariant is kept by every step.
LEMMA StepInv == Inv /\ [Next]_vars => Inv'
  <1>. SUFFICES ASSUME Inv, [Next]_vars PROVE Inv'
    OBVIOUS
  <1>1. CASE Iterate
    BY <1>1, StepType, StepStalls, StepSettled DEF Inv, IInv
  <1>2. CASE UNCHANGED vars
    <2>. USE DEF vars, parameters, counters, network, Secondary
    <2>1. TypeOK'
      BY <1>2 DEF Inv, TypeOK
    <2>2. RecentlySettled' /\ CountedStalls' /\ IncrementIsUseful'
      BY <1>2 DEF Inv, IInv, RecentlySettled, TriesAgo, TopIncrement, Patience, Slack,
                  CountedStalls, IncrementIsUseful
    <2>3. GridGivesUpOnlyIfStalled' /\ SettledFromZero'
      BY <1>2 DEF Inv, IInv, GridGivesUpOnlyIfStalled, GivesUpOnlyIfStalled, Patience,
                  SettledFromZero, FullyDone, Unsettled, TopIncrement
    <2>. QED BY <2>1, <2>2, <2>3 DEF Inv, IInv
  <1>. QED BY <1>1, <1>2 DEF Next

\* FlowLoop's inductive invariant, with the types.
THEOREM Invariance == Spec => [](TypeOK /\ IInv)
  <1>1. Inv => TypeOK /\ IInv
    BY DEF Inv
  <1>. QED BY <1>1, InitInv, StepInv, PTL DEF Spec

\* Left as done after a count that started at 0, the secondary loop has no increment
\* with a negative cycle left, and the grid loop at most one, however the largest flow
\* moves (the last break of UnwrapTile and of AssembleTiles).
THEOREM Settled == Spec => []SettledFromZero
  <1>1. TypeOK /\ IInv => SettledFromZero
    BY DEF IInv
  <1>. QED BY <1>1, Invariance, PTL

\* The grid loop gives up only after as many evaluated iterations without a new
\* minimum as its warning claims, whatever the costs do.
THEOREM GivesUp == Spec => []GridGivesUpOnlyIfStalled
  <1>1. TypeOK /\ IInv => GridGivesUpOnlyIfStalled
    BY DEF IInv
  <1>. QED BY <1>1, Invariance, PTL
================================================================================
