-------------------------- MODULE SolverSignalsProofs --------------------------
(***************************************************************************)
(* Theorems about SolverSignals, for any number of passes and signals.     *)
(***************************************************************************)
EXTENDS SolverSignals, TLAPS

Inv == TypeOK /\ IInv

\* The invariant holds initially.
LEMMA InitInv == Init => Inv
  <1>1. Init => TypeOK
    <2>. SUFFICES ASSUME Init PROVE TypeOK
      OBVIOUS
    <2>1. out \in OutFile
      <3>1. 0 \in Versions
        BY SignalAssumption DEF Versions
      <3>. QED BY <3>1 DEF Init, OutFile
    <2>2. passes \in Versions /\ hup \in 0 .. Never /\ int \in 0 .. Never
          /\ signals \in 0 .. MaxSignals
      BY SignalAssumption DEF Init, Versions, Never
    <2>. QED BY <2>1, <2>2 DEF Init, TypeOK, PCs
  <1>2. Init => IInv
    BY SignalAssumption
    DEF Init, IInv, Never, NextVersion, Whole, FreedByStop, HangupPending, DumpCurrent,
        InterruptPending, HangupDumped, ExitLeavesOutput
  <1>. QED BY <1>1, <1>2 DEF Inv

\* Every step preserves the types.
LEMMA StepType == TypeOK /\ Next => TypeOK'
  <1>. SUFFICES ASSUME TypeOK, Next PROVE TypeOK'
    OBVIOUS
  <1>. USE SignalAssumption DEF TypeOK, PCs, Versions, OutFile, Never, NextVersion, Goto
  <1>1. CASE TrapSignals
    BY <1>1 DEF TrapSignals, traps, flags, asked
  <1>2. CASE FindCandidates
    BY <1>2 DEF FindCandidates, traps, flags, asked
  <1>3. CASE CheckDump
    BY <1>3 DEF CheckDump, traps, flags, asked
  <1>4. CASE FreeCosts
    BY <1>4 DEF FreeCosts, traps, flags, asked
  <1>5. CASE DumpWritten
    BY <1>5 DEF DumpWritten, traps, flags, asked
  <1>6. CASE StopIfRequested
    BY <1>6 DEF StopIfRequested, traps, flags, asked
  <1>7. CASE ClearDump
    BY <1>7 DEF ClearDump, traps, flags, asked
  <1>8. CASE Pivot
    BY <1>8 DEF Pivot, traps, flags, asked
  <1>9. CASE EndOptimizer
    BY <1>9 DEF EndOptimizer, traps, flags, asked
  <1>10. CASE FinalWrite
    BY <1>10 DEF FinalWrite, traps, flags, asked
  <1>11. CASE FinalWritten
    BY <1>11 DEF FinalWritten, traps, flags, asked
  <1>12. CASE Interrupt
    <2>1. signals' \in 0 .. MaxSignals
      BY <1>12 DEF Interrupt
    <2>2. CASE onint = "SetDump"
      BY <1>12, <2>1, <2>2 DEF Interrupt
    <2>3. CASE onint # "SetDump"
      BY <1>12, <2>1, <2>3 DEF Interrupt, Die, traps, flags, asked
    <2>. QED BY <2>2, <2>3
  <1>13. CASE Hangup
    <2>1. signals' \in 0 .. MaxSignals
      BY <1>13 DEF Hangup
    <2>2. CASE onhup = "SetDump"
      BY <1>13, <2>1, <2>2 DEF Hangup, traps
    <2>3. CASE onhup # "SetDump"
      BY <1>13, <2>1, <2>3 DEF Hangup, Die, traps, flags, asked
    <2>. QED BY <2>2, <2>3
  <1>. QED
    BY <1>1, <1>2, <1>3, <1>4, <1>5, <1>6, <1>7, <1>8, <1>9, <1>10, <1>11, <1>12, <1>13 DEF Next

\* Every step preserves the inductive invariant.
LEMMA StepInv == Inv /\ Next => IInv'
  <1>. SUFFICES ASSUME Inv, Next PROVE IInv'
    OBVIOUS
  <1>0. TypeOK'
    BY StepType DEF Inv
  <1>. USE SignalAssumption, <1>0
       DEF Inv, IInv, TypeOK, Versions, OutFile, Never, NextVersion, Whole, Goto,
           FreedByStop, HangupPending, DumpCurrent, InterruptPending, HangupDumped,
           ExitLeavesOutput
  <1>1. CASE TrapSignals
    BY <1>1 DEF TrapSignals, traps, flags, asked
  <1>2. CASE FindCandidates
    BY <1>2 DEF FindCandidates, traps, flags, asked
  <1>3. CASE CheckDump
    BY <1>3 DEF CheckDump, traps, flags, asked
  <1>4. CASE FreeCosts
    BY <1>4 DEF FreeCosts, traps, flags, asked
  <1>5. CASE DumpWritten
    BY <1>5 DEF DumpWritten, traps, flags, asked
  <1>6. CASE StopIfRequested
    BY <1>6 DEF StopIfRequested, traps, flags, asked
  <1>7. CASE ClearDump
    BY <1>7 DEF ClearDump, traps, flags, asked
  <1>8. CASE Pivot
    BY <1>8 DEF Pivot, traps, flags, asked
  <1>9. CASE EndOptimizer
    BY <1>9 DEF EndOptimizer, traps, flags, asked
  <1>10. CASE FinalWrite
    BY <1>10 DEF FinalWrite, traps, flags, asked
  <1>11. CASE FinalWritten
    BY <1>11 DEF FinalWritten, traps, flags, asked
  <1>12. CASE Interrupt
    BY <1>12 DEF Interrupt, Die, traps, flags, asked
  <1>13. CASE Hangup
    BY <1>13 DEF Hangup, Die, traps, flags, asked
  <1>. QED
    BY <1>1, <1>2, <1>3, <1>4, <1>5, <1>6, <1>7, <1>8, <1>9, <1>10, <1>11, <1>12, <1>13 DEF Next

\* SolverSignals' inductive invariant, with the types.
THEOREM Invariance == Spec => [](TypeOK /\ IInv)
  <1>1. Inv /\ [Next]_vars => Inv'
    <2>. SUFFICES ASSUME Inv, [Next]_vars PROVE Inv'
      OBVIOUS
    <2>1. CASE Next
      BY <2>1, StepType, StepInv DEF Inv
    <2>2. CASE UNCHANGED vars
      BY <2>2
      DEF Inv, TypeOK, IInv, Whole, NextVersion, FreedByStop, HangupPending, DumpCurrent,
          InterruptPending, HangupDumped, ExitLeavesOutput, vars, traps, flags, asked
    <2>. QED BY <2>1, <2>2
  <1>2. Inv => TypeOK /\ IInv
    BY DEF Inv
  <1>. QED BY InitInv, <1>1, <1>2, PTL DEF Spec

\* The cost arrays are there whenever a pass, or what follows the optimizer, needs
\* them.
THEOREM CostsHeld == Spec => []CostsHeldWhenUsed
  <1>1. TypeOK /\ IInv => CostsHeldWhenUsed
    BY DEF IInv, TypeOK, FreedByStop, CostsHeldWhenUsed
  <1>. QED BY <1>1, Invariance, PTL

\* No hangup loses its dump.
THEOREM HangupsDumped == Spec => []HangupDumped
  <1>1. TypeOK /\ IInv => HangupDumped
    BY DEF IInv
  <1>. QED BY <1>1, Invariance, PTL

\* A run that ends by itself leaves a complete output.
THEOREM ExitsComplete == Spec => []ExitLeavesOutput
  <1>1. TypeOK /\ IInv => ExitLeavesOutput
    BY DEF IInv
  <1>. QED BY <1>1, Invariance, PTL
================================================================================
