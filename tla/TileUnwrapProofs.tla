--------------------------- MODULE TileUnwrapProofs ---------------------------
(***************************************************************************)
(* Safety of snaphu's driver for every tile grid, number of processes,     *)
(* tile mask, set of options and number of invocations and faults: the     *)
(* fork loop, how a run ends and what it leaves, and that it implements    *)
(* TileMode.                                                               *)
(***************************************************************************)
EXTENDS TileUnwrap, FiniteSetTheorems, TLAPS

USE DEF NThreads

\* Facts about the grid the proofs below use.
LEMMA GridFacts ==
  /\ IsFiniteSet(Tiles)
  /\ \A t \in Tiles : t[1] \in Rows /\ t[2] \in Cols /\ t = <<t[1], t[2]>>
  /\ Parent \notin Tiles
<1>1. IsFiniteSet(Rows) /\ IsFiniteSet(Cols)
  BY FS_Interval, GridAssumption DEF Rows, Cols
<1>2. IsFiniteSet(Tiles)
  BY <1>1, FS_Product DEF Tiles
<1>3. \A t \in Tiles : t[1] \in Rows /\ t[2] \in Cols /\ t = <<t[1], t[2]>>
  BY DEF Tiles
<1>4. Parent \notin Tiles
  BY GridAssumption DEF Parent, Tiles, Rows, Cols
<1> QED BY <1>2, <1>3, <1>4

\* While tiles are left, the cursor is on one of them, and it stays in the grid.
LEMMA CursorFacts ==
  ASSUME TypeOK, TilesLeft
  PROVE  /\ ThisTile \in Tiles
         /\ AdvanceTile => nexttilerow' \in 0 .. NTileRow /\ nexttilecol' \in Cols
  BY GridAssumption DEF TypeOK, ParentOK, TilesLeft, ThisTile, Tiles, Rows, Cols, AdvanceTile

LEMMA NameFacts == ASSUME TypeOK PROVE NameTag \in Names
  BY DEF TypeOK, ParentOK, NameTag, Names

LEMMA ThreadFacts ==
  /\ MaxThreads \in Nat \ {0}
  /\ \A o \in OptionSets : o.nthreads \in 1 .. MaxThreads
  BY ThreadsAssumption DEF OptionSets

LEMMA ThreadsOfRun == ASSUME TypeOK PROVE opt \in OptionSets /\ NThreads \in Nat \ {0}
  BY ThreadFacts DEF TypeOK, ParentOK

\* The types of the constants' ranges the leaves below expand.
LEMMA RangeFacts ==
  /\ \A t \in Tiles : t \in Procs
  /\ Parent \in Procs
  /\ Live \subseteq ChildStates /\ Zombie \subseteq ChildStates
  /\ 0 \in Cols /\ 0 \in 0 .. NTileRow
  BY GridAssumption DEF Procs, Live, Zombie, ChildStates, Cols

LEMMA TypeInit == Init => TypeOK
<1> SUFFICES ASSUME Init PROVE TypeOK
  OBVIOUS
<1>1. faults \in 0 .. MaxFaults /\ runs \in 1 .. MaxRuns
  BY BoundAssumption DEF Init
<1>2. nchildren \in -1 .. MaxThreads
  BY ThreadFacts DEF Init
<1>3. child \in [Tiles -> ChildStates] /\ term \subseteq Procs
  BY DEF Init, ChildStates
<1> QED
  BY <1>1, <1>2, <1>3, RangeFacts, MaskAssumption, OptionAssumption
     DEF Init, TypeOK, ParentOK, ChildOK, FilesOK, HistoryOK, PCs, FileStates, Names

LEMMA ParentTypeNext == TypeOK /\ IInv /\ [Next]_vars => ParentOK'
<1> SUFFICES ASSUME TypeOK, IInv, [Next]_vars PROVE ParentOK'
  OBVIOUS
<1> USE DEF TypeOK, ParentOK, invocation, PCs
<1>1. ASSUME NEW s \in {"ok", "abnormal"}, ExitParent(s) PROVE ParentOK'
  BY <1>1 DEF ExitParent
<1>2. CASE FirstIteration
  BY <1>1, <1>2 DEF FirstIteration, BeginTileMode
<1>3. CASE SecondIteration
  BY <1>3 DEF SecondIteration
<1>4. CASE EndIteration
  BY <1>1, <1>4 DEF EndIteration, NOptIter
<1>5. CASE SingleTileRead \/ SingleTileWritten
  BY <1>1, <1>5 DEF SingleTileRead, SingleTileWritten
<1>6. CASE Fork
  BY <1>6 DEF Fork
<1>7. CASE CountChild
  BY <1>7, CursorFacts, ThreadFacts DEF CountChild, IInv, Counted
<1>8. CASE SkipTile
  BY <1>8, CursorFacts DEF SkipTile, MayFork
<1>9. ASSUME LeaveLoopIfZero PROVE ParentOK'
  BY <1>9, ThreadFacts DEF LeaveLoopIfZero, Decrement
<1>10. CASE WaitNoChild
  BY <1>1, <1>9, <1>10 DEF WaitNoChild, KillGroupAndExit
<1>11. ASSUME NEW t \in Tiles, Reap(t) \/ ReapAbnormal(t) PROVE ParentOK'
  BY <1>1, <1>9, <1>11 DEF Reap, ReapAbnormal, KillGroupAndExit
<1>12. CASE SerialSkip
  BY <1>12, CursorFacts DEF SerialSkip
<1>13. CASE SerialUnwrap
  BY <1>13 DEF SerialUnwrap
<1>14. CASE SerialWritten
  BY <1>14, CursorFacts DEF SerialWritten, IInv, SerialPassed
<1>15. CASE SerialDone
  BY <1>15 DEF SerialDone
<1>16. CASE AssembleReads \/ AssembleWritten \/ \E t \in Tiles : RemoveTile(t)
  BY <1>1, <1>16 DEF AssembleReads, AssembleWritten, RemoveTile, parent
<1>17. ASSUME ParentSignalled PROVE ParentOK'
  BY <1>1, <1>17 DEF ParentSignalled, KillGroupAndExit
<1>18. CASE ParentGetsTerm
  BY <1>17, <1>18 DEF ParentGetsTerm
<1>19. ASSUME NEW t \in Tiles, ChildStep(t) PROVE ParentOK'
  BY <1>19 DEF ChildStep, ChildCatchesSignals, ChildWrites, ChildHasWritten, 
               ChildExits, ChildGetsTerm, parent
<1>20. CASE Environment
  <2>1. CASE Restart
    BY <2>1, MaskAssumption, OptionAssumption, ThreadFacts, RangeFacts DEF Restart
  <2>2. CASE ForkFails \/ SignalParent \/ ParentFails \/ KillParent
    BY <1>1, <1>17, <2>2 DEF ForkFails, SignalParent, ParentFails, KillParent
  <2>3. ASSUME NEW t \in Tiles, ChildFails(t) \/ SignalChild(t) PROVE ParentOK'
    BY <2>3 DEF ChildFails, SignalChild, parent
  <2> QED
    BY <1>20, <2>1, <2>2, <2>3 DEF Environment
<1>21. CASE UNCHANGED vars
  BY <1>21 DEF vars, parent
<1> QED
  BY <1>2, <1>3, <1>4, <1>5, <1>6, <1>7, <1>8, <1>10, <1>11, <1>12, <1>13, <1>14,
     <1>15, <1>16, <1>18, <1>19, <1>20, <1>21 DEF Next, Driver

LEMMA ChildTypeNext == TypeOK /\ [Next]_vars => ChildOK'
<1> SUFFICES ASSUME TypeOK, [Next]_vars PROVE ChildOK'
  OBVIOUS
<1>0. ChildOK /\ LiveKids \subseteq Procs
  BY DEF TypeOK, LiveKids, Procs
<1>1. ASSUME UNCHANGED <<child, term>> PROVE ChildOK'
  BY <1>0, <1>1 DEF ChildOK
<1>2. CASE Driver
  <2>1. ASSUME KillGroupAndExit, UNCHANGED child PROVE ChildOK'
    BY <1>0, <2>1 DEF ChildOK, KillGroupAndExit
  <2>2. CASE Fork
    BY <1>0, <2>2, CursorFacts DEF ChildOK, Fork, MayFork, ChildStates, Live
  <2>3. CASE WaitNoChild
    BY <1>1, <2>1, <2>3 DEF WaitNoChild
  <2>4. ASSUME NEW t \in Tiles, Reap(t) \/ ReapAbnormal(t) PROVE ChildOK'
    BY <1>0, <2>1, <2>4 DEF ChildOK, Reap, ReapAbnormal, ChildStates
  <2>5. CASE ParentGetsTerm
    BY <1>0, <2>1, <2>5 DEF ChildOK, ParentGetsTerm, ParentSignalled
  <2>6. CASE FirstIteration \/ SecondIteration \/ EndIteration \/ SingleTileRead
             \/ SingleTileWritten \/ CountChild \/ SkipTile
    BY <1>1, <2>6 DEF FirstIteration, SecondIteration, EndIteration, SingleTileRead,
             SingleTileWritten, CountChild, SkipTile
  <2>7. CASE SerialSkip \/ SerialUnwrap \/ SerialWritten \/ SerialDone 
             \/ AssembleReads \/ AssembleWritten \/ \E t \in Tiles : RemoveTile(t)
    BY <1>1, <2>7 DEF SerialSkip, SerialUnwrap, SerialWritten, SerialDone,
             AssembleReads, AssembleWritten, RemoveTile
  <2> QED
    BY <1>2, <2>2, <2>3, <2>4, <2>5, <2>6, <2>7 DEF Driver
<1>3. ASSUME NEW t \in Tiles, NEW s \in Live \cup Zombie, SetChild(t, s),
             term' \subseteq Procs
      PROVE  ChildOK'
  BY <1>0, <1>3, RangeFacts DEF ChildOK, SetChild
<1>4. ASSUME NEW t \in Tiles, ChildStep(t) PROVE ChildOK'
  <2>1. term' \subseteq Procs
    BY <1>0, <1>4, RangeFacts DEF ChildStep, ChildOK, ChildCatchesSignals, ChildWrites,
         ChildHasWritten, ChildExits, ChildGetsTerm
  <2>2. PICK s \in Live \cup Zombie : SetChild(t, s)
    BY <1>4 DEF ChildStep, ChildCatchesSignals, ChildWrites, ChildHasWritten,
         ChildExits, ChildGetsTerm, Live, Zombie
  <2> QED
    BY <1>3, <2>1, <2>2
<1>5. CASE Environment
  <2>1. CASE Restart
    BY <2>1 DEF Restart, ChildOK, ChildStates
  <2>2. CASE ForkFails
    BY <1>0, <2>2, RangeFacts DEF ForkFails, ChildOK, Zombie
  <2>3. CASE SignalParent
    BY <1>0, <2>3 DEF SignalParent, ParentSignalled, KillGroupAndExit, ChildOK
  <2>4. CASE ParentFails \/ KillParent
    BY <1>1, <2>4 DEF ParentFails, KillParent
  <2>5. ASSUME NEW t \in Tiles, ChildFails(t) PROVE ChildOK'
    BY <1>0, <1>3, <2>5 DEF ChildFails, ChildOK, Zombie
  <2>6. ASSUME NEW t \in Tiles, SignalChild(t) PROVE ChildOK'
    BY <1>0, <2>6, RangeFacts DEF SignalChild, ChildOK
  <2> QED
    BY <1>5, <2>1, <2>2, <2>3, <2>4, <2>5, <2>6 DEF Environment
<1>6. CASE UNCHANGED vars
  BY <1>1, <1>6 DEF vars
<1> QED
  BY <1>2, <1>4, <1>5, <1>6 DEF Next

LEMMA FilesTypeNext == TypeOK /\ IInv /\ [Next]_vars => FilesOK'
<1> SUFFICES ASSUME TypeOK, IInv, [Next]_vars PROVE FilesOK'
  OBVIOUS
<1>0. FilesOK /\ NameTag \in Names /\ pid \in Pids
  BY NameFacts DEF TypeOK, ParentOK
<1>1. ASSUME UNCHANGED files PROVE FilesOK'
  BY <1>0, <1>1 DEF FilesOK, files
<1>2. ASSUME NEW t \in Tiles, NEW s \in FileStates, SetTile(t, s)
      PROVE  tilefile' \in [Names -> [Tiles -> FileStates]]
  BY <1>0, <1>2 DEF FilesOK, SetTile
<1>3. CASE Driver
  <2>1. CASE FirstIteration \/ SecondIteration \/ Fork \/ CountChild \/ SkipTile
             \/ WaitNoChild \/ SerialSkip \/ SerialDone \/ ParentGetsTerm
    BY <1>1, <2>1 DEF FirstIteration, SecondIteration, Fork, CountChild, SkipTile,
         WaitNoChild, SerialSkip, SerialDone, ParentGetsTerm, ParentSignalled
  <2>2. CASE EndIteration
    BY <1>0, <2>2 DEF EndIteration, FilesOK, FileStates
  <2>3. CASE SingleTileRead \/ SingleTileWritten
    BY <1>0, <2>3 DEF SingleTileRead, SingleTileWritten, FilesOK, FileStates
  <2>4. ASSUME NEW t \in Tiles, Reap(t) \/ ReapAbnormal(t) PROVE FilesOK'
    BY <1>1, <2>4 DEF Reap, ReapAbnormal
  <2>5. CASE SerialUnwrap
    BY <1>0, <1>2, <2>5, CursorFacts DEF SerialUnwrap, FilesOK, FileStates
  <2>6. CASE SerialWritten
    BY <1>0, <1>2, <2>6, CursorFacts DEF SerialWritten, FilesOK, FileStates, IInv,
         SerialPassed
  <2>7. ASSUME NEW s \in FileStates, WriteResult(s)
        PROVE  tileinit' \in [Pids -> FileStates] /\ outfile' \in FileStates
    BY <1>0, <2>7 DEF WriteResult, FilesOK
  <2>8. CASE AssembleReads
    BY <1>0, <2>7, <2>8 DEF AssembleReads, FilesOK, FileStates
  <2>9. CASE AssembleWritten
    BY <1>0, <2>7, <2>9 DEF AssembleWritten, FilesOK, FileStates
  <2>10. ASSUME NEW t \in Tiles, RemoveTile(t) PROVE FilesOK'
    BY <1>0, <1>2, <2>10 DEF RemoveTile, FilesOK, FileStates
  <2> QED
    BY <1>3, <2>1, <2>2, <2>3, <2>4, <2>5, <2>6, <2>8, <2>9, <2>10 DEF Driver
<1>4. ASSUME NEW t \in Tiles, ChildStep(t) PROVE FilesOK'
  <2>1. CASE ChildWrites(t) \/ ChildHasWritten(t)
    BY <1>0, <1>2, <2>1 DEF ChildWrites, ChildHasWritten, FilesOK, FileStates
  <2>2. CASE ChildCatchesSignals(t) \/ ChildExits(t) \/ ChildGetsTerm(t)
    BY <1>1, <2>2 DEF ChildCatchesSignals, ChildExits, ChildGetsTerm
  <2> QED
    BY <1>4, <2>1, <2>2 DEF ChildStep
<1>5. CASE Environment
  <2>1. CASE Restart
    <3>1. \A s \in FileStates : Age(s) \in FileStates
      BY DEF Age, FileStates
    <3> QED
      BY <1>0, <2>1, <3>1 DEF Restart, FilesOK
  <2>2. CASE ForkFails \/ SignalParent \/ ParentFails \/ KillParent
    BY <1>1, <2>2 DEF ForkFails, SignalParent, ParentSignalled, ParentFails, KillParent
  <2>3. ASSUME NEW t \in Tiles, ChildFails(t) \/ SignalChild(t) PROVE FilesOK'
    BY <1>1, <2>3 DEF ChildFails, SignalChild
  <2> QED
    BY <1>5, <2>1, <2>2, <2>3 DEF Environment
<1>6. CASE UNCHANGED vars
  BY <1>1, <1>6 DEF vars
<1> QED
  BY <1>3, <1>4, <1>5, <1>6 DEF Next

LEMMA HistoryTypeNext == TypeOK /\ [Next]_vars => HistoryOK'
<1> SUFFICES ASSUME TypeOK, [Next]_vars PROVE HistoryOK'
  OBVIOUS
<1>0. HistoryOK /\ opt \in OptionSets
  BY DEF TypeOK, ParentOK
<1>1. ASSUME UNCHANGED history PROVE HistoryOK'
  BY <1>0, <1>1 DEF HistoryOK, history
<1>2. ASSUME Fault PROVE HistoryOK'
  BY <1>0, <1>2, BoundAssumption DEF HistoryOK, Fault
<1>3. CASE Driver
  <2>1. CASE FirstIteration \/ SecondIteration \/ EndIteration \/ SingleTileRead
             \/ SingleTileWritten \/ Fork \/ CountChild \/ SkipTile \/ WaitNoChild
    BY <1>1, <2>1 DEF FirstIteration, SecondIteration, EndIteration, SingleTileRead,
         SingleTileWritten, Fork, CountChild, SkipTile, WaitNoChild
  <2>2. ASSUME NEW t \in Tiles, Reap(t) \/ ReapAbnormal(t) PROVE HistoryOK'
    BY <1>1, <2>2 DEF Reap, ReapAbnormal
  <2>3. CASE SerialSkip \/ SerialUnwrap \/ SerialWritten \/ SerialDone
             \/ AssembleReads \/ AssembleWritten \/ ParentGetsTerm
             \/ \E t \in Tiles : RemoveTile(t)
    BY <1>1, <2>3 DEF SerialSkip, SerialUnwrap, SerialWritten, SerialDone,
         AssembleReads, AssembleWritten, RemoveTile, ParentGetsTerm
  <2> QED
    BY <1>3, <2>1, <2>2, <2>3 DEF Driver
<1>4. ASSUME NEW t \in Tiles, ChildStep(t) PROVE HistoryOK'
  BY <1>1, <1>4 DEF ChildStep, ChildCatchesSignals, ChildWrites, ChildHasWritten,
       ChildExits, ChildGetsTerm
<1>5. CASE Environment
  <2>1. CASE Restart
    BY <1>0, <2>1, BoundAssumption DEF Restart, HistoryOK
  <2>2. CASE ForkFails \/ SignalParent \/ ParentFails \/ KillParent
    BY <1>2, <2>2 DEF ForkFails, SignalParent, ParentFails, KillParent
  <2>3. ASSUME NEW t \in Tiles, ChildFails(t) \/ SignalChild(t) PROVE HistoryOK'
    BY <1>2, <2>3 DEF ChildFails, SignalChild
  <2> QED
    BY <1>5, <2>1, <2>2, <2>3 DEF Environment
<1>6. CASE UNCHANGED vars
  BY <1>1, <1>6 DEF vars
<1> QED
  BY <1>3, <1>4, <1>5, <1>6 DEF Next

--------------------------------------------------------------------------------
(* The inductive invariant, one group of actions at a time.                     *)

LEMMA UnreapedFacts ==
  /\ IsFiniteSet(Unreaped) /\ Cardinality(Unreaped) \in Nat
  /\ Cardinality({}) = 0
  BY GridFacts, FS_Subset, FS_CardinalityType, FS_EmptySet DEF Unreaped

LEMMA InvInit == Init => IInv
<1> SUFFICES ASSUME Init PROVE IInv
  OBVIOUS
<1>1. Unreaped = {}
  BY DEF Init, Unreaped, Live, Zombie
<1> QED
  BY <1>1, UnreapedFacts, TypeInit, ThreadsOfRun
     DEF Init, IInv, Fresh, Passed, NoChildElsewhere, Counted, CountIsExact, Written,
         SerialPassed, AssembleAfterTiles, Forking

\* The parent dies: nothing but the number of children is left to maintain.
LEMMA DeathKeepsInv ==
  ASSUME IInv, pc' = "dead", Unreaped' = Unreaped, opt' = opt
  PROVE  IInv'
  BY DEF IInv, Fresh, Passed, NoChildElsewhere, Counted, CountIsExact, Written,
         SerialPassed, AssembleAfterTiles, Forking

\* The parent works alone, past the assembly or between two iterations.
LEMMA AloneKeepsInv ==
  ASSUME IInv, pc \notin {"loop", "count", "dead"},
         pc' \notin {"loop", "count", "serial", "tile", "assemble", "dead"},
         pc' = "iter" => optiter' # 0,
         UNCHANGED <<child, trap, opt>>, TypeOK
  PROVE  IInv'
<1>1. Unreaped = {} /\ Unreaped' = {} /\ trap' = "dfl"
  BY DEF IInv, NoChildElsewhere, Unreaped
<1> QED
  BY <1>1, UnreapedFacts, ThreadsOfRun
     DEF IInv, Fresh, Passed, NoChildElsewhere, Counted, CountIsExact, Written,
         SerialPassed, AssembleAfterTiles, Forking

\* A child goes on or dies; its tile is complete when it has written it.
LEMMA ChildKeepsInv ==
  ASSUME TypeOK, IInv, NEW t \in Tiles, NEW s \in Live \cup Zombie,
         child[t] \in Live, SetChild(t, s), UNCHANGED parent,
         \A u \in Tiles : u # t => TileFile(u)' = TileFile(u),
         s \in {"written", "ok"} => TileFile(t)' = "new"
  PROVE  IInv'
<1>0. t \in Unreaped /\ Unreaped' = Unreaped
  BY DEF SetChild, Unreaped, TypeOK, ChildOK
<1>1. pc \in {"loop", "count", "dead"}
  BY <1>0 DEF IInv, NoChildElsewhere
<1>2. CASE pc = "dead"
  BY <1>0, <1>2, DeathKeepsInv DEF parent
<1>3. CASE Forking
  <2>1. pc' = pc /\ pc' \in {"loop", "count"} /\ child' = [child EXCEPT ![t] = s]
    BY <1>3 DEF parent, Forking, SetChild
  <2>2. Passed'
    <3>1. \A u \in Tiles : (child'[u] # "none") = (child[u] # "none")
      BY <2>1 DEF TypeOK, ChildOK, Live, Zombie
    <3> QED
      BY <2>1, <3>1 DEF IInv, Passed, Forking, Before, ThisTile, parent, invocation
  <2>3. Counted'
    BY <1>0 DEF IInv, Counted, CountIsExact, Forking, TilesLeft, parent
  <2>4. Written'
    BY <2>1, <1>3 DEF IInv, Written, Forking, TypeOK, ChildOK, Live, Zombie
  <2> QED
    BY <2>1, <2>2, <2>3, <2>4 DEF IInv, Fresh, NoChildElsewhere, SerialPassed,
       AssembleAfterTiles
<1> QED
  BY <1>1, <1>2, <1>3 DEF Forking

\* The cursor passes exactly the tile it was on.
LEMMA AdvanceFacts ==
  ASSUME TypeOK, TilesLeft, AdvanceTile, NEW t \in Tiles
  PROVE  Before(t)' <=> Before(t) \/ t = ThisTile
<1>1. /\ t[1] \in Rows /\ t[2] \in Cols /\ t = <<t[1], t[2]>>
      /\ nexttilerow \in 0 .. NTileRow /\ nexttilecol \in Cols
  BY GridFacts DEF TypeOK, ParentOK
<1>2. t = ThisTile <=> t[1] = nexttilerow /\ t[2] = nexttilecol
  BY <1>1 DEF ThisTile
<1> QED
  BY <1>1, <1>2, GridAssumption DEF AdvanceTile, Before, Rows, Cols

\* The tile under the cursor has not been passed; past the last row, all have.
LEMMA BeforeFacts ==
  ASSUME TypeOK, NEW t \in Tiles
  PROVE  ~Before(ThisTile) /\ (~TilesLeft => Before(t))
<1>1. t[1] \in Rows /\ nexttilerow \in 0 .. NTileRow /\ nexttilecol \in Cols
  BY GridFacts DEF TypeOK, ParentOK
<1> QED
  BY <1>1, GridAssumption DEF Before, ThisTile, TilesLeft, Rows, Cols

LEMMA ForkKeepsInv == ASSUME TypeOK, IInv, Fork PROVE IInv'
<1>1. /\ pc = "loop" /\ pc' = "count" /\ nchildren < NThreads /\ TilesLeft
      /\ dotilemask[ThisTile] /\ ThisTile \in Tiles /\ ThisTile' = ThisTile
      /\ child' = [child EXCEPT ![ThisTile] = "born"]
  BY CursorFacts DEF Fork, MayFork, ThisTile
<1>2. child[ThisTile] = "none"
  BY <1>1, BeforeFacts DEF IInv, Passed, Forking
<1>3. nchildren \in 0 .. NThreads - 1 /\ Cardinality(Unreaped) = nchildren
  BY <1>1, ThreadsOfRun 
     DEF IInv, Counted, CountIsExact, Forking, TypeOK, ParentOK
<1>4. Unreaped' = Unreaped \cup {ThisTile} /\ ThisTile \notin Unreaped
  BY <1>1, <1>2 DEF Unreaped, Live, Zombie, TypeOK, ChildOK
<1>5. Cardinality(Unreaped') = nchildren + 1
  BY <1>3, <1>4, UnreapedFacts, FS_AddElement
<1>6. Counted'
  <2>1. nchildren' = nchildren /\ TilesLeft' /\ opt' = opt
    BY <1>1 DEF Fork, TilesLeft, invocation
  <2> QED
    BY <1>1, <1>3, <1>5, <2>1, ThreadsOfRun DEF Counted, CountIsExact, Forking
<1>7. Passed'
  BY <1>1, <1>2, BeforeFacts DEF IInv, Passed, Forking, Before, Fork, invocation,
     TypeOK, ChildOK
<1>8. Written'
  BY <1>1 DEF IInv, Written, Forking, Fork, files, invocation, TileFile, NameTag,
     TypeOK, ChildOK
<1> QED
  BY <1>1, <1>6, <1>7, <1>8 DEF IInv, Fresh, NoChildElsewhere, SerialPassed,
     AssembleAfterTiles

LEMMA CountKeepsInv == ASSUME TypeOK, IInv, CountChild PROVE IInv'
<1>1. /\ pc = "count" /\ pc' = "loop" /\ TilesLeft /\ AdvanceTile
      /\ nchildren \in 0 .. NThreads - 1 /\ nchildren' = nchildren + 1
      /\ UNCHANGED <<child, invocation, files, trap>> /\ Unreaped' = Unreaped
  BY DEF CountChild, IInv, Counted, Unreaped
<1>2. Passed'
  BY <1>1, AdvanceFacts DEF IInv, Passed, Forking, invocation
<1>3. Counted'
  BY <1>1, UnreapedFacts, ThreadsOfRun DEF IInv, Counted, CountIsExact, Forking, invocation
<1>4. Written'
  BY <1>1 DEF IInv, Written, Forking, files, invocation, TileFile, NameTag
<1> QED
  BY <1>1, <1>2, <1>3, <1>4 DEF IInv, Fresh, NoChildElsewhere, SerialPassed,
     AssembleAfterTiles

LEMMA SkipKeepsInv == ASSUME TypeOK, IInv, SkipTile PROVE IInv'
<1>1. /\ pc = "loop" /\ pc' = "loop" /\ TilesLeft /\ AdvanceTile
      /\ ~dotilemask[ThisTile]
      /\ UNCHANGED <<child, invocation, files, trap, nchildren>> /\ Unreaped' = Unreaped
  BY DEF SkipTile, MayFork, Unreaped
<1>2. Passed'
  BY <1>1, AdvanceFacts DEF IInv, Passed, Forking, invocation
<1>3. Counted'
  BY <1>1 DEF IInv, Counted, CountIsExact, Forking, invocation
<1>4. Written'
  BY <1>1 DEF IInv, Written, Forking, files, invocation, TileFile, NameTag
<1> QED
  BY <1>1, <1>2, <1>3, <1>4 DEF IInv, Fresh, NoChildElsewhere, SerialPassed,
     AssembleAfterTiles

\* Waiting for a child that exited normally.
LEMMA ReapKeepsInv == ASSUME TypeOK, IInv, NEW t \in Tiles, Reap(t) PROVE IInv'
<1>1. /\ pc = "loop" /\ ~(nchildren < NThreads /\ TilesLeft)
      /\ child[t] = "ok" /\ child' = [child EXCEPT ![t] = "reaped"]
      /\ UNCHANGED <<invocation, files, nexttilerow, nexttilecol>>
      /\ nchildren' = Decrement(nchildren)
  BY DEF Reap, InWait, LeaveLoopIfZero
<1>2. t \in Unreaped /\ Unreaped' = Unreaped \ {t}
  BY <1>1 DEF Unreaped, Live, Zombie, TypeOK, ChildOK
<1>3. nchildren \in 1 .. NThreads /\ Cardinality(Unreaped) = nchildren
  <2>1. nchildren >= 0
    BY <1>1, <1>2 DEF IInv, Counted, Forking, TypeOK, ParentOK
  <2>2. Cardinality(Unreaped) # 0
    BY <1>2, UnreapedFacts, FS_EmptySet
  <2> QED
    BY <1>1, <2>1, <2>2 DEF IInv, Counted, CountIsExact, Forking, TypeOK, ParentOK
<1>4. Cardinality(Unreaped') = nchildren - 1 /\ nchildren' = nchildren - 1
  <2>1. Cardinality(Unreaped') = nchildren - 1
    BY <1>2, <1>3, UnreapedFacts, FS_RemoveElement
  <2>2. nchildren' = nchildren - 1
    BY <1>1, <1>3, ThreadsOfRun DEF Decrement
  <2> QED
    BY <2>1, <2>2
<1>5. \A u \in Tiles : /\ (child'[u] # "none") = (child[u] # "none")
                       /\ TileFile(u)' = TileFile(u)
                       /\ child'[u] \in {"written", "ok", "reaped"}
                            => TileFile(u) = "new"
  BY <1>1 DEF TypeOK, ChildOK, IInv, Written, Forking, files, invocation, TileFile, NameTag
<1>6. CASE nchildren' = 0
  <2>1. pc' = "assemble" /\ trap' = "dfl"
    BY <1>6 DEF Reap, LeaveLoopIfZero
  <2>2. ~TilesLeft
    BY <1>1, <1>3, <1>4, <1>6 DEF IInv, Passed, Forking
  <2>3. Unreaped' = {}
    <3>1. IsFiniteSet(Unreaped')
      BY <1>2, UnreapedFacts, FS_RemoveElement
    <3> QED
      BY <1>4, <1>6, <3>1, FS_EmptySet
  <2>4. \A u \in Tiles : dotilemask[u] => child'[u] \in {"written", "ok", "reaped"}
    <3> SUFFICES ASSUME NEW u \in Tiles, dotilemask[u]
                 PROVE  child'[u] = "reaped"
      OBVIOUS
    <3>1. child'[u] # "none"
      BY <1>1, <1>5, <2>2, BeforeFacts DEF IInv, Passed, Forking
    <3>2. child'[u] \notin Live \cup Zombie
      BY <2>3 DEF Unreaped
    <3> QED
      BY <1>1, <3>1, <3>2 DEF TypeOK, ChildOK, ChildStates
  <2>5. AssembleAfterTiles'
    BY <1>1, <1>5, <2>3, <2>4 DEF AssembleAfterTiles, Selected, invocation
  <2> QED
    BY <1>1, <1>4, <1>6, <2>1, <2>3, <2>5, ThreadsOfRun
       DEF invocation, IInv, Fresh, Passed, NoChildElsewhere, Counted, CountIsExact, Written,
           SerialPassed, Forking
<1>7. CASE nchildren' # 0
  <2>1. pc' = "loop" /\ trap' = trap
    BY <1>1, <1>7 DEF Reap, LeaveLoopIfZero
  <2>2. Passed'
    BY <1>1, <1>5, <2>1 DEF IInv, Passed, Forking, Before, invocation
  <2>3. Counted'
    BY <1>1, <1>3, <1>4, <1>7, <2>1, ThreadsOfRun
       DEF Counted, CountIsExact, Forking, invocation
  <2>4. Written'
    BY <1>5, <2>1 DEF Written, Forking
  <2> QED
    BY <2>1, <2>2, <2>3, <2>4 DEF IInv, Fresh, NoChildElsewhere, SerialPassed,
       AssembleAfterTiles
<1> QED
  BY <1>6, <1>7

\* wait() with no child: only when every tile is past and none had one.
LEMMA WaitNoChildKeepsInv == ASSUME TypeOK, IInv, WaitNoChild PROVE IInv'
<1>1. /\ pc = "loop" /\ Unreaped = {} /\ Unreaped' = {} /\ nchildren <= 0
      /\ ~(nchildren < NThreads /\ TilesLeft)
  <2>1. pc = "loop" /\ Unreaped = {} /\ child' = child 
        /\ ~(nchildren < NThreads /\ TilesLeft)
    BY DEF WaitNoChild, InWait
  <2>2. nchildren <= 0
    BY <2>1, UnreapedFacts 
       DEF IInv, Counted, CountIsExact, Forking, TypeOK, ParentOK
  <2> QED
    BY <2>1, <2>2 DEF Unreaped
<1>2. CASE KillGroupAndExit
  BY <1>1, <1>2, DeathKeepsInv DEF KillGroupAndExit, ExitParent, invocation
<1>3. CASE LeaveLoopIfZero /\ UNCHANGED <<child, files>>
  <2>1. ~TilesLeft /\ nchildren \in -1 .. 0
    BY <1>1, ThreadsOfRun DEF TypeOK, ParentOK
  <2>2. /\ nchildren' = -1 /\ pc' = "loop" /\ trap' = trap
        /\ UNCHANGED <<child, files, invocation, nexttilerow, nexttilecol>>
    BY <1>1, <1>3, <2>1 DEF LeaveLoopIfZero, Decrement
  <2>3. Passed'
    BY <1>1, <2>2 DEF IInv, Passed, Forking, Before, invocation
  <2>4. Counted'
    BY <1>1, <2>1, <2>2, UnreapedFacts, ThreadsOfRun
       DEF Counted, CountIsExact, Forking, TilesLeft, invocation
  <2>5. Written'
    BY <1>1, <2>2 DEF IInv, Written, Forking, files, invocation, TileFile, NameTag
  <2> QED
    BY <2>2, <2>3, <2>4, <2>5 DEF IInv, Fresh, NoChildElsewhere, SerialPassed,
       AssembleAfterTiles
<1> QED
  BY <1>2, <1>3 DEF WaitNoChild

LEMMA SerialKeepsInv ==
  ASSUME TypeOK, IInv, SerialSkip \/ SerialUnwrap \/ SerialWritten \/ SerialDone
  PROVE  IInv'
<1>1. /\ pc \in {"serial", "tile"} /\ pc' \in {"serial", "tile", "assemble"}
      /\ UNCHANGED <<child, trap, invocation>> /\ Unreaped = {} /\ Unreaped' = {}
      /\ ~opt.assembleonly
  BY DEF SerialSkip, SerialUnwrap, SerialWritten, SerialDone, IInv, NoChildElsewhere,
     Unreaped, SerialPassed
<1>2. Fresh' /\ Passed' /\ NoChildElsewhere' /\ Counted' /\ Written'
  BY <1>1, UnreapedFacts, ThreadsOfRun DEF IInv, Fresh, Passed, NoChildElsewhere,
     Counted, CountIsExact, Written, Forking, invocation
<1>3. CASE SerialSkip
  <2>1. \A t \in Tiles : Before(t)' <=> Before(t) \/ t = ThisTile
    BY <1>3, AdvanceFacts DEF SerialSkip
  <2> QED
    BY <1>1, <1>2, <1>3, <2>1 DEF SerialSkip, IInv, SerialPassed, AssembleAfterTiles,
       Selected, TileFile, NameTag, files, invocation
<1>4. CASE SerialUnwrap
  <2>1. /\ ThisTile \in Tiles /\ ~Before(ThisTile) /\ TilesLeft /\ TilesLeft'
        /\ pc' = "tile" /\ pc = "serial"
    BY <1>4, CursorFacts, BeforeFacts DEF SerialUnwrap, TilesLeft
  <2>2. \A t \in Tiles : t # ThisTile => TileFile(t)' = TileFile(t)
    BY <1>1, <1>4, NameFacts 
       DEF SerialUnwrap, SetTile, TileFile, NameTag, invocation, TypeOK, FilesOK
  <2>3. \A t \in Tiles : Before(t)' = Before(t)
    BY <1>4 DEF SerialUnwrap, Before
  <2> QED
    BY <1>1, <1>2, <2>1, <2>2, <2>3 DEF IInv, SerialPassed, AssembleAfterTiles,
       Selected, invocation
<1>5. CASE SerialWritten
  <2>1. ThisTile \in Tiles /\ TilesLeft /\ pc' = "serial" /\ pc = "tile"
    BY <1>5, CursorFacts DEF SerialWritten, IInv, SerialPassed
  <2>2. \A t \in Tiles : Before(t)' <=> Before(t) \/ t = ThisTile
    BY <1>5, <2>1, AdvanceFacts DEF SerialWritten
  <2>3. \A t \in Tiles : TileFile(t)' = IF t = ThisTile THEN "new" ELSE TileFile(t)
    BY <1>1, <1>5, <2>1, NameFacts 
       DEF SerialWritten, SetTile, TileFile, NameTag, invocation, TypeOK, FilesOK
  <2> QED
    BY <1>1, <1>2, <2>1, <2>2, <2>3 DEF IInv, SerialPassed, AssembleAfterTiles,
       Selected, invocation
<1>6. CASE SerialDone
  <2>1. \A t \in Tiles : Before(t) /\ TileFile(t)' = TileFile(t)
    BY <1>1, <1>6, BeforeFacts DEF SerialDone, TileFile, NameTag, files, invocation
  <2> QED
    BY <1>1, <1>2, <1>6, <2>1 DEF SerialDone, IInv, SerialPassed, AssembleAfterTiles,
       Selected, invocation
<1> QED
  BY <1>3, <1>4, <1>5, <1>6

\* The first iteration chooses between assembling, forking and unwrapping alone.
LEMMA BeginKeepsInv == ASSUME TypeOK, IInv, FirstIteration PROVE IInv'
<1>1. /\ nexttilerow = 0 /\ nexttilecol = 0 /\ nchildren = 0
      /\ child' = child /\ \A t \in Tiles : child[t] = "none"
  BY DEF FirstIteration, IInv, Fresh
<1>2. Unreaped = {} /\ Unreaped' = {}
  BY <1>1 DEF Unreaped, Live, Zombie
<1>3. CASE ExitParent("abnormal")
  BY <1>2, <1>3, DeathKeepsInv DEF ExitParent, invocation
<1>4. CASE BeginTileMode
  <2>1. /\ UNCHANGED <<invocation, nexttilerow, nexttilecol, nchildren>>
        /\ pc' \in {"assemble", "loop", "serial"}
        /\ (pc' = "assemble") = opt.assembleonly
        /\ pc' = "loop" => NThreads > 1
        /\ trap' = IF pc' = "loop" THEN "kill" ELSE "dfl"
    BY <1>4, ThreadsOfRun DEF BeginTileMode, TypeOK, ParentOK, OptionSets
  <2>2. \A t \in Tiles : ~Before(t)'
    BY <1>1, <2>1, GridFacts DEF Before, Rows, Cols
  <2>3. Passed'
    BY <1>1, <2>1, <2>2 DEF Passed, Forking, invocation
  <2>4. Counted'
    BY <1>1, <1>2, <2>1, UnreapedFacts, ThreadsOfRun
       DEF Counted, CountIsExact, Forking, invocation
  <2>5. Fresh' /\ NoChildElsewhere' /\ SerialPassed' /\ Written'
    BY <1>1, <1>2, <2>1, <2>2 DEF Fresh, NoChildElsewhere, SerialPassed, Written,
       Forking, Selected, invocation
  <2>6. AssembleAfterTiles'
    BY <1>2, <2>1 DEF AssembleAfterTiles, invocation
  <2> QED
    BY <2>3, <2>4, <2>5, <2>6 DEF IInv
<1> QED
  BY <1>3, <1>4 DEF FirstIteration

LEMMA RestartKeepsInv == ASSUME Restart PROVE IInv'
<1>1. Unreaped' = {}
  BY DEF Restart, Unreaped, Live, Zombie
<1>2. opt'.nthreads \in Nat
  BY OptionAssumption, ThreadFacts DEF Restart
<1> QED
  BY <1>1, <1>2, UnreapedFacts
     DEF Restart, IInv, Fresh, Passed, NoChildElsewhere, Counted, CountIsExact,
         Written, SerialPassed, AssembleAfterTiles, Forking

LEMMA InvNext == TypeOK /\ IInv /\ [Next]_vars => IInv'
<1> SUFFICES ASSUME TypeOK, IInv, [Next]_vars PROVE IInv'
  OBVIOUS
<1>1. ASSUME NEW s \in {"ok", "abnormal"}, ExitParent(s), UNCHANGED child PROVE IInv'
  BY <1>1, DeathKeepsInv DEF ExitParent, Unreaped, invocation
<1>2. ASSUME ParentSignalled PROVE IInv'
  BY <1>1, <1>2 DEF ParentSignalled, KillGroupAndExit
<1>3. CASE EndIteration
  <2>1. CASE ExitParent("ok")
    BY <1>1, <1>3, <2>1 DEF EndIteration
  <2>2. CASE pc' = "iter" /\ optiter' = optiter + 1 /\ trap' = trap /\ opt' = opt
    BY <1>3, <2>2, AloneKeepsInv DEF EndIteration, TypeOK, ParentOK
  <2> QED
    BY <1>3, <2>1, <2>2 DEF EndIteration, invocation
<1>4. CASE SecondIteration \/ SingleTileWritten \/ AssembleWritten
           \/ \E t \in Tiles : RemoveTile(t)
  BY <1>4, AloneKeepsInv DEF SecondIteration, SingleTileWritten, AssembleWritten,
     RemoveTile, parent, invocation
<1>5. CASE SingleTileRead \/ AssembleReads
  BY <1>1, <1>5, AloneKeepsInv DEF SingleTileRead, AssembleReads, invocation
<1>6. CASE Driver
  <2>1. ASSUME NEW t \in Tiles, ReapAbnormal(t) PROVE IInv'
    BY <1>1, <2>1 DEF ReapAbnormal, KillGroupAndExit
  <2>2. CASE ParentGetsTerm
    BY <1>2, <2>2 DEF ParentGetsTerm
  <2> QED
    BY <1>3, <1>4, <1>5, <1>6, <2>1, <2>2, BeginKeepsInv, ForkKeepsInv, CountKeepsInv,
       SkipKeepsInv, ReapKeepsInv, WaitNoChildKeepsInv, SerialKeepsInv DEF Driver
<1>7. ASSUME NEW t \in Tiles, ChildStep(t) PROVE IInv'
  <2>1. \A u \in Tiles, s \in FileStates : SetTile(t, s) /\ UNCHANGED parent =>
          TileFile(u)' = IF u = t THEN s ELSE TileFile(u)
    BY NameFacts DEF SetTile, TileFile, NameTag, parent, TypeOK, FilesOK
  <2>2. UNCHANGED <<parent, files>> => \A u \in Tiles : TileFile(u)' = TileFile(u)
    BY DEF TileFile, NameTag, parent, files
  <2>3. child[t] = "written" => TileFile(t) = "new" \/ ~Forking
    BY DEF IInv, Written
  <2>4. pc = "dead" /\ pc' = "dead" /\ opt' = opt /\ Unreaped' = Unreaped => IInv'
    BY DeathKeepsInv
  <2>5. CASE ChildCatchesSignals(t)
    BY <2>2, <2>5, ChildKeepsInv DEF ChildCatchesSignals, Live, Zombie
  <2>6. CASE ChildWrites(t)
    BY <2>1, <2>6, ChildKeepsInv DEF ChildWrites, Live, Zombie, FileStates
  <2>7. CASE ChildHasWritten(t)
    BY <2>1, <2>7, ChildKeepsInv DEF ChildHasWritten, Live, Zombie, FileStates
  <2>8. CASE ChildExits(t)
    <3>1. t \in Unreaped /\ Unreaped' = Unreaped
      BY <2>8 DEF ChildExits, SetChild, Unreaped, Live, Zombie, TypeOK, ChildOK
    <3>2. pc \in {"loop", "count", "dead"} /\ pc' = pc /\ opt' = opt
      BY <2>8, <3>1 DEF ChildExits, parent, IInv, NoChildElsewhere
    <3> QED
      BY <2>2, <2>3, <2>4, <2>8, <3>1, <3>2, ChildKeepsInv
         DEF ChildExits, Live, Zombie, Forking
  <2>9. CASE ChildGetsTerm(t)
    BY <2>2, <2>9, ChildKeepsInv DEF ChildGetsTerm, Live, Zombie
  <2> QED
    BY <1>7, <2>5, <2>6, <2>7, <2>8, <2>9 DEF ChildStep
<1>8. CASE Environment
  <2>1. CASE ForkFails
    <3>1. Unreaped' = Unreaped
      BY <2>1 DEF ForkFails, Unreaped, Live, Zombie
    <3> QED
      BY <2>1, <3>1, DeathKeepsInv DEF ForkFails, ExitParent, invocation
  <2>2. CASE SignalParent \/ ParentFails \/ KillParent
    BY <1>1, <1>2, <2>2 DEF SignalParent, ParentFails, KillParent
  <2>3. ASSUME NEW t \in Tiles, ChildFails(t) PROVE IInv'
    <3>1. UNCHANGED <<parent, files>> => \A u \in Tiles : TileFile(u)' = TileFile(u)
      BY DEF TileFile, NameTag, parent, files
    <3> QED
      BY <2>3, <3>1, ChildKeepsInv DEF ChildFails, Live, Zombie
  <2>4. ASSUME NEW t \in Tiles, SignalChild(t) PROVE IInv'
    BY <2>4 DEF SignalChild, parent, invocation, files, Unreaped, IInv, Fresh, Passed,
       NoChildElsewhere, Counted, CountIsExact, Written, SerialPassed,
       AssembleAfterTiles, Forking, Before, ThisTile, TilesLeft, TileFile, NameTag,
       Selected
  <2> QED
    BY <1>8, <2>1, <2>2, <2>3, <2>4, RestartKeepsInv DEF Environment
<1>9. CASE UNCHANGED vars
  BY <1>9 DEF vars, parent, invocation, files, Unreaped, IInv, Fresh, Passed,
     NoChildElsewhere, Counted, CountIsExact, Written, SerialPassed,
     AssembleAfterTiles, Forking, Before, ThisTile, TilesLeft, TileFile, NameTag,
     Selected
<1> QED
  BY <1>6, <1>7, <1>8, <1>9 DEF Next

--------------------------------------------------------------------------------
(* The theorems.                                                                *)

\* Every variable of the driver keeps its type, and the inductive invariant holds
\* in every state: the two carry each other (the range of nchildren needs the
\* bound on the children, the bound needs the ranges of the cursor).
THEOREM Invariance == Spec => [](TypeOK /\ IInv)
<1>1. Init => TypeOK /\ IInv
  BY TypeInit, InvInit
<1>2. TypeOK /\ IInv /\ [Next]_vars => (TypeOK /\ IInv)'
  <2> SUFFICES ASSUME TypeOK, IInv, [Next]_vars PROVE TypeOK' /\ IInv'
    OBVIOUS
  <2>1. TypeOK'
    BY ParentTypeNext, ChildTypeNext, FilesTypeNext, HistoryTypeNext DEF TypeOK
  <2> QED
    BY <2>1, InvNext
<1> QED
  BY <1>1, <1>2, PTL DEF Spec

\* Unwrap never has more than --nproc child processes at work.
THEOREM BoundedConcurrency == Spec => []AtMostNThreads
<1>1. TypeOK /\ IInv => AtMostNThreads
  <2> SUFFICES ASSUME TypeOK, IInv PROVE AtMostNThreads
    OBVIOUS
  <2>1. LiveKids \in SUBSET Unreaped
    BY DEF LiveKids, Unreaped
  <2>2. Cardinality(LiveKids) <= Cardinality(Unreaped) /\ IsFiniteSet(LiveKids)
    BY <2>1, UnreapedFacts, FS_Subset
  <2>3. Cardinality(LiveKids) \in Nat
    BY <2>2, FS_CardinalityType
  <2> QED
    BY <2>2, <2>3, UnreapedFacts, ThreadsOfRun DEF IInv, Counted, AtMostNThreads
<1> QED
  BY <1>1, Invariance, PTL

\* The counter that ends the loop is exact whatever the children do meanwhile.
THEOREM ExactCount == Spec => []CountIsExact
<1>1. IInv => CountIsExact
  BY DEF IInv, Counted
<1> QED
  BY <1>1, Invariance, PTL

\* Tiles are assembled only when every selected tile was unwrapped by this run and
\* no child is left.
THEOREM AssemblyWaits == Spec => []AssembleAfterTiles
<1>1. IInv => AssembleAfterTiles
  BY DEF IInv
<1> QED
  BY <1>1, Invariance, PTL

--------------------------------------------------------------------------------
(* Exit status, output and masked tiles: OInv, one conjunct at a time.           *)

LEMMA OutcomeInit == Init => OInv
<1> SUFFICES ASSUME Init PROVE OInv
  OBVIOUS
<1>1. opt \in OptionSets
  BY TypeInit, ThreadsOfRun
<1> QED
  BY <1>1 DEF Init, OInv, Ended, Asked, Iterations, AllFinished, NormalExitHasOutput,
     NOptIter

\* A new invocation has decided nothing yet.
LEMMA RestartOutcome == ASSUME Restart PROVE OInv'
  BY DEF Restart, OInv, Ended, Asked, Iterations, AllFinished, NormalExitHasOutput,
     NOptIter

\* What the parent does not do leaves what it decided.
LEMMA ParentUntouched ==
  ASSUME NEW t \in Tiles, ChildStep(t) \/ ChildFails(t) \/ SignalChild(t)
  PROVE  UNCHANGED parent /\ UNCHANGED outfile
  BY DEF ChildStep, ChildCatchesSignals, ChildWrites, ChildHasWritten, ChildExits,
     ChildGetsTerm, ChildFails, SignalChild, files

LEMMA EndedNext == TypeOK /\ OInv /\ [Next]_vars => Ended'
<1> SUFFICES ASSUME TypeOK, OInv, [Next]_vars PROVE Ended'
  OBVIOUS
<1> USE DEF Ended, OInv, invocation
<1>1. ASSUME NEW s \in {"ok", "abnormal"}, ExitParent(s) PROVE Ended'
  BY <1>1 DEF ExitParent
<1>2. ASSUME ParentSignalled PROVE Ended'
  BY <1>1, <1>2 DEF ParentSignalled, KillGroupAndExit
<1>3. CASE Driver
  <2>1. CASE FirstIteration \/ SecondIteration \/ EndIteration
    BY <1>1, <2>1 DEF FirstIteration, BeginTileMode, SecondIteration, EndIteration
  <2>2. CASE SingleTileRead \/ SingleTileWritten \/ AssembleReads \/ AssembleWritten
    BY <1>1, <2>2 DEF SingleTileRead, SingleTileWritten, AssembleReads, AssembleWritten
  <2>3. CASE Fork \/ CountChild \/ SkipTile
    BY <2>3 DEF Fork, CountChild, SkipTile, MayFork
  <2>4. ASSUME InWait, LeaveLoopIfZero PROVE Ended'
    BY <2>4 DEF InWait, LeaveLoopIfZero
  <2>5. CASE WaitNoChild
    BY <1>1, <2>4, <2>5 DEF WaitNoChild, KillGroupAndExit
  <2>6. ASSUME NEW t \in Tiles, Reap(t) \/ ReapAbnormal(t) \/ RemoveTile(t) PROVE Ended'
    BY <1>1, <2>4, <2>6 DEF Reap, ReapAbnormal, RemoveTile, KillGroupAndExit, parent
  <2>7. CASE SerialSkip \/ SerialUnwrap \/ SerialWritten \/ SerialDone
    BY <2>7 DEF SerialSkip, SerialUnwrap, SerialWritten, SerialDone
  <2>8. CASE ParentGetsTerm
    BY <1>2, <2>8 DEF ParentGetsTerm
  <2> QED
    BY <1>3, <2>1, <2>2, <2>3, <2>5, <2>6, <2>7, <2>8 DEF Driver
<1>4. ASSUME NEW t \in Tiles, ChildStep(t) \/ ChildFails(t) \/ SignalChild(t)
      PROVE  Ended'
  BY <1>4, ParentUntouched DEF parent
<1>5. CASE Environment
  BY <1>1, <1>2, <1>4, <1>5, RestartOutcome
     DEF Environment, ForkFails, SignalParent, ParentFails, KillParent
<1>6. CASE UNCHANGED vars
  BY <1>6 DEF vars, parent
<1> QED
  BY <1>3, <1>4, <1>5, <1>6 DEF Next

LEMMA AskedNext == TypeOK /\ IInv /\ OInv /\ [Next]_vars => Asked'
<1> SUFFICES ASSUME TypeOK, IInv, OInv, [Next]_vars PROVE Asked'
  OBVIOUS
<1> USE DEF Asked, OInv, invocation, TypeOK, ParentOK, ChildOK, ThisTile
<1>1. ASSUME NEW s, ExitParent(s), \A t \in Tiles : child'[t] # "none" => child[t] # "none"
      PROVE Asked'
  BY <1>1 DEF ExitParent
<1>2. ASSUME ParentSignalled, UNCHANGED child PROVE Asked'
  BY <1>1, <1>2 DEF ParentSignalled, KillGroupAndExit
<1>3. CASE Driver
  <2>1. CASE FirstIteration
    BY <1>1, <2>1, ThreadsOfRun DEF FirstIteration, BeginTileMode
  <2>2. CASE SecondIteration \/ EndIteration
    BY <1>1, <2>2 DEF SecondIteration, EndIteration
  <2>3. CASE SingleTileRead \/ SingleTileWritten \/ AssembleReads \/ AssembleWritten
    BY <1>1, <2>3 DEF SingleTileRead, SingleTileWritten, AssembleReads, AssembleWritten
  <2>4. CASE Fork
    BY <2>4, CursorFacts DEF Fork, MayFork, IInv, Passed, Forking
  <2>5. CASE CountChild \/ SkipTile
    BY <2>5 DEF CountChild, SkipTile, MayFork
  <2>6. ASSUME InWait, LeaveLoopIfZero,
               \A t \in Tiles : child'[t] # "none" => child[t] # "none"
        PROVE  Asked'
    BY <2>6 DEF InWait, LeaveLoopIfZero
  <2>7. CASE WaitNoChild
    BY <1>1, <2>6, <2>7 DEF WaitNoChild, KillGroupAndExit
  <2>8. ASSUME NEW t \in Tiles, Reap(t) PROVE Asked'
    BY <2>6, <2>8 DEF Reap
  <2>9. ASSUME NEW t \in Tiles, ReapAbnormal(t) \/ RemoveTile(t) PROVE Asked'
    BY <1>1, <2>9 DEF ReapAbnormal, RemoveTile, KillGroupAndExit, parent
  <2>10. CASE SerialSkip \/ SerialUnwrap \/ SerialWritten \/ SerialDone
    BY <2>10 DEF SerialSkip, SerialUnwrap, SerialWritten, SerialDone, files
  <2>11. CASE ParentGetsTerm
    BY <1>2, <2>11 DEF ParentGetsTerm, ParentSignalled
  <2> QED
    BY <1>3, <2>1, <2>2, <2>3, <2>4, <2>5, <2>7, <2>8, <2>9, <2>10, <2>11 DEF Driver
<1>4. ASSUME NEW t \in Tiles, ChildStep(t) \/ ChildFails(t) \/ SignalChild(t)
      PROVE  Asked'
  <2>1. \A u \in Tiles : child'[u] # "none" => child[u] # "none"
    BY <1>4 DEF ChildStep, ChildCatchesSignals, ChildWrites, ChildHasWritten,
       ChildExits, ChildGetsTerm, ChildFails, SignalChild, SetChild, Live
  <2> QED
    BY <1>4, <2>1, ParentUntouched DEF parent
<1>5. CASE Environment
  <2>1. CASE ForkFails
    BY <1>1, <2>1 DEF ForkFails, Live
  <2>2. CASE SignalParent \/ ParentFails \/ KillParent
    BY <1>1, <1>2, <2>2 DEF SignalParent, ParentFails, KillParent, ParentSignalled
  <2> QED
    BY <1>4, <1>5, <2>1, <2>2, RestartOutcome DEF Environment
<1>6. CASE UNCHANGED vars
  BY <1>6 DEF vars, parent
<1> QED
  BY <1>3, <1>4, <1>5, <1>6 DEF Next

LEMMA IterationsNext == TypeOK /\ IInv /\ OInv /\ [Next]_vars => Iterations'
<1> SUFFICES ASSUME TypeOK, IInv, OInv, [Next]_vars PROVE Iterations'
  OBVIOUS
<1> USE DEF Iterations, OInv, invocation, TypeOK, ParentOK, NOptIter
<1>1. ASSUME NEW s, ExitParent(s) PROVE Iterations'
  BY <1>1 DEF ExitParent
<1>2. ASSUME ParentSignalled PROVE Iterations'
  BY <1>1, <1>2 DEF ParentSignalled, KillGroupAndExit
<1>3. CASE Driver
  <2>1. CASE FirstIteration \/ SecondIteration \/ EndIteration
    BY <1>1, <2>1 DEF FirstIteration, BeginTileMode, SecondIteration, EndIteration
  <2>2. CASE SingleTileRead \/ SingleTileWritten
    BY <1>1, <2>2 DEF SingleTileRead, SingleTileWritten
  <2>3. CASE AssembleReads
    BY <1>1, <2>3 DEF AssembleReads
  <2>4. CASE AssembleWritten
    BY <2>4 DEF AssembleWritten, WriteResult
  <2>5. CASE Fork \/ CountChild \/ SkipTile
    BY <2>5 DEF Fork, CountChild, SkipTile, MayFork
  <2>6. ASSUME InWait, LeaveLoopIfZero PROVE Iterations'
    BY <2>6 DEF InWait, LeaveLoopIfZero
  <2>7. CASE WaitNoChild
    BY <1>1, <2>6, <2>7 DEF WaitNoChild, KillGroupAndExit
  <2>8. ASSUME NEW t \in Tiles, Reap(t) \/ ReapAbnormal(t) \/ RemoveTile(t)
        PROVE  Iterations'
    BY <1>1, <2>6, <2>8 DEF Reap, ReapAbnormal, RemoveTile, KillGroupAndExit, parent
  <2>9. CASE SerialSkip \/ SerialUnwrap \/ SerialWritten \/ SerialDone
    BY <2>9 DEF SerialSkip, SerialUnwrap, SerialWritten, SerialDone
  <2>10. CASE ParentGetsTerm
    BY <1>2, <2>10 DEF ParentGetsTerm
  <2> QED
    BY <1>3, <2>1, <2>2, <2>3, <2>4, <2>5, <2>7, <2>8, <2>9, <2>10 DEF Driver
<1>4. ASSUME NEW t \in Tiles, ChildStep(t) \/ ChildFails(t) \/ SignalChild(t)
      PROVE  Iterations'
  BY <1>4, ParentUntouched DEF parent
<1>5. CASE Environment
  BY <1>1, <1>2, <1>4, <1>5, RestartOutcome
     DEF Environment, ForkFails, SignalParent, ParentFails, KillParent
<1>6. CASE UNCHANGED vars
  BY <1>6 DEF vars, parent, files
<1> QED
  BY <1>3, <1>4, <1>5, <1>6 DEF Next

\* Only the end of the last iteration exits normally, and nobody touches the output
\* file once the parent is gone.
LEMMA ExitNext == TypeOK /\ OInv /\ [Next]_vars => NormalExitHasOutput'
<1> SUFFICES ASSUME TypeOK, OInv, [Next]_vars PROVE NormalExitHasOutput'
  OBVIOUS
<1> USE DEF NormalExitHasOutput, OInv, Ended, invocation
<1>1. ASSUME ExitParent("abnormal") PROVE NormalExitHasOutput'
  BY <1>1 DEF ExitParent
<1>2. ASSUME ParentSignalled PROVE NormalExitHasOutput'
  BY <1>1, <1>2 DEF ParentSignalled, KillGroupAndExit
<1>3. ASSUME pc # "dead", UNCHANGED status PROVE NormalExitHasOutput'
  BY <1>3
<1>4. CASE Driver
  <2>1. CASE EndIteration
    BY <2>1 DEF EndIteration, ExitParent, Iterations, TypeOK, ParentOK, NOptIter
  <2>2. CASE FirstIteration \/ SecondIteration
    BY <1>1, <1>3, <2>2 DEF FirstIteration, BeginTileMode, SecondIteration
  <2>3. CASE SingleTileRead \/ SingleTileWritten \/ AssembleReads \/ AssembleWritten
    BY <1>1, <1>3, <2>3 DEF SingleTileRead, SingleTileWritten, AssembleReads,
       AssembleWritten
  <2>4. CASE Fork \/ CountChild \/ SkipTile
    BY <1>3, <2>4 DEF Fork, CountChild, SkipTile, MayFork
  <2>5. ASSUME InWait, LeaveLoopIfZero PROVE NormalExitHasOutput'
    BY <1>3, <2>5 DEF InWait, LeaveLoopIfZero
  <2>6. CASE WaitNoChild
    BY <1>1, <2>5, <2>6 DEF WaitNoChild, KillGroupAndExit
  <2>7. ASSUME NEW t \in Tiles, Reap(t) \/ ReapAbnormal(t) \/ RemoveTile(t)
        PROVE  NormalExitHasOutput'
    BY <1>1, <1>3, <2>5, <2>7 DEF Reap, ReapAbnormal, RemoveTile, KillGroupAndExit, parent
  <2>8. CASE SerialSkip \/ SerialUnwrap \/ SerialWritten \/ SerialDone
    BY <1>3, <2>8 DEF SerialSkip, SerialUnwrap, SerialWritten, SerialDone
  <2>9. CASE ParentGetsTerm
    BY <1>2, <2>9 DEF ParentGetsTerm
  <2> QED
    BY <1>4, <2>1, <2>2, <2>3, <2>4, <2>6, <2>7, <2>8, <2>9 DEF Driver
<1>5. ASSUME NEW t \in Tiles, ChildStep(t) \/ ChildFails(t) \/ SignalChild(t)
      PROVE  NormalExitHasOutput'
  BY <1>5, ParentUntouched DEF parent
<1>6. CASE Environment
  BY <1>1, <1>2, <1>5, <1>6, RestartOutcome
     DEF Environment, ForkFails, SignalParent, ParentFails, KillParent
<1>7. CASE UNCHANGED vars
  BY <1>7 DEF vars, parent, files
<1> QED
  BY <1>4, <1>5, <1>6, <1>7 DEF Next

\* The loops end with every selected tile finished: serial when the cursor is past
\* the last tile, parallel when the last child has been waited for.
LEMMA FinishedNext == TypeOK /\ IInv /\ OInv /\ [Next]_vars => AllFinished'
<1> SUFFICES ASSUME TypeOK, IInv, OInv, [Next]_vars PROVE AllFinished'
  OBVIOUS
<1> USE DEF AllFinished, OInv, invocation
<1>1. ASSUME pc' # "assemble" PROVE AllFinished'
  BY <1>1
<1>2. ASSUME UNCHANGED <<parent, child>> PROVE AllFinished'
  BY <1>2 DEF parent, AbsFinished, AbsSelected, Selected, Before
<1>3. ASSUME NEW s, ExitParent(s) PROVE AllFinished'
  BY <1>1, <1>3 DEF ExitParent
<1>4. CASE FirstIteration /\ pc' = "assemble"
  <2>1. opt.assembleonly /\ opt' = opt /\ child' = child /\ \A t \in Tiles : child[t] = "none"
    BY <1>4, ThreadsOfRun DEF FirstIteration, BeginTileMode, ExitParent, IInv, Fresh
  <2> QED
    BY <2>1 DEF AbsFinished, AbsSelected
<1>5. CASE SerialDone
  <2>1. NThreads = 1 /\ opt' = opt /\ \A t \in Tiles : Before(t)'
    BY <1>5, BeforeFacts DEF SerialDone, Asked, Before
  <2> QED
    BY <2>1 DEF AbsFinished, AbsSelected, Selected
<1>6. ASSUME NEW t \in Tiles, Reap(t), pc' = "assemble" PROVE AllFinished'
  <2>1. /\ pc = "loop" /\ opt' = opt /\ dotilemask' = dotilemask
        /\ child' = [child EXCEPT ![t] = "reaped"]
        /\ nchildren \in -1 .. MaxThreads /\ Decrement(nchildren) = 0
        /\ ~(nchildren < NThreads /\ TilesLeft)
    BY <1>6 DEF Reap, InWait, LeaveLoopIfZero, TypeOK, ParentOK
  <2>2. NThreads > 1 /\ ~opt.assembleonly
    BY <2>1 DEF IInv, Passed, Forking
  <2>3. ~TilesLeft
    BY <2>1, <2>2, ThreadFacts, ThreadsOfRun DEF Decrement
  <2>4. Unreaped' = {}
    BY <1>6, ReapKeepsInv DEF IInv, AssembleAfterTiles
  <2>5. \A u \in Tiles : child'[u] = "reaped" <=> dotilemask[u]
    <3> SUFFICES ASSUME NEW u \in Tiles PROVE child'[u] = "reaped" <=> dotilemask[u]
      OBVIOUS
    <3>1. child[u] # "none" <=> dotilemask[u]
      BY <2>1, <2>3, BeforeFacts DEF IInv, Passed, Forking, TypeOK, ParentOK
    <3>2. (child'[u] # "none") = (child[u] # "none")
      BY <1>6, <2>1 DEF Reap, TypeOK, ChildOK
    <3>3. child'[u] \in {"none", "reaped"}
      BY <2>1, <2>4 DEF Unreaped, TypeOK, ChildOK, ChildStates
    <3> QED
      BY <3>1, <3>2, <3>3
  <2> QED
    BY <2>1, <2>2, <2>5 DEF AbsFinished, AbsSelected, Selected
<1>7. CASE Driver
  <2>1. CASE EndIteration \/ SecondIteration \/ SingleTileRead \/ SingleTileWritten
    BY <1>1, <1>3, <2>1 DEF EndIteration, SecondIteration, SingleTileRead,
       SingleTileWritten
  <2>2. CASE Fork \/ CountChild \/ SkipTile
    BY <1>1, <2>2 DEF Fork, CountChild, SkipTile, MayFork
  <2>3. CASE AssembleReads \/ AssembleWritten
    BY <1>1, <1>3, <2>3 DEF AssembleReads, AssembleWritten
  <2>4. CASE WaitNoChild
    <3>1. CASE KillGroupAndExit
      BY <1>3, <3>1 DEF KillGroupAndExit
    <3>2. CASE LeaveLoopIfZero
      <4>1. nchildren <= 0 /\ pc = "loop"
        BY <2>4, UnreapedFacts DEF WaitNoChild, InWait, IInv, Counted, CountIsExact,
           Forking, TypeOK, ParentOK
      <4>2. nchildren' # 0
        BY <3>2, <4>1 DEF LeaveLoopIfZero, Decrement, TypeOK, ParentOK
      <4> QED
        BY <1>1, <3>2, <4>1, <4>2 DEF LeaveLoopIfZero
    <3> QED
      BY <2>4, <3>1, <3>2 DEF WaitNoChild
  <2>5. ASSUME NEW t \in Tiles, ReapAbnormal(t) \/ RemoveTile(t) PROVE AllFinished'
    BY <1>1, <1>3, <2>5 DEF ReapAbnormal, RemoveTile, KillGroupAndExit, parent
  <2>6. CASE SerialSkip \/ SerialUnwrap \/ SerialWritten
    BY <1>1, <2>6 DEF SerialSkip, SerialUnwrap, SerialWritten
  <2>7. CASE ParentGetsTerm
    BY <1>3, <2>7 DEF ParentGetsTerm, ParentSignalled, KillGroupAndExit
  <2> QED
    BY <1>1, <1>4, <1>5, <1>6, <1>7, <2>1, <2>2, <2>3, <2>4, <2>5, <2>6, <2>7 DEF Driver
<1>8. ASSUME NEW t \in Tiles, ChildStep(t) \/ ChildFails(t) \/ SignalChild(t)
      PROVE  AllFinished'
  <2>1. UNCHANGED parent
    BY <1>8, ParentUntouched
  <2>2. pc = "assemble" => UNCHANGED child
    BY <1>8 DEF ChildStep, ChildCatchesSignals, ChildWrites, ChildHasWritten,
       ChildExits, ChildGetsTerm, ChildFails, SignalChild, Live, Unreaped, IInv,
       AssembleAfterTiles
  <2> QED
    BY <1>1, <1>2, <2>1, <2>2 DEF parent
<1>9. CASE Environment
  BY <1>3, <1>8, <1>9, RestartOutcome
     DEF Environment, ForkFails, SignalParent, ParentFails, KillParent,
         ParentSignalled, KillGroupAndExit
<1>10. CASE UNCHANGED vars
  BY <1>2, <1>10 DEF vars
<1> QED
  BY <1>7, <1>8, <1>9, <1>10 DEF Next

--------------------------------------------------------------------------------
(* What a step may do to the files.                                             *)

\* Only the end of the second iteration gives up the temporary output.
LEMMA TileInitStep ==
  ASSUME TypeOK, OInv, [Next]_vars, NEW p \in Pids,
         tileinit[p] = "new", tileinit'[p] = "absent"
  PROVE  outfile = "new"
<1>0. pid \in Pids /\ tileinit \in [Pids -> FileStates]
  BY DEF TypeOK, ParentOK, FilesOK
<1>1. ASSUME UNCHANGED tileinit PROVE FALSE
  BY <1>1
<1>2. CASE Driver
  <2>1. CASE EndIteration
    BY <1>0, <2>1 DEF EndIteration, OInv, Iterations, TypeOK, ParentOK, NOptIter
  <2>2. CASE AssembleReads \/ AssembleWritten
    BY <1>0, <1>1, <2>2 DEF AssembleReads, AssembleWritten, WriteResult
  <2>3. CASE FirstIteration \/ SecondIteration \/ SingleTileRead \/ SingleTileWritten
    BY <1>1, <2>3 DEF FirstIteration, SecondIteration, SingleTileRead,
       SingleTileWritten, files
  <2>4. CASE Fork \/ CountChild \/ SkipTile \/ WaitNoChild
    BY <1>1, <2>4 DEF Fork, CountChild, SkipTile, WaitNoChild, files
  <2>5. ASSUME NEW t \in Tiles, Reap(t) \/ ReapAbnormal(t) \/ RemoveTile(t) PROVE FALSE
    BY <1>1, <2>5 DEF Reap, ReapAbnormal, RemoveTile, files
  <2>6. CASE SerialSkip \/ SerialUnwrap \/ SerialWritten \/ SerialDone
    BY <1>1, <2>6 DEF SerialSkip, SerialUnwrap, SerialWritten, SerialDone, files
  <2>7. CASE ParentGetsTerm
    BY <1>1, <2>7 DEF ParentGetsTerm, ParentSignalled, files
  <2> QED
    BY <1>2, <2>1, <2>2, <2>3, <2>4, <2>5, <2>6, <2>7 DEF Driver
<1>3. ASSUME NEW t \in Tiles, ChildStep(t) \/ ChildFails(t) \/ SignalChild(t) PROVE FALSE
  BY <1>1, <1>3 DEF ChildStep, ChildCatchesSignals, ChildWrites, ChildHasWritten,
     ChildExits, ChildGetsTerm, ChildFails, SignalChild, files
<1>4. CASE Environment
  <2>1. CASE Restart
    BY <1>0, <2>1 DEF Restart, Age
  <2>2. CASE ForkFails \/ SignalParent \/ ParentFails \/ KillParent
    BY <1>1, <2>2 DEF ForkFails, SignalParent, ParentFails, KillParent,
       ParentSignalled, files
  <2> QED
    BY <1>3, <1>4, <2>1, <2>2 DEF Environment
<1>5. CASE UNCHANGED vars
  BY <1>1, <1>5 DEF vars, files
<1> QED
  BY <1>2, <1>3, <1>4, <1>5 DEF Next

\* A tile's file is written by the process forked for the tile or by the parent in
\* its turn: neither exists for a tile this run was told to skip.
LEMMA SkippedStep ==
  ASSUME TypeOK, IInv, OInv, [Next]_vars, runs' = runs, pc # "assembling",
         NEW t \in Tiles, dotilemask[t] = FALSE \/ opt.assembleonly, NEW n \in Names
  PROVE  tilefile'[n][t] = tilefile[n][t]
<1>0. tilefile \in [Names -> [Tiles -> FileStates]] /\ NameTag \in Names
  BY NameFacts DEF TypeOK, FilesOK
<1>1. ASSUME UNCHANGED tilefile PROVE tilefile'[n][t] = tilefile[n][t]
  BY <1>1
<1>2. ASSUME NEW u \in Tiles, NEW s, SetTile(u, s), u # t
      PROVE  tilefile'[n][t] = tilefile[n][t]
  BY <1>0, <1>2 DEF SetTile
<1>3. CASE Driver
  <2>1. CASE SerialUnwrap
    BY <1>2, <2>1, CursorFacts DEF SerialUnwrap, IInv, SerialPassed
  <2>2. CASE SerialWritten
    BY <1>2, <2>2, CursorFacts DEF SerialWritten, IInv, SerialPassed, OInv, Asked
  <2>3. CASE FirstIteration \/ SecondIteration \/ EndIteration \/ SingleTileRead
             \/ SingleTileWritten
    BY <1>1, <2>3 DEF FirstIteration, SecondIteration, EndIteration, SingleTileRead,
       SingleTileWritten, files
  <2>4. CASE Fork \/ CountChild \/ SkipTile \/ WaitNoChild
    BY <1>1, <2>4 DEF Fork, CountChild, SkipTile, WaitNoChild, files
  <2>5. ASSUME NEW u \in Tiles, Reap(u) \/ ReapAbnormal(u) \/ RemoveTile(u)
        PROVE  UNCHANGED tilefile
    BY <2>5 DEF Reap, ReapAbnormal, RemoveTile, files
  <2>6. CASE SerialSkip \/ SerialDone \/ AssembleReads \/ AssembleWritten
    BY <1>1, <2>6 DEF SerialSkip, SerialDone, AssembleReads, AssembleWritten, files
  <2>7. CASE ParentGetsTerm
    BY <1>1, <2>7 DEF ParentGetsTerm, ParentSignalled, files
  <2> QED
    BY <1>1, <1>3, <2>1, <2>2, <2>3, <2>4, <2>5, <2>6, <2>7 DEF Driver
<1>4. ASSUME NEW u \in Tiles, ChildStep(u) \/ ChildFails(u) \/ SignalChild(u)
      PROVE  tilefile'[n][t] = tilefile[n][t]
  <2>1. CASE ChildWrites(u) \/ ChildHasWritten(u)
    BY <1>2, <2>1 DEF ChildWrites, ChildHasWritten, OInv, Asked
  <2>2. CASE ~(ChildWrites(u) \/ ChildHasWritten(u))
    BY <1>1, <1>4, <2>2 DEF ChildStep, ChildCatchesSignals, ChildExits, ChildGetsTerm,
       ChildFails, SignalChild, files
  <2> QED
    BY <2>1, <2>2
<1>5. CASE Environment
  <2>1. ~Restart
    BY DEF Restart, TypeOK, HistoryOK
  <2>2. CASE ForkFails \/ SignalParent \/ ParentFails \/ KillParent
    BY <1>1, <2>2 DEF ForkFails, SignalParent, ParentFails, KillParent,
       ParentSignalled, files
  <2> QED
    BY <1>4, <1>5, <2>1, <2>2 DEF Environment
<1>6. CASE UNCHANGED vars
  BY <1>1, <1>6 DEF vars, files
<1> QED
  BY <1>3, <1>4, <1>5, <1>6 DEF Next

--------------------------------------------------------------------------------
(* The theorems on exit status and files.                                       *)

\* What the exit status, the masked tiles and the iterations depend on holds in
\* every state, beside the invariant of the fork loop.
THEOREM Outcome == Spec => []OInv
<1>1. Init => OInv
  BY OutcomeInit
<1>2. TypeOK /\ IInv /\ OInv /\ [Next]_vars => OInv'
  <2> SUFFICES ASSUME TypeOK, IInv, OInv, [Next]_vars PROVE OInv'
    OBVIOUS
  <2> QED
    BY EndedNext, AskedNext, IterationsNext, FinishedNext, ExitNext DEF OInv
<1> QED
  BY <1>1, <1>2, Invariance, PTL DEF Spec

\* Exit status 0 means that this run completed the output file.
THEOREM NormalExit == Spec => []NormalExitHasOutput
<1>1. OInv => NormalExitHasOutput
  BY DEF OInv
<1> QED
  BY <1>1, Outcome, PTL

\* -S gives up the tile-mode result only for an output made from it.
THEOREM TileInitKept == Spec => TileInitOutlived
<1>1. TypeOK /\ OInv /\ [Next]_vars =>
        [\A p \in Pids : tileinit[p] = "new" /\ tileinit'[p] = "absent"
                            => outfile = "new"]_vars
  BY TileInitStep
<1> QED
  BY <1>1, Invariance, Outcome, PTL DEF Spec, TileInitOutlived

\* A run changes no tile it was told to skip before it assembles, whatever the
\* processes of the run do and even after their parent is gone.
THEOREM SkippedKept == Spec => SkippedTilesUntouched
<1>1. TypeOK /\ IInv /\ OInv /\ [Next]_vars =>
        [runs' = runs /\ pc # "assembling" =>
           \A t \in Tiles : dotilemask[t] = FALSE \/ opt.assembleonly =>
             \A n \in Names : tilefile'[n][t] = tilefile[n][t]]_vars
  BY SkippedStep
<1> QED
  BY <1>1, Invariance, Outcome, PTL DEF Spec, SkippedTilesUntouched

--------------------------------------------------------------------------------
(* The driver implements TileMode, one group of actions at a time.               *)

InTiles   == pc \in {"loop", "count", "serial", "tile", "assemble"}
               \/ (pc = "iter" /\ optiter = 0)

\* The phases of a run that has not ended, and of one that has.
LEMMA PhaseFacts ==
  ASSUME TypeOK, OInv
  PROVE  /\ InTiles => AbsPhase = "tiles"
         /\ pc # "dead" /\ ~InTiles => AbsPhase = "assembling"
         /\ pc = "dead" => AbsPhase \in {"done", "failed"}
  BY DEF TypeOK, ParentOK, OInv, Ended, AbsPhase, InTiles, PCs

\* The same of the next state, for a step that does not end the run.
LEMMA NextPhase ==
  ASSUME status' = "none"
  PROVE  AbsPhase' = IF InTiles' THEN "tiles" ELSE "assembling"
  BY DEF AbsPhase, InTiles

\* TileMode counts with the operator of its own instance of FiniteSets.
LEMMA SameCardinality == \A S : Promise!Cardinality(S) = Cardinality(S)
  BY DEF Promise!Cardinality, Cardinality

LEMMA FinishedIsSet == AbsFinished \subseteq Tiles /\ AbsSelected \subseteq Tiles
  BY DEF AbsFinished, AbsSelected, Selected

\* A parent that dies abnormally is a run that fails, whatever its children do next.
LEMMA DeathFails ==
  ASSUME TypeOK, OInv, pc # "dead", ExitParent("abnormal"),
         \A t \in Tiles : child'[t] = "reaped" <=> child[t] = "reaped"
  PROVE  Promise!Fail
<1>1. AbsPhase \in {"tiles", "assembling"} /\ AbsPhase' = "failed"
  <2>1. AbsPhase \in {"tiles", "assembling"}
    BY PhaseFacts
  <2>2. AbsPhase' = "failed"
    BY DEF ExitParent, AbsPhase
  <2> QED
    BY <2>1, <2>2
<1>2. UNCHANGED <<opt, dotilemask, nexttilerow, nexttilecol>> /\ pc' = "dead"
  BY DEF ExitParent, invocation
<1>3. AbsWorking' = {} /\ AbsFinished' = AbsFinished /\ AbsSelected' = AbsSelected
  BY <1>2 DEF AbsWorking, AbsFinished, AbsSelected, Selected, Before
<1> QED
  BY <1>1, <1>2, <1>3 DEF Promise!Fail, Promise!End

\* A step that changes nothing TileMode sees.
LEMMA HiddenStep ==
  ASSUME UNCHANGED <<opt, dotilemask, status>>, AbsPhase' = AbsPhase,
         AbsWorking' = AbsWorking, AbsFinished' = AbsFinished
  PROVE  UNCHANGED Promise!vars
  BY DEF Promise!vars, AbsSelected, Selected

\* A step of a child: the process is unreaped before and after it.
LEMMA ChildHidden ==
  ASSUME TypeOK, NEW t \in Tiles, ChildStep(t) \/ ChildFails(t) \/ SignalChild(t)
  PROVE  UNCHANGED Promise!vars
<1>1. UNCHANGED <<opt, dotilemask, status, pc, optiter, nexttilerow, nexttilecol>>
  BY ParentUntouched DEF parent, invocation
<1>2. \A u \in Tiles : /\ child'[u] \in Live \cup Zombie <=> child[u] \in Live \cup Zombie
                       /\ child'[u] = "reaped" <=> child[u] = "reaped"
  BY DEF ChildStep, ChildCatchesSignals, ChildWrites, ChildHasWritten, ChildExits,
     ChildGetsTerm, ChildFails, SignalChild, SetChild, TypeOK, ChildOK, Live, Zombie
<1>3. AbsWorking' = AbsWorking
  BY <1>1, <1>2 DEF AbsWorking, Unreaped, ThisTile
<1>4. AbsFinished' = AbsFinished
  BY <1>1, <1>2 DEF AbsFinished, AbsSelected, Selected, Before
<1> QED
  BY <1>1, <1>3, <1>4, HiddenStep DEF AbsPhase

\* Alone and past the loops, the parent has no worker and what is finished stays so.
LEMMA AloneHidden ==
  ASSUME TypeOK, IInv, OInv, pc \notin {"loop", "count", "tile", "dead"},
         pc' \notin {"tile", "dead"},
         UNCHANGED <<opt, dotilemask, status, child, nexttilerow, nexttilecol>>
  PROVE  /\ AbsWorking = {} /\ AbsWorking' = {} /\ AbsFinished' = AbsFinished
         /\ AbsSelected' = AbsSelected /\ status' = "none"
<1>1. Unreaped = {} /\ Unreaped' = {} /\ status' = "none"
  BY DEF IInv, NoChildElsewhere, Unreaped, OInv, Ended
<1> QED
  BY <1>1 DEF AbsWorking, AbsFinished, AbsSelected, Selected, Before

LEMMA AloneImplements ==
  ASSUME TypeOK, IInv, OInv,
         \/ FirstIteration \/ SecondIteration \/ SingleTileRead \/ SingleTileWritten
         \/ SerialDone \/ AssembleReads \/ AssembleWritten
         \/ \E t \in Tiles : RemoveTile(t)
  PROVE  Promise!Fail \/ Promise!Assemble \/ UNCHANGED Promise!vars
<1> USE DEF invocation
<1>1. ASSUME ExitParent("abnormal"), pc # "dead", UNCHANGED child PROVE Promise!Fail
  BY <1>1, DeathFails
<1>2. ASSUME pc \notin {"loop", "count", "tile", "dead"}, pc' \notin {"tile", "dead"},
             UNCHANGED <<opt, dotilemask, status, child, nexttilerow, nexttilecol>>,
             InTiles' = InTiles
      PROVE  UNCHANGED Promise!vars
  BY <1>2, AloneHidden, PhaseFacts, NextPhase, HiddenStep
<1>3. CASE FirstIteration
  BY <1>1, <1>2, <1>3 DEF FirstIteration, BeginTileMode, InTiles
<1>4. CASE SecondIteration \/ SingleTileRead \/ SingleTileWritten
  BY <1>1, <1>2, <1>4
     DEF SecondIteration, SingleTileRead, SingleTileWritten, InTiles
<1>5. CASE SerialDone \/ AssembleWritten \/ \E t \in Tiles : RemoveTile(t)
  BY <1>2, <1>5 DEF SerialDone, AssembleWritten, RemoveTile, parent, InTiles
<1>6. CASE AssembleReads
  <2>1. CASE ExitParent("abnormal")
    BY <1>1, <1>6, <2>1 DEF AssembleReads
  <2>2. CASE ~ExitParent("abnormal")
    <3>1. /\ pc = "assemble" /\ pc' = "assembling"
          /\ UNCHANGED <<opt, dotilemask, status, child, nexttilerow, nexttilecol>>
      BY <1>6, <2>2 DEF AssembleReads
    <3>2. /\ AbsWorking = {} /\ AbsWorking' = {} /\ AbsFinished' = AbsFinished
          /\ AbsSelected' = AbsSelected /\ status' = "none"
      BY <3>1, AloneHidden
    <3>3. AbsPhase = "tiles" /\ AbsPhase' = "assembling"
      BY <3>1, <3>2, PhaseFacts, NextPhase DEF InTiles
    <3>4. AbsFinished = AbsSelected
      BY <3>1 DEF OInv, AllFinished
    <3> QED
      BY <3>1, <3>2, <3>3, <3>4 DEF Promise!Assemble
  <2> QED
    BY <2>1, <2>2
<1> QED
  BY <1>3, <1>4, <1>5, <1>6

\* The end of the last iteration is success; the end of the first one, with a second
\* to come, changes nothing TileMode sees.
LEMMA EndImplements ==
  ASSUME TypeOK, IInv, OInv, EndIteration
  PROVE  Promise!Succeed \/ UNCHANGED Promise!vars
<1>1. AbsPhase = "assembling" /\ pc = "iterend" /\ UNCHANGED child
  BY PhaseFacts DEF EndIteration, InTiles
<1>2. CASE ExitParent("ok")
  <2>1. /\ UNCHANGED <<opt, dotilemask, nexttilerow, nexttilecol>> /\ pc' = "dead"
        /\ AbsPhase' = "done"
    BY <1>2 DEF ExitParent, invocation, AbsPhase
  <2>2. AbsWorking' = {} /\ AbsFinished' = AbsFinished /\ AbsSelected' = AbsSelected
    BY <1>1, <2>1 DEF AbsWorking, AbsFinished, AbsSelected, Selected, Before
  <2> QED
    BY <1>1, <2>1, <2>2 DEF Promise!Succeed, Promise!End
<1>3. CASE ~ExitParent("ok")
  <2>1. /\ pc' = "iter" /\ optiter' = optiter + 1
        /\ UNCHANGED <<opt, dotilemask, status, child, nexttilerow, nexttilecol>>
    BY <1>3 DEF EndIteration, invocation
  <2>2. ~InTiles'
    BY <2>1 DEF InTiles, TypeOK, ParentOK
  <2> QED
    BY <1>1, <2>1, <2>2, AloneHidden, NextPhase, HiddenStep
<1> QED
  BY <1>2, <1>3

\* The parent unwraps a tile itself: it is the only worker while it does.
LEMMA SerialImplements ==
  ASSUME TypeOK, IInv, OInv, SerialSkip \/ SerialUnwrap \/ SerialWritten
  PROVE  \/ \E t \in Tiles : Promise!Begin(t) \/ Promise!Finish(t)
         \/ UNCHANGED Promise!vars
<1>1. /\ pc \in {"serial", "tile"} /\ NThreads = 1 /\ ~opt.assembleonly /\ status = "none"
      /\ AbsPhase = "tiles" /\ TilesLeft /\ ThisTile \in Tiles /\ Unreaped = {}
      /\ dotilemask \in [Tiles -> BOOLEAN]
  BY PhaseFacts, CursorFacts
     DEF SerialSkip, SerialUnwrap, SerialWritten, IInv, SerialPassed, NoChildElsewhere,
         OInv, Asked, Ended, InTiles, TypeOK, ParentOK
<1>2. /\ UNCHANGED <<opt, dotilemask, status, child>> /\ pc' \in {"serial", "tile"}
      /\ AbsPhase' = "tiles" /\ Unreaped' = {} /\ AbsSelected' = AbsSelected
  <2>1. UNCHANGED <<opt, dotilemask, status, child>> /\ pc' \in {"serial", "tile"}
    BY DEF SerialSkip, SerialUnwrap, SerialWritten, invocation
  <2> QED
    BY <1>1, <2>1, NextPhase DEF InTiles, Unreaped, AbsSelected, Selected
<1>3. ~Before(ThisTile)
  BY <1>1, BeforeFacts
<1>4. CASE SerialSkip
  <2>1. \A t \in Tiles : Before(t)' <=> Before(t) \/ t = ThisTile
    BY <1>1, <1>4, AdvanceFacts DEF SerialSkip
  <2>2. AbsFinished' = AbsFinished
    BY <1>1, <1>2, <1>4, <2>1 DEF SerialSkip, AbsFinished, AbsSelected, Selected
  <2>3. AbsWorking' = AbsWorking
    BY <1>1, <1>2, <1>4 DEF SerialSkip, AbsWorking
  <2> QED
    BY <1>1, <1>2, <2>2, <2>3, HiddenStep
<1>5. CASE SerialUnwrap
  <2>1. AbsWorking = {} /\ AbsWorking' = {ThisTile}
    BY <1>1, <1>2, <1>5 DEF SerialUnwrap, AbsWorking, ThisTile
  <2>2. AbsFinished' = AbsFinished /\ ThisTile \notin AbsFinished
    BY <1>1, <1>2, <1>3, <1>5
       DEF SerialUnwrap, AbsFinished, AbsSelected, Selected, Before
  <2>3. ThisTile \in AbsSelected
    BY <1>1, <1>5 DEF SerialUnwrap, AbsSelected, Selected
  <2>4. Promise!Begin(ThisTile)
    BY <1>1, <1>2, <2>1, <2>2, <2>3, UnreapedFacts, SameCardinality DEF Promise!Begin
  <2> QED
    BY <1>1, <2>4
<1>6. CASE SerialWritten
  <2>1. AbsWorking = {ThisTile} /\ AbsWorking' = {}
    BY <1>1, <1>2, <1>6 DEF SerialWritten, AbsWorking
  <2>2. \A t \in Tiles : Before(t)' <=> Before(t) \/ t = ThisTile
    BY <1>1, <1>6, AdvanceFacts DEF SerialWritten
  <2>3. dotilemask[ThisTile]
    BY <1>6 DEF SerialWritten, OInv, Asked
  <2>4. AbsFinished' = AbsFinished \cup {ThisTile}
    BY <1>1, <1>2, <2>2, <2>3 DEF AbsFinished, AbsSelected, Selected
  <2>5. Promise!Finish(ThisTile)
    BY <1>1, <1>2, <2>1, <2>4 DEF Promise!Finish
  <2> QED
    BY <1>1, <2>5
<1> QED
  BY <1>4, <1>5, <1>6

\* fork() begins a tile that nobody began before, on a free worker.
LEMMA ForkImplements ==
  ASSUME TypeOK, IInv, OInv, Fork
  PROVE  \E t \in Tiles : Promise!Begin(t)
<1>1. /\ pc = "loop" /\ pc' = "count" /\ nchildren < NThreads /\ TilesLeft
      /\ dotilemask[ThisTile] /\ ThisTile \in Tiles
      /\ child' = [child EXCEPT ![ThisTile] = "born"]
      /\ UNCHANGED <<opt, dotilemask, status>>
  BY CursorFacts DEF Fork, MayFork, invocation
<1>2. /\ child[ThisTile] = "none" /\ NThreads > 1 /\ ~opt.assembleonly /\ status = "none"
  BY <1>1, BeforeFacts DEF IInv, Passed, Forking, OInv, Ended
<1>3. Cardinality(Unreaped) < NThreads
  BY <1>1, ThreadsOfRun, UnreapedFacts
     DEF IInv, Counted, CountIsExact, Forking, TypeOK, ParentOK
<1>4. Unreaped' = Unreaped \cup {ThisTile} /\ ThisTile \notin Unreaped
  BY <1>1, <1>2 DEF Unreaped, Live, Zombie, TypeOK, ChildOK
<1>5. AbsPhase = "tiles" /\ AbsPhase' = "tiles"
  BY <1>1, <1>2, PhaseFacts, NextPhase DEF InTiles
<1>6. AbsWorking = Unreaped /\ AbsWorking' = Unreaped \cup {ThisTile}
  BY <1>1, <1>4 DEF AbsWorking
<1>7. /\ AbsFinished' = AbsFinished /\ ThisTile \notin AbsFinished
      /\ AbsSelected' = AbsSelected /\ ThisTile \in AbsSelected
  BY <1>1, <1>2, ThreadsOfRun
     DEF AbsFinished, AbsSelected, Selected, TypeOK, ChildOK
<1>8. Promise!Begin(ThisTile)
  BY <1>1, <1>3, <1>4, <1>5, <1>6, <1>7, SameCardinality DEF Promise!Begin
<1> QED
  BY <1>1, <1>8

\* wait() returning a child that exited normally finishes that child's tile.
LEMMA ReapImplements ==
  ASSUME TypeOK, IInv, OInv, NEW t \in Tiles, Reap(t)
  PROVE  Promise!Finish(t)
<1>1. /\ pc = "loop" /\ pc' \in {"loop", "assemble"} /\ child[t] = "ok"
      /\ child' = [child EXCEPT ![t] = "reaped"]
      /\ UNCHANGED <<opt, dotilemask, status>>
  BY DEF Reap, InWait, LeaveLoopIfZero, invocation
<1>2. NThreads > 1 /\ status = "none"
  BY <1>1 DEF IInv, Passed, Forking, OInv, Ended
<1>3. t \in Unreaped /\ Unreaped' = Unreaped \ {t}
  BY <1>1 DEF Unreaped, Live, Zombie, TypeOK, ChildOK
<1>4. AbsPhase = "tiles" /\ AbsPhase' = "tiles"
  BY <1>1, <1>2, PhaseFacts, NextPhase DEF InTiles
<1>5. AbsWorking = Unreaped /\ AbsWorking' = Unreaped'
  BY <1>1 DEF AbsWorking
<1>6. AbsFinished' = AbsFinished \cup {t} /\ AbsSelected' = AbsSelected
  BY <1>1, <1>2, ThreadsOfRun DEF AbsFinished, AbsSelected, Selected, TypeOK, ChildOK
<1> QED
  BY <1>1, <1>3, <1>4, <1>5, <1>6 DEF Promise!Finish

\* The other steps of the fork loop change nothing TileMode sees, unless the parent
\* gives up.
LEMMA LoopImplements ==
  ASSUME TypeOK, IInv, OInv, CountChild \/ SkipTile \/ WaitNoChild
  PROVE  Promise!Fail \/ UNCHANGED Promise!vars
<1>1. /\ pc \in {"loop", "count"} /\ UNCHANGED child /\ status = "none" /\ NThreads > 1
      /\ AbsPhase = "tiles"
  BY PhaseFacts DEF CountChild, SkipTile, WaitNoChild, MayFork, InWait, OInv, Ended,
     IInv, Passed, Forking, InTiles
<1>2. CASE pc' \in {"loop", "count", "assemble"} /\ UNCHANGED <<opt, dotilemask, status>>
  <2>1. AbsPhase' = "tiles" /\ AbsFinished' = AbsFinished
    BY <1>1, <1>2, NextPhase, ThreadsOfRun DEF InTiles, AbsFinished
  <2>2. AbsWorking' = AbsWorking
    BY <1>1, <1>2 DEF AbsWorking, Unreaped
  <2> QED
    BY <1>1, <1>2, <2>1, <2>2, HiddenStep
<1>3. CASE WaitNoChild /\ KillGroupAndExit
  BY <1>1, <1>3, DeathFails DEF KillGroupAndExit
<1> QED
  BY <1>1, <1>2, <1>3
     DEF CountChild, SkipTile, MayFork, WaitNoChild, LeaveLoopIfZero, invocation

LEMMA RestartImplements ==
  ASSUME TypeOK, OInv, TypeOK', Restart
  PROVE  Promise!NewRun
<1>1. AbsPhase \in {"done", "failed"}
  BY PhaseFacts DEF Restart
<1>2. AbsPhase' = "tiles" /\ AbsWorking' = {} /\ AbsFinished' = {}
  <2>1. /\ pc' = "iter" /\ optiter' = 0 /\ status' = "none"
        /\ nexttilerow' = 0 /\ nexttilecol' = 0 /\ \A t \in Tiles : child'[t] = "none"
    BY DEF Restart
  <2>2. \A t \in Tiles : ~Before(t)'
    BY <2>1, GridFacts DEF Before, Rows, Cols
  <2> QED
    BY <2>1, <2>2, NextPhase
       DEF InTiles, AbsWorking, Unreaped, Live, Zombie, AbsFinished, AbsSelected, Selected
<1>3. opt'.nthreads \in Nat
  BY ThreadFacts DEF TypeOK, ParentOK
<1>4. AbsSelected' \in SUBSET Tiles
  BY DEF AbsSelected, Selected
<1> QED
  BY <1>1, <1>2, <1>3, <1>4 DEF Promise!NewRun, Promise!Start

LEMMA InitImplements == Init => Promise!Init
<1> SUFFICES ASSUME Init PROVE Promise!Init
  OBVIOUS
<1>1. AbsPhase = "tiles" /\ AbsWorking = {} /\ AbsFinished = {}
  <2>1. \A t \in Tiles : ~Before(t)
    BY GridFacts DEF Init, Before, Rows, Cols
  <2> QED
    BY <2>1 DEF Init, AbsPhase, AbsWorking, Unreaped, Live, Zombie, AbsFinished,
       AbsSelected, Selected
<1>2. NThreads \in Nat /\ AbsSelected \in SUBSET Tiles
  BY TypeInit, ThreadsOfRun, FinishedIsSet
<1> QED
  BY <1>1, <1>2 DEF Promise!Init, Promise!Start

LEMMA StepImplements ==
  TypeOK /\ IInv /\ OInv /\ TypeOK' /\ [Next]_vars => [Promise!Next]_Promise!vars
<1> SUFFICES ASSUME TypeOK, IInv, OInv, TypeOK', [Next]_vars
             PROVE  Promise!Next \/ UNCHANGED Promise!vars
  OBVIOUS
<1> USE DEF Promise!Next
<1>1. CASE Driver
  <2>1. ASSUME ParentGetsTerm \/ \E t \in Tiles : ReapAbnormal(t) PROVE Promise!Next
    BY <2>1, DeathFails DEF ParentGetsTerm, ParentSignalled, KillGroupAndExit,
       ReapAbnormal, InWait
  <2> QED
    BY <1>1, <2>1, AloneImplements, EndImplements, SerialImplements, ForkImplements,
       ReapImplements, LoopImplements DEF Driver
<1>2. CASE \E t \in Tiles : ChildStep(t)
  BY <1>2, ChildHidden
<1>3. CASE Environment
  <2>1. CASE ForkFails
    BY <2>1, DeathFails DEF ForkFails, MayFork, Live, TypeOK, ChildOK
  <2>2. CASE SignalParent \/ ParentFails \/ KillParent
    BY <2>2, DeathFails DEF SignalParent, ParentSignalled, KillGroupAndExit,
       ParentFails, KillParent
  <2> QED
    BY <1>3, <2>1, <2>2, ChildHidden, RestartImplements DEF Environment
<1>4. CASE UNCHANGED vars
  <2>1. UNCHANGED <<opt, dotilemask, status, pc, optiter, nexttilerow, nexttilecol, child>>
    BY <1>4 DEF vars, parent
  <2>2. /\ AbsPhase' = AbsPhase /\ AbsWorking' = AbsWorking /\ AbsFinished' = AbsFinished
    BY <2>1 DEF AbsPhase, AbsWorking, Unreaped, ThisTile, AbsFinished, AbsSelected,
       Selected, Before
  <2> QED
    BY <2>1, <2>2, HiddenStep
<1> QED
  BY <1>1, <1>2, <1>3, <1>4 DEF Next

\* Unwrap, parallel, serial or assemble-only, under every interleaving with its
\* children and with signals, is an implementation of TileMode: each selected tile
\* is unwrapped once, by at most --nproc workers, the result is assembled from all
\* of them, and a run that does not succeed fails.
THEOREM Implementation == Spec => ImplementsTileMode
<1>1. Init => Promise!Init
  BY InitImplements
<1>2. TypeOK /\ IInv /\ OInv /\ TypeOK' /\ [Next]_vars => [Promise!Next]_Promise!vars
  BY StepImplements
<1> QED
  BY <1>1, <1>2, Invariance, Outcome, PTL DEF Spec, ImplementsTileMode, Promise!Spec

================================================================================
