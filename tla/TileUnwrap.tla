------------------------------ MODULE TileUnwrap ------------------------------
(***************************************************************************)
(* snaphu's driver: Unwrap() of snaphu.c with the signal handlers of       *)
(* snaphu_util.c.  An invocation cuts the interferogram into tiles, forks  *)
(* at most NThreads child processes (one per tile; with --nproc 1 it       *)
(* unwraps the tiles itself, in order), waits for them, assembles the tile *)
(* files and, with -S, re-optimizes the assembled result as one tile.      *)
(*                                                                         *)
(* A file is "absent", "partial" (opened for writing, not yet complete),   *)
(* "new" (completed by this invocation) or "old" (completed by an earlier  *)
(* one).  The parent's process id is the only part of a file's name that   *)
(* matters: -S puts it in the names of the tile files, through the name of *)
(* the temporary output they are derived from.                             *)
(***************************************************************************)
EXTENDS Integers, FiniteSets

CONSTANTS
  NTileRow, NTileCol,   \* the tile grid (--tile)
  MaxThreads,           \* bound: --nproc
  Masks,                \* the tile masks an invocation may be given
  Options,              \* the command lines an invocation may be given
  Pids,                 \* process ids of the parent
  MaxRuns, MaxFaults,   \* bounds: invocations, and faults in all of them
  Uncatchable           \* may the parent get a signal it cannot catch?

Rows  == 0 .. NTileRow - 1
Cols  == 0 .. NTileCol - 1
Tiles == Rows \X Cols

\* -k clears both rmtmptile and rmtileinit.
OptionSets == [assembleonly : BOOLEAN, onetilereopt : BOOLEAN, keep : BOOLEAN,
               nthreads : 1 .. MaxThreads]

ASSUME GridAssumption == 
  /\ NTileRow \in Nat \ {0} 
  /\ NTileCol \in Nat \ {0}
ASSUME ThreadsAssumption == MaxThreads \in Nat \ {0}
ASSUME MaskAssumption    == Masks \subseteq [Tiles -> BOOLEAN] /\ Masks # {}
ASSUME OptionAssumption  == Options \subseteq OptionSets /\ Options # {}
ASSUME PidAssumption     == Pids \subseteq Nat \ {0} /\ Pids # {}
ASSUME BoundAssumption   == MaxRuns \in Nat \ {0} /\ MaxFaults \in Nat /\ Uncatchable \in BOOLEAN

Parent == <<-1, -1>>             \* no tile
Procs  == Tiles \cup {Parent}
Names  == Pids \cup {0}          \* what a tile file's name says of its run

FileStates  == {"absent", "partial", "old", "new"}
Live        == {"born", "running", "writing", "written"}
Zombie      == {"ok", "bad"}
ChildStates == {"none"} \cup Live \cup Zombie \cup {"reaped"}
PCs == {"iter", "loop", "count", "serial", "tile", "assemble", "assembling",
        "single", "singlewrite", "iterend", "dead"}

VARIABLES
  pid, opt, dotilemask,      \* this invocation: process id, options, tile mask
  pc, optiter,               \* where the parent is
  nexttilerow, nexttilecol, nchildren,
  trap,                      \* the parent's handler: "kill" = KillChildrenExit
  status,                    \* exit status: "none", "ok", "abnormal"
  child,                     \* [Tiles -> the process forked for that tile]
  term,                      \* processes with a SIGTERM pending
  tilefile,                  \* the tile directory, by name and tile
  tileinit,                  \* [Pids -> the temporary output of -S]
  outfile,                   \* the output file
  runs, faults               \* invocations begun, faults so far

parent  == <<pid, opt, dotilemask, pc, optiter, nexttilerow, nexttilecol,
             nchildren, trap, status>>
invocation == <<pid, opt, dotilemask>>
files   == <<tilefile, tileinit, outfile>>
history == <<runs, faults>>
vars    == <<parent, child, term, files, history>>

--------------------------------------------------------------------------------
NThreads    == opt.nthreads       \* --nproc
Selected    == {t \in Tiles : dotilemask[t]}
LiveKids    == {t \in Tiles : child[t] \in Live}
Unreaped    == {t \in Tiles : child[t] \in Live \cup Zombie}
ThisTile    == <<nexttilerow, nexttilecol>>
TilesLeft   == nexttilerow < NTileRow
\* Mutant of NOptIter: -S does not bring about the second iteration.
OneIteration == 1

NOptIter    == IF opt.onetilereopt THEN 2 ELSE 1

\* CheckParams clears rmtmptile in assemble-only mode.
RmTmpTile   == ~opt.keep /\ ~opt.assembleonly
RmTileInit  == ~opt.keep

\* SetupTile derives the names of the tile files from the output file's name,
\* which SetTileInitOutfile has replaced by one with the process id under -S.
NameTag     == IF opt.onetilereopt THEN pid ELSE 0
TileFile(t) == tilefile[NameTag][t]
Whole       == {"old", "new"}

ParentOK ==
  /\ pid \in Pids /\ opt \in OptionSets /\ dotilemask \in [Tiles -> BOOLEAN]
  /\ pc \in PCs /\ optiter \in 0 .. 1
  /\ nexttilerow \in 0 .. NTileRow /\ nexttilecol \in Cols
  /\ nchildren \in -1 .. MaxThreads
  /\ trap \in {"dfl", "kill"} /\ status \in {"none", "ok", "abnormal"}
ChildOK ==
  child \in [Tiles -> ChildStates] /\ term \subseteq Procs
FilesOK ==
  /\ tilefile \in [Names -> [Tiles -> FileStates]]
  /\ tileinit \in [Pids -> FileStates] /\ outfile \in FileStates
HistoryOK ==
  runs \in 1 .. MaxRuns /\ faults \in 0 .. MaxFaults

TypeOK == ParentOK /\ ChildOK /\ FilesOK /\ HistoryOK

--------------------------------------------------------------------------------
Init ==
  /\ pid \in Pids /\ opt \in Options /\ dotilemask \in Masks
  /\ pc = "iter" /\ optiter = 0
  /\ nexttilerow = 0 /\ nexttilecol = 0 /\ nchildren = 0
  /\ trap = "dfl" /\ status = "none"
  /\ child = [t \in Tiles |-> "none"] /\ term = {}
  /\ tilefile = [n \in Names |-> [t \in Tiles |-> "absent"]]
  /\ tileinit = [p \in Pids |-> "absent"] /\ outfile = "absent"
  /\ runs = 1 /\ faults = 0

Age(s) == IF s = "new" THEN "old" ELSE s

\* A later invocation, of any parent process id, on the files the last one left.
\* It starts once the processes of the last one are gone.
Restart ==
  /\ pc = "dead" /\ LiveKids = {} /\ runs < MaxRuns
  /\ pid' \in Pids /\ opt' \in Options /\ dotilemask' \in Masks
  /\ pc' = "iter" /\ optiter' = 0
  /\ nexttilerow' = 0 /\ nexttilecol' = 0 /\ nchildren' = 0
  /\ trap' = "dfl" /\ status' = "none"
  /\ child' = [t \in Tiles |-> "none"] /\ term' = {}
  /\ tilefile' = [n \in Names |-> [t \in Tiles |-> Age(tilefile[n][t])]]
  /\ tileinit' = [p \in Pids |-> Age(tileinit[p])] /\ outfile' = Age(outfile)
  /\ runs' = runs + 1 /\ UNCHANGED faults

\* exit(): the parent is gone; its children, if any, live on.
ExitParent(s) ==
  /\ pc' = "dead" /\ status' = s
  /\ UNCHANGED <<invocation, optiter, nexttilerow, nexttilecol, nchildren, trap>>

\* Mutant of KillGroupAndExit: the parent exits without kill(0,SIGTERM).
ExitWithoutKill == ExitParent("abnormal") /\ UNCHANGED term

\* KillChildrenExit, and the same three calls in the wait branch:
\* ignore SIGTERM, kill(0,SIGTERM), exit.
KillGroupAndExit ==
  /\ ExitParent("abnormal")
  /\ term' = LiveKids

Fault == faults < MaxFaults /\ faults' = faults + 1 /\ UNCHANGED runs

--------------------------------------------------------------------------------
(* The optiter loop.                                                            *)

BeginTileMode ==
  /\ pc' = IF opt.assembleonly THEN "assemble"
           ELSE IF NThreads > 1 THEN "loop" ELSE "serial"
  /\ trap' = IF NThreads > 1 /\ ~opt.assembleonly THEN "kill" ELSE "dfl"
  /\ UNCHANGED <<invocation, optiter, nexttilerow, nexttilecol, nchildren, status>>

\* optiter = 0; under -S, SetTileInitOutfile refuses a file that exists.
FirstIteration ==
  /\ pc = "iter" /\ optiter = 0
  /\ IF opt.onetilereopt /\ tileinit[pid] # "absent"
       THEN ExitParent("abnormal")
       ELSE BeginTileMode
  /\ UNCHANGED <<child, term, files, history>>

SecondIteration ==
  /\ pc = "iter" /\ optiter = 1
  /\ pc' = "single"
  /\ UNCHANGED <<invocation, optiter, nexttilerow, nexttilecol, nchildren, trap,
                 status, child, term, files, history>>

\* The single tile reads the tile-mode result and starts to write the output.
SingleTileRead ==
  /\ pc = "single"
  /\ IF tileinit[pid] \in Whole
       THEN /\ pc' = "singlewrite" /\ outfile' = "partial"
            /\ UNCHANGED <<invocation, optiter, nexttilerow, nexttilecol,
                           nchildren, trap, status>>
       ELSE ExitParent("abnormal") /\ UNCHANGED outfile
  /\ UNCHANGED <<child, term, tilefile, tileinit, history>>

SingleTileWritten ==
  /\ pc = "singlewrite"
  /\ pc' = "iterend" /\ outfile' = "new"
  /\ UNCHANGED <<invocation, optiter, nexttilerow, nexttilecol, nchildren, trap,
                 status, child, term, tilefile, tileinit, history>>

\* Mutant of EndIteration: the temporary file is removed after either iteration.
EndIterationRemovesInit ==
  /\ pc = "iterend"
  /\ tileinit' = IF RmTileInit THEN [tileinit EXCEPT ![pid] = "absent"] ELSE tileinit
  /\ IF optiter + 1 < NOptIter
       THEN /\ pc' = "iter" /\ optiter' = optiter + 1
            /\ UNCHANGED <<invocation, nexttilerow, nexttilecol, nchildren, trap,
                           status>>
       ELSE ExitParent("ok")
  /\ UNCHANGED <<child, term, tilefile, outfile, history>>

EndIteration ==
  /\ pc = "iterend"
  /\ tileinit' = IF RmTileInit /\ optiter > 0
                   THEN [tileinit EXCEPT ![pid] = "absent"] ELSE tileinit
  /\ IF optiter + 1 < NOptIter
       THEN /\ pc' = "iter" /\ optiter' = optiter + 1
            /\ UNCHANGED <<invocation, nexttilerow, nexttilecol, nchildren, trap,
                           status>>
       ELSE ExitParent("ok")
  /\ UNCHANGED <<child, term, tilefile, outfile, history>>

--------------------------------------------------------------------------------
(* The parallel loop.                                                           *)

\* Mutant of AdvanceTile: the column is not reset at the end of a row.
AdvanceWithoutReset ==
  /\ nexttilecol' = nexttilecol + 1
  /\ nexttilerow' = IF nexttilecol + 1 = NTileCol THEN nexttilerow + 1 ELSE nexttilerow

AdvanceTile ==
  IF nexttilecol + 1 = NTileCol
    THEN nexttilecol' = 0 /\ nexttilerow' = nexttilerow + 1
    ELSE nexttilecol' = nexttilecol + 1 /\ UNCHANGED nexttilerow

\* Mutant of MayFork: <= for <.
MayForkOneMore == pc = "loop" /\ nchildren <= NThreads /\ TilesLeft

MayFork == pc = "loop" /\ nchildren < NThreads /\ TilesLeft

\* Mutant of Fork: the tile mask is not consulted.
ForkUnmasked ==
  /\ MayFork
  /\ child' = [child EXCEPT ![ThisTile] = "born"]
  /\ pc' = "count"
  /\ UNCHANGED <<invocation, optiter, nexttilerow, nexttilecol, nchildren, trap,
                 status, term, files, history>>

Fork ==
  /\ MayFork /\ dotilemask[ThisTile]
  /\ child' = [child EXCEPT ![ThisTile] = "born"]
  /\ pc' = "count"
  /\ UNCHANGED <<invocation, optiter, nexttilerow, nexttilecol, nchildren, trap,
                 status, term, files, history>>

\* fork() fails: kill(0,SIGKILL) takes the whole group, the parent with it.
ForkFails ==
  /\ MayFork /\ dotilemask[ThisTile]
  /\ ExitParent("abnormal")
  /\ child' = [t \in Tiles |-> IF child[t] \in Live THEN "bad" ELSE child[t]]
  /\ Fault
  /\ UNCHANGED <<term, files>>

\* "parent executes this code after fork".
CountChild ==
  /\ pc = "count"
  /\ AdvanceTile
  /\ nchildren' = nchildren + 1 /\ pc' = "loop"
  /\ UNCHANGED <<invocation, optiter, trap, status, child, term, files, history>>

\* Mutant of SkipTile: a tile that was not forked is counted as a child.
SkipTileCounted ==
  /\ MayFork /\ ~dotilemask[ThisTile]
  /\ AdvanceTile /\ nchildren' = nchildren + 1
  /\ UNCHANGED <<invocation, pc, optiter, trap, status, child, term, files, history>>

SkipTile ==
  /\ MayFork /\ ~dotilemask[ThisTile]
  /\ AdvanceTile
  /\ UNCHANGED <<invocation, pc, optiter, nchildren, trap, status, child, term,
                 files, history>>

InWait == pc = "loop" /\ ~(nchildren < NThreads /\ TilesLeft)

\* The counter is tested only against 0, so every negative value is -1.
Decrement(n) == IF n < 0 THEN n ELSE n - 1

\* Mutants of LeaveLoopIfZero: the loop is left with the last tile, not with the
\* last child ...
LeaveLoopAtLastTile ==
  /\ nchildren' = Decrement(nchildren)
  /\ IF ~TilesLeft THEN pc' = "assemble" /\ trap' = "dfl" ELSE UNCHANGED <<pc, trap>>
  /\ UNCHANGED <<invocation, optiter, nexttilerow, nexttilecol, status>>

\* ... or the counter is compared before it is decremented.
LeaveLoopIfOne ==
  /\ nchildren' = Decrement(nchildren)
  /\ IF nchildren' = 1 THEN pc' = "assemble" /\ trap' = "dfl" ELSE UNCHANGED <<pc, trap>>
  /\ UNCHANGED <<invocation, optiter, nexttilerow, nexttilecol, status>>

LeaveLoopIfZero ==
  /\ nchildren' = Decrement(nchildren)
  /\ IF nchildren' = 0 THEN pc' = "assemble" /\ trap' = "dfl"
                       ELSE UNCHANGED <<pc, trap>>
  /\ UNCHANGED <<invocation, optiter, nexttilerow, nexttilecol, status>>

Reap(t) ==
  /\ InWait /\ child[t] = "ok"
  /\ child' = [child EXCEPT ![t] = "reaped"]
  /\ LeaveLoopIfZero
  /\ UNCHANGED <<term, files, history>>

ReapAbnormal(t) ==
  /\ InWait /\ child[t] = "bad"
  /\ KillGroupAndExit
  /\ UNCHANGED <<child, files, history>>

\* With no child at all wait() returns -1 and leaves childstatus as it was: not
\* initialized, so the first test may go either way; after a clean one the value
\* stays what it was.
WaitNoChild ==
  /\ InWait /\ Unreaped = {}
  /\ \/ LeaveLoopIfZero /\ UNCHANGED term
     \/ nchildren = 0 /\ KillGroupAndExit
  /\ UNCHANGED <<child, files, history>>

--------------------------------------------------------------------------------
(* The child processes.  A child carries the parent's handler from fork() to    *)
(* its own CatchSignals(SignalExit).                                            *)

SetChild(t, s) == child' = [child EXCEPT ![t] = s]
SetTile(t, s)  == tilefile' = [tilefile EXCEPT ![NameTag][t] = s]

ChildCatchesSignals(t) ==
  /\ child[t] = "born" /\ SetChild(t, "running")
  /\ UNCHANGED <<parent, term, files, history>>

\* UnwrapTile in the child: its files are truncated, filled and closed.
ChildWrites(t) ==
  /\ child[t] = "running" /\ SetChild(t, "writing") /\ SetTile(t, "partial")
  /\ UNCHANGED <<parent, term, tileinit, outfile, history>>

ChildHasWritten(t) ==
  /\ child[t] = "writing" /\ SetChild(t, "written") /\ SetTile(t, "new")
  /\ UNCHANGED <<parent, term, tileinit, outfile, history>>

ChildExits(t) ==
  /\ child[t] = "written" /\ SetChild(t, "ok")
  /\ term' = term \ {t}
  /\ UNCHANGED <<parent, files, history>>

\* SIGTERM reaches a child: SignalExit, or KillChildrenExit in a child that has
\* not yet replaced the handler it was forked with.
ChildGetsTerm(t) ==
  /\ child[t] \in Live /\ t \in term
  /\ SetChild(t, "bad")
  /\ term' = IF child[t] = "born"
               THEN (LiveKids \cup (IF pc = "dead" THEN {} ELSE {Parent})) \ {t}
               ELSE term \ {t}
  /\ UNCHANGED <<parent, files, history>>

\* A child fails by itself (a crash, exit(ABNORMAL_EXIT), SIGKILL) ...
ChildFails(t) ==
  /\ child[t] \in Live /\ SetChild(t, "bad")
  /\ term' = term \ {t}
  /\ Fault
  /\ UNCHANGED <<parent, files>>

\* ... or somebody sends it a signal.
SignalChild(t) ==
  /\ child[t] \in Live /\ t \notin term
  /\ term' = term \cup {t}
  /\ Fault
  /\ UNCHANGED <<parent, child, files>>

--------------------------------------------------------------------------------
(* The parent without children.                                                 *)

\* Mutant of SerialSkip: the tile mask is not consulted.
SerialSkipAny ==
  /\ pc = "serial" /\ TilesLeft
  /\ AdvanceTile
  /\ UNCHANGED <<invocation, pc, optiter, nchildren, trap, status, child, term,
                 files, history>>

SerialSkip ==
  /\ pc = "serial" /\ TilesLeft /\ ~dotilemask[ThisTile]
  /\ AdvanceTile
  /\ UNCHANGED <<invocation, pc, optiter, nchildren, trap, status, child, term,
                 files, history>>

SerialUnwrap ==
  /\ pc = "serial" /\ TilesLeft /\ dotilemask[ThisTile]
  /\ pc' = "tile" /\ SetTile(ThisTile, "partial")
  /\ UNCHANGED <<invocation, optiter, nexttilerow, nexttilecol, nchildren, trap,
                 status, child, term, tileinit, outfile, history>>

SerialWritten ==
  /\ pc = "tile"
  /\ pc' = "serial" /\ SetTile(ThisTile, "new") /\ AdvanceTile
  /\ UNCHANGED <<invocation, optiter, nchildren, trap, status, child, term,
                 tileinit, outfile, history>>

SerialDone ==
  /\ pc = "serial" /\ ~TilesLeft
  /\ pc' = "assemble"
  /\ UNCHANGED <<invocation, optiter, nexttilerow, nexttilecol, nchildren, trap,
                 status, child, term, files, history>>

\* AssembleTiles reads every tile of the grid, masked or not; a file that cannot
\* be opened or has the wrong size ends the program.
WriteResult(s) ==
  IF opt.onetilereopt THEN tileinit' = [tileinit EXCEPT ![pid] = s] /\ UNCHANGED outfile
                      ELSE outfile' = s /\ UNCHANGED tileinit

AssembleReads ==
  /\ pc = "assemble"
  /\ IF \A t \in Tiles : TileFile(t) \in Whole
       THEN /\ pc' = "assembling" /\ WriteResult("partial")
            /\ UNCHANGED <<invocation, optiter, nexttilerow, nexttilecol,
                           nchildren, trap, status>>
       ELSE ExitParent("abnormal") /\ UNCHANGED <<tileinit, outfile>>
  /\ UNCHANGED <<child, term, tilefile, history>>

\* It removes the tiles one by one, before the result is complete.
RemoveTile(t) ==
  /\ pc = "assembling" /\ RmTmpTile /\ TileFile(t) # "absent"
  /\ SetTile(t, "absent")
  /\ UNCHANGED <<parent, child, term, tileinit, outfile, history>>

AssembleWritten ==
  /\ pc = "assembling"
  /\ RmTmpTile => \A t \in Tiles : TileFile(t) = "absent"
  /\ pc' = "iterend" /\ WriteResult("new")
  /\ UNCHANGED <<invocation, optiter, nexttilerow, nexttilecol, nchildren, trap,
                 status, child, term, tilefile, history>>

--------------------------------------------------------------------------------
(* Signals and failures of the parent.                                          *)

\* A signal CatchSignals traps, from outside or from a child's kill(0,SIGTERM).
ParentSignalled ==
  /\ IF trap = "kill" THEN KillGroupAndExit
                      ELSE ExitParent("abnormal") /\ term' = term \ {Parent}
  /\ UNCHANGED <<child, files>>

ParentGetsTerm == pc # "dead" /\ Parent \in term /\ ParentSignalled /\ UNCHANGED history
SignalParent   == pc # "dead" /\ ParentSignalled /\ Fault

\* exit(ABNORMAL_EXIT) in code the parent runs alone (the tile directory cannot be
\* made, a write error, a bad tile).
ParentFails ==
  /\ pc \in {"iter", "tile", "assembling", "single", "singlewrite"}
  /\ ExitParent("abnormal") /\ Fault
  /\ UNCHANGED <<child, term, files>>

KillParent ==
  /\ Uncatchable /\ pc # "dead"
  /\ ExitParent("abnormal") /\ Fault
  /\ UNCHANGED <<child, term, files>>

--------------------------------------------------------------------------------
Driver == \/ FirstIteration \/ SecondIteration \/ EndIteration
          \/ SingleTileRead \/ SingleTileWritten
          \/ Fork \/ CountChild \/ SkipTile \/ WaitNoChild
          \/ \E t \in Tiles : Reap(t) \/ ReapAbnormal(t) \/ RemoveTile(t)
          \/ SerialSkip \/ SerialUnwrap \/ SerialWritten \/ SerialDone
          \/ AssembleReads \/ AssembleWritten \/ ParentGetsTerm

ChildStep(t) == \/ ChildCatchesSignals(t) \/ ChildWrites(t) \/ ChildHasWritten(t)
                \/ ChildExits(t) \/ ChildGetsTerm(t)

Environment == \/ Restart \/ ForkFails \/ SignalParent \/ ParentFails \/ KillParent
               \/ \E t \in Tiles : ChildFails(t) \/ SignalChild(t)

Next == Driver \/ (\E t \in Tiles : ChildStep(t)) \/ Environment

Spec == Init /\ [][Next]_vars

\* The operating system schedules the parent, and a signal sent to a child is
\* delivered; nothing obliges it to send signals, to fail a call or to start another
\* run, and a child may compute for ever.
FairSpec == Spec /\ WF_vars(Driver) /\ \A t \in Tiles : WF_vars(ChildGetsTerm(t))

\* Every tile's computation ends, and its process is scheduled until then.
ChildrenScheduled == \A t \in Tiles : WF_vars(ChildStep(t))

--------------------------------------------------------------------------------
(* What a run promises.                                                         *)

\* The manual (--nproc): "at most n processes will run concurrently".
AtMostNThreads == Cardinality(LiveKids) <= NThreads

\* The counter the loop's exit depends on is the number of children forked and
\* not yet waited for, except between fork() and the increment, and when the
\* parent waits for children it never had.
CountIsExact ==
  pc \in {"loop", "count"} /\ nchildren >= 0 =>
    Cardinality(Unreaped) = nchildren + (IF pc = "count" THEN 1 ELSE 0)

\* Unwrap assembles only when every tile the mask selects has been unwrapped by
\* this run and no child is left to write in the tile directory.
AssembleAfterTiles ==
  pc = "assemble" =>
    /\ Unreaped = {}
    /\ ~opt.assembleonly => \A t \in Selected : TileFile(t) = "new"

\* Exit status 0 says the output file was completed by this run.
NormalExitHasOutput == status = "ok" => outfile = "new"

\* The tile-mode result is given up only for the output file made from it.
TileInitOutlived ==
  [][\A p \in Pids : tileinit[p] = "new" /\ tileinit'[p] = "absent" => outfile = "new"]_vars

\* DOTILEMASKFILE: "no output for that tile will be written": until the result is
\* assembled and the directory cleaned, a run changes no tile it was told to skip
\* and, in assemble-only mode, no tile at all.
SkippedTilesUntouched ==
  [][runs' = runs /\ pc # "assembling" =>
       \A t \in Tiles : dotilemask[t] = FALSE \/ opt.assembleonly =>
         \A n \in Names : tilefile'[n][t] = tilefile[n][t]]_vars

\* KillChildrenExit: "so that children exit when parent exits", whether or not
\* the tiles' computations ever end.
ChildrenFollowParent == pc = "dead" ~> LiveKids = {}

\* A run that forks has a tile to fork for.
HasWork == NThreads > 1 /\ ~opt.assembleonly => Selected # {}

\* Such a run ends, if the computation of every tile does.
RunEnds == ChildrenScheduled => ((pc # "dead" /\ HasWork) ~> (pc = "dead"))

\* Every run ends: DOTILEMASKFILE may leave out every tile ("where the array element
\* is zero, the tile will not be unwrapped").
EveryRunEnds == pc # "dead" ~> pc = "dead"

--------------------------------------------------------------------------------
(* The inductive invariant behind the safety properties above.                  *)

Before(t) == t[1] < nexttilerow \/ (t[1] = nexttilerow /\ t[2] < nexttilecol)
Forking   == pc \in {"loop", "count"}

\* Tile mode starts with the cursor on the first tile and no child.
Fresh ==
  pc = "iter" /\ optiter = 0 =>
    /\ nexttilerow = 0 /\ nexttilecol = 0 /\ nchildren = 0
    /\ \A t \in Tiles : child[t] = "none"

\* While the loop runs, the tiles with a child are the selected ones it has passed.
Passed ==
  Forking => /\ NThreads > 1 /\ ~opt.assembleonly /\ trap = "kill"
             /\ \A t \in Tiles : child[t] # "none" <=>
                   dotilemask[t] /\ (Before(t) \/ (pc = "count" /\ t = ThisTile))

\* Outside the loop no child is left, unless the parent died in it.
NoChildElsewhere == pc \notin {"loop", "count", "dead"} => Unreaped = {} /\ trap = "dfl"

Counted ==
  /\ Cardinality(Unreaped) <= NThreads
  /\ CountIsExact
  /\ pc = "count" => nchildren \in 0 .. NThreads - 1 /\ TilesLeft
  /\ Forking /\ nchildren < 0 => Unreaped = {} /\ ~TilesLeft

\* A child that has written its tile has left it complete.
Written ==
  Forking => \A t \in Tiles :
               child[t] \in {"written", "ok", "reaped"} => TileFile(t) = "new"

SerialPassed ==
  pc \in {"serial", "tile"} =>
    /\ ~opt.assembleonly
    /\ \A t \in Selected : Before(t) => TileFile(t) = "new"
    /\ pc = "tile" => TilesLeft

IInv == Fresh /\ Passed /\ NoChildElsewhere /\ Counted /\ Written /\ SerialPassed
        /\ AssembleAfterTiles

--------------------------------------------------------------------------------
(* Parallel, serial and assemble-only runs all implement TileMode.              *)

AbsPhase == CASE status = "ok"                         -> "done"
              [] status = "abnormal"                   -> "failed"
              [] pc \in {"loop", "count", "serial", "tile", "assemble"} 
                 \/ (pc = "iter" /\ optiter = 0)       -> "tiles"
              [] OTHER                                 -> "assembling"

AbsWorking == IF pc = "tile" THEN {ThisTile}
              ELSE IF pc = "dead" THEN {} ELSE Unreaped

AbsSelected == IF opt.assembleonly THEN {} ELSE Selected

\* A serial run has finished the selected tiles it has passed, a parallel one
\* those whose child it has waited for.
AbsFinished == IF NThreads = 1 THEN {t \in AbsSelected : Before(t)}
               ELSE {t \in Tiles : child[t] = "reaped"}

Promise == INSTANCE TileMode WITH maxworkers <- NThreads, phase <- AbsPhase,
             selected <- AbsSelected, working <- AbsWorking, finished <- AbsFinished

\* Every run, under every interleaving of parent, children and signals, is a run
\* TileMode allows.
ImplementsTileMode == Promise!Spec
--------------------------------------------------------------------------------
(* What the exit status and TileMode depend on besides IInv.                    *)

Ended == status = "none" <=> pc # "dead"

\* Only a selected tile gets a process or is unwrapped by the parent itself.
Asked ==
  /\ \A t \in Tiles : child[t] # "none" => dotilemask[t] /\ ~opt.assembleonly
  /\ pc = "tile" => dotilemask[ThisTile]
  /\ pc \in {"serial", "tile"} => NThreads = 1

\* The second iteration is that of -S and does not cut tiles; the iteration that
\* writes the output file is the last.
Iterations ==
  /\ pc \in {"single", "singlewrite"} => optiter = 1
  /\ pc \in {"loop", "count", "serial", "tile", "assemble", "assembling"} => optiter = 0
  /\ pc = "iterend" /\ optiter + 1 = NOptIter => outfile = "new"
  /\ optiter + 1 <= NOptIter

AllFinished == pc = "assemble" => AbsFinished = AbsSelected

OInv == Ended /\ Asked /\ Iterations /\ AllFinished /\ NormalExitHasOutput
================================================================================
