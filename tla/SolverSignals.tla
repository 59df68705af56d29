----------------------------- MODULE SolverSignals -----------------------------
(***************************************************************************)
(* A single-tile run of UnwrapTile and the signals it traps while it       *)
(* optimizes: SIGHUP asks for a dump of the current solution, SIGINT for a *)
(* dump and an exit.  The handler SetDump only sets two flags, which       *)
(* TreeSolve reads before a pass over its candidate arcs.  A signal may    *)
(* come between any two steps.                                             *)
(***************************************************************************)
EXTENDS Integers

CONSTANTS
  MaxPasses,    \* bound: passes over the candidate arcs
  MaxSignals    \* bound: signals sent to the process

ASSUME SignalAssumption == MaxPasses \in Nat /\ MaxSignals \in Nat

PCs == {"setup", "between", "check", "freeing", "writing", "written", "clear",
        "pivot", "final", "finalwriting", "exited"}
Never == MaxPasses + 2

VARIABLES
  pc,
  onint, onhup,         \* handlers of SIGINT and SIGHUP
  dumpresults_global, requestedstop_global,
  costs,                \* are the cost arrays still allocated?
  passes,               \* passes made: the version of the current solution
  estimate,             \* was a coarse estimate subtracted from the input (-e)?
  out,                  \* the output file
  status,
  hup, int,             \* version the last SIGHUP, and a SIGINT, asked for
  signals

flags   == <<dumpresults_global, requestedstop_global>>
traps   == <<onint, onhup>>
asked   == <<hup, int>>
vars    == <<pc, traps, flags, costs, passes, estimate, out, status, asked, signals>>

Versions == 0 .. MaxPasses
OutFile  == [state : {"none", "partial", "whole"}, version : Versions, estimate : BOOLEAN]

TypeOK ==
  /\ pc \in PCs
  /\ onint \in {"dfl", "SetDump", "exit"} /\ onhup \in {"dfl", "SetDump"}
  /\ dumpresults_global \in BOOLEAN /\ requestedstop_global \in BOOLEAN
  /\ costs \in {"held", "freed"} /\ passes \in Versions /\ estimate \in BOOLEAN
  /\ out \in OutFile /\ status \in {"none", "ok", "stopped", "signal"}
  /\ hup \in 0 .. Never /\ int \in 0 .. Never /\ signals \in 0 .. MaxSignals

Init ==
  /\ pc = "setup" /\ onint = "dfl" /\ onhup = "dfl"
  /\ dumpresults_global = FALSE /\ requestedstop_global = FALSE
  /\ costs = "held" /\ passes = 0 /\ estimate \in BOOLEAN
  /\ out = [state |-> "none", version |-> 0, estimate |-> FALSE]
  /\ status = "none" /\ hup = Never /\ int = Never /\ signals = 0

Goto(from, to) == pc = from /\ pc' = to

--------------------------------------------------------------------------------
\* "if we have a single tile, trap signals for dumping results".
TrapSignals ==
  /\ Goto("setup", "between") /\ onint' = "SetDump" /\ onhup' = "SetDump"
  /\ UNCHANGED <<flags, costs, passes, estimate, out, status, asked, signals>>

\* The tree has grown and there are candidate arcs.
FindCandidates ==
  /\ Goto("between", "check") /\ passes < MaxPasses
  /\ UNCHANGED <<traps, flags, costs, passes, estimate, out, status, asked, signals>>

CheckDump ==
  /\ Goto("check", IF dumpresults_global THEN "freeing" ELSE "pivot")
  /\ UNCHANGED <<traps, flags, costs, passes, estimate, out, status, asked, signals>>

FreeCosts ==
  /\ Goto("freeing", "writing")
  /\ costs' = IF requestedstop_global THEN "freed" ELSE costs
  /\ out' = [out EXCEPT !.state = "partial"]
  /\ UNCHANGED <<traps, flags, passes, estimate, status, asked, signals>>

DumpWritten ==
  /\ Goto("writing", "written")
  /\ out' = [state |-> "whole", version |-> passes, estimate |-> FALSE]
  /\ UNCHANGED <<traps, flags, costs, passes, estimate, status, asked, signals>>

\* Mutant of StopIfRequested: the program goes on after the dump.
NeverStop ==
  /\ Goto("written", "clear")
  /\ UNCHANGED <<traps, flags, costs, passes, estimate, out, status, asked, signals>>

StopIfRequested ==
  /\ IF requestedstop_global THEN Goto("written", "exited") /\ status' = "stopped"
                             ELSE Goto("written", "clear") /\ UNCHANGED status
  /\ UNCHANGED <<traps, flags, costs, passes, estimate, out, asked, signals>>

\* "Program continuing", without another look at the flags.
ClearDump ==
  /\ Goto("clear", "pivot") /\ dumpresults_global' = FALSE
  /\ UNCHANGED <<traps, requestedstop_global, costs, passes, estimate, out, status,
                 asked, signals>>

\* Mutant of Pivot: the dump flag is cleared after the pass.
PivotClearsDump ==
  /\ pc = "pivot" /\ passes < MaxPasses
  /\ \/ pc' = "check" /\ passes + 1 < MaxPasses
     \/ pc' = "between"
  /\ passes' = passes + 1 /\ dumpresults_global' = FALSE
  /\ UNCHANGED <<traps, requestedstop_global, costs, estimate, out, status, asked, signals>>

\* A pass over the candidates changes the flow and the costs of its arcs.
Pivot ==
  /\ pc = "pivot" /\ passes < MaxPasses
  /\ \/ pc' = "check" /\ passes + 1 < MaxPasses
     \/ pc' = "between"
  /\ passes' = passes + 1
  /\ UNCHANGED <<traps, flags, costs, estimate, out, status, asked, signals>>

\* The loop over flow increments ends: "return signal handlers to default
\* behavior", grow the components, integrate the phase.
EndOptimizer ==
  /\ Goto("between", "final") /\ onint' = "dfl" /\ onhup' = "dfl"
  /\ UNCHANGED <<flags, costs, passes, estimate, out, status, asked, signals>>

FinalWrite ==
  /\ Goto("final", "finalwriting") /\ out' = [out EXCEPT !.state = "partial"]
  /\ UNCHANGED <<traps, flags, costs, passes, estimate, status, asked, signals>>

\* Mutant of FinalWritten: the estimate is not reinserted.
FinalWithoutEstimate ==
  /\ Goto("finalwriting", "exited") /\ status' = "ok"
  /\ out' = [state |-> "whole", version |-> passes, estimate |-> FALSE]
  /\ UNCHANGED <<traps, flags, costs, passes, estimate, asked, signals>>

FinalWritten ==
  /\ Goto("finalwriting", "exited") /\ status' = "ok"
  /\ out' = [state |-> "whole", version |-> passes, estimate |-> estimate]
  /\ UNCHANGED <<traps, flags, costs, passes, estimate, asked, signals>>

--------------------------------------------------------------------------------
\* The next solution there will be: a pass once begun is finished.
NextVersion == IF pc = "pivot" THEN passes + 1 ELSE passes

Die == pc' = "exited" /\ status' = "signal" /\ UNCHANGED <<traps, flags, asked>>

Interrupt ==
  /\ pc # "exited" /\ signals < MaxSignals /\ signals' = signals + 1
  /\ IF onint = "SetDump"
       THEN /\ dumpresults_global' = TRUE /\ requestedstop_global' = TRUE
            /\ onint' = "exit" /\ int' = NextVersion
            /\ UNCHANGED <<pc, onhup, status, hup>>
       ELSE Die
  /\ UNCHANGED <<costs, passes, estimate, out>>

\* Mutant of Hangup: a second hangup ends the program, as a second interrupt does.
HangupOnce ==
  /\ pc # "exited" /\ signals < MaxSignals /\ signals' = signals + 1
  /\ IF onhup = "SetDump"
       THEN /\ dumpresults_global' = TRUE /\ hup' = NextVersion /\ onhup' = "exit"
            /\ UNCHANGED <<pc, onint, requestedstop_global, status, int>>
       ELSE Die
  /\ UNCHANGED <<costs, passes, estimate, out>>

Hangup ==
  /\ pc # "exited" /\ signals < MaxSignals /\ signals' = signals + 1
  /\ IF onhup = "SetDump"
       THEN /\ dumpresults_global' = TRUE /\ hup' = NextVersion
            /\ UNCHANGED <<pc, traps, requestedstop_global, status, int>>
       ELSE Die
  /\ UNCHANGED <<costs, passes, estimate, out>>

Next == \/ TrapSignals \/ FindCandidates \/ CheckDump \/ FreeCosts \/ DumpWritten
        \/ StopIfRequested \/ ClearDump \/ Pivot
        \/ EndOptimizer \/ FinalWrite \/ FinalWritten
        \/ Interrupt \/ Hangup

Spec == Init /\ [][Next]_vars

--------------------------------------------------------------------------------
\* The costs, which are freed before the last dump, are needed by every pass and
\* by what follows the optimizer, at whatever step the signals come.
CostsHeldWhenUsed == pc \in {"check", "pivot", "between", "final"} => costs = "held"

\* "If a hangup signal is received, the program dumps its current solution then
\* continues": a pass begins only when every hangup before it has had its dump.
HangupDumped ==
  pc = "pivot" /\ hup <= passes => out.state = "whole" /\ out.version >= hup

\* A program that ends by itself leaves a complete output: the last solution, with
\* the estimate, or the one the interrupt asked for.
ExitLeavesOutput ==
  /\ status = "ok" => out = [state |-> "whole", version |-> passes, estimate |-> estimate]
  /\ status = "stopped" => out.state = "whole" /\ int <= out.version

\* "Upon receiving an interrupt [...] the program finishes a minor iteration, dumps
\* its current solution to the output, and exits": no pass begins after it.
InterruptHonoured == pc = "pivot" => int > passes

--------------------------------------------------------------------------------
(* The inductive invariant behind the first three of them.                      *)

Whole(v) == out.state = "whole" /\ out.version >= v

\* Only a run that will stop has freed its costs.
FreedByStop ==
  costs = "freed" => requestedstop_global /\ pc \in {"writing", "written", "exited"}

\* A hangup's dump is done, due, or under way.
HangupPending ==
  /\ pc # "exited" => hup = Never \/ hup <= NextVersion
  /\ pc \in {"setup", "between", "check"} => hup = Never \/ dumpresults_global \/ Whole(hup)
  /\ pc = "pivot" /\ hup = NextVersion => dumpresults_global

\* While the dump's flag is taken back the output is the current solution.
DumpCurrent == pc \in {"written", "clear"} => Whole(passes)

InterruptPending ==
  /\ requestedstop_global /\ pc # "exited" => int <= NextVersion
  /\ status # "none" => pc = "exited"

IInv == FreedByStop /\ HangupPending /\ DumpCurrent /\ InterruptPending
        /\ HangupDumped /\ ExitLeavesOutput
================================================================================
