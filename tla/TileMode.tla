------------------------------- MODULE TileMode -------------------------------
(***************************************************************************)
(* What snaphu's tile mode promises, whichever way it is scheduled: the    *)
(* selected tiles are unwrapped by at most maxworkers workers, each tile   *)
(* once, the result is assembled only from all of them, and a run that     *)
(* does not succeed fails.                                                 *)
(***************************************************************************)
EXTENDS Integers, FiniteSets

CONSTANTS Tiles

VARIABLES maxworkers,  \* a parameter of the run
          phase,       \* "tiles", "assembling", "done" or "failed"
          selected,    \* the tiles this run has to unwrap
          working,     \* tiles being unwrapped
          finished     \* tiles unwrapped

vars == <<maxworkers, phase, selected, working, finished>>

Start(S) ==
  maxworkers \in Nat /\ phase = "tiles" /\ selected = S /\ working = {} /\ finished = {}

Init == \E S \in SUBSET Tiles : Start(S)

Begin(t) ==
  /\ phase = "tiles" /\ t \in selected \ (working \cup finished)
  /\ Cardinality(working) < maxworkers
  /\ working' = working \cup {t}
  /\ UNCHANGED <<maxworkers, phase, selected, finished>>

Finish(t) ==
  /\ phase = "tiles" /\ t \in working
  /\ working' = working \ {t} /\ finished' = finished \cup {t}
  /\ UNCHANGED <<maxworkers, phase, selected>>

Assemble ==
  /\ phase = "tiles" /\ working = {} /\ finished = selected
  /\ phase' = "assembling" /\ UNCHANGED <<maxworkers, selected, working, finished>>

End(p) ==
  /\ phase' = p /\ working' = {} /\ UNCHANGED <<maxworkers, selected, finished>>

Succeed == phase = "assembling" /\ End("done")
Fail    == phase \in {"tiles", "assembling"} /\ End("failed")

NewRun == phase \in {"done", "failed"} /\ \E S \in SUBSET Tiles : Start(S)'

Next == \/ \E t \in Tiles : Begin(t) \/ Finish(t)
        \/ Assemble \/ Succeed \/ Fail \/ NewRun

Spec == Init /\ [][Next]_vars
================================================================================
