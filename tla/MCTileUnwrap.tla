----------------------------- MODULE MCTileUnwrap -----------------------------
(* Instances of TileUnwrap for TLC.                                            *)
EXTENDS TileUnwrap

AllMasks     == [Tiles -> BOOLEAN]
SomeTile     == {m \in AllMasks : \E t \in Tiles : m[t]}
NoneSelected == {[t \in Tiles |-> FALSE]}

\* Serial and parallel, with and without -S and --assemble; -k matters to reruns.
OneRun       == [assembleonly : BOOLEAN, onetilereopt : BOOLEAN, keep : {FALSE},
                 nthreads : 1 .. MaxThreads]
PlainOptions == {o \in OneRun : ~o.assembleonly /\ ~o.onetilereopt}
\* --nproc 2 and every combination of the others; assembling forks nothing.
TwoThreads   == [assembleonly : BOOLEAN, onetilereopt : BOOLEAN, keep : BOOLEAN,
                 nthreads : {2}]
================================================================================
