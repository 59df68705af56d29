---------------------------- MODULE MCTileAssembly ----------------------------
(* Runs of AssembleTiles for TLC: some about phase, some about components and  *)
(* some with files that are not there.                                         *)
EXTENDS TileAssembly

Grid(nr, nc) == (0 .. nr - 1) \X (0 .. nc - 1)
Smooth       == [k \in Arcs |-> 0]
NoSlip(g)    == [e \in {"lower", "right"} \X g |-> Smooth]

Plain(nr, nc) ==
  [ntilerow |-> nr, ntilecol |-> nc, rmtmptile |-> TRUE, costoutfile |-> FALSE,
   conncompfile |-> FALSE, flipphasesign |-> FALSE,
   cycles |-> [t \in Grid(nr, nc) |-> 0], slip |-> NoSlip(Grid(nr, nc)),
   comps |-> [t \in Grid(nr, nc) |-> <<>>], maxncomps |-> 1, missing |-> {}]

\* One seam slips on some of its arcs: on few, and its mode is that of the rest; on
\* most, and the offsets around a corner of four tiles do not add up.
Slips(g) == {NoSlip(g)} \cup
  {[NoSlip(g) EXCEPT ![e] = [k \in Arcs |-> IF k <= n THEN 1 ELSE 0]] :
     e \in {"lower", "right"} \X g, n \in Arcs}

PhaseRuns(nr, nc, all) ==
  {[Plain(nr, nc) EXCEPT !.cycles = c, !.slip = s, !.flipphasesign = f] :
     c \in all, s \in Slips(Grid(nr, nc)), f \in BOOLEAN}

Cycles(nr, nc) == [Grid(nr, nc) -> 0 .. 1]
Slope(nr, nc)  == {[t \in Grid(nr, nc) |-> 2 * t[1] + t[2]]}

\* Components of up to two pixels in three tiles; ties, empty ones, too many.
CompRuns ==
  {[Plain(1, 3) EXCEPT !.conncompfile = TRUE, !.comps = c, !.maxncomps = n] :
     c \in [Grid(1, 3) -> {<<>>, <<1>>, <<0, 2>>, <<2, 1>>, <<1, 1>>}], n \in {1, 2, 7}}

FileRuns ==
  {[Plain(g[1], g[2]) EXCEPT !.rmtmptile = r, !.costoutfile = s, !.conncompfile = TRUE,
                             !.missing = m] :
     g \in {<<1, 1>>, <<2, 3>>, <<3, 2>>}, r \in BOOLEAN, s \in BOOLEAN,
     m \in {{}, {<<"log", <<0, 0>>>>}, {<<"costs", <<0, 0>>>>}, {<<"comps", <<0, 0>>>>}}}
  \cup {[Plain(3, 2) EXCEPT !.missing = {f}] : f \in {"regions", "phase"} \X Grid(3, 2)}

AllRuns == PhaseRuns(2, 3, Cycles(2, 3)) \cup PhaseRuns(3, 2, Slope(3, 2))
             \cup PhaseRuns(1, 3, Cycles(1, 3)) \cup PhaseRuns(3, 1, Cycles(3, 1))
             \cup PhaseRuns(3, 3, Slope(3, 3)) \cup CompRuns \cup FileRuns
================================================================================
