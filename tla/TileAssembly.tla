----------------------------- MODULE TileAssembly -----------------------------
(***************************************************************************)
(* AssembleTiles of snaphu_tile.c, between "all tiles are unwrapped" and   *)
(* "the output is written".  One pass over the tiles reads their files     *)
(* into three rotating buffers, finds the bulk offset of every tile        *)
(* relative to the first one and the flows on the seams, and hands these   *)
(* to the secondary network; a pass joins the connected components, and a  *)
(* last one writes the shifted tiles.  Each pass removes files that the    *)
(* passes after it must not need any more.                                 *)
(*                                                                         *)
(* Phase is counted in cycles.  The secondary network itself (FlowLoop has *)
(* its loop) is not modelled: its flows are zero here, so that what is     *)
(* left on the seams is what the network is given.                         *)
(***************************************************************************)
EXTENDS Integers, Sequences, FiniteSets, SequencesExt

CONSTANTS
  Runs,     \* the grids, options and tiles AssembleTiles may be given
  NArcs,    \* bound: arcs of a seam between two tiles
  Uninit    \* what an uninitialized offset holds

Arcs     == 1 .. NArcs
Kinds    == {"regions", "phase", "costs", "comps", "log"}
Sides    == {"upper", "lower", "left", "right"}
NoTile   == <<-1, -1>>

GridOf(r) == (0 .. r.ntilerow - 1) \X (0 .. r.ntilecol - 1)

\* cycles: of a tile, along its upper and left edge; slip: what the arcs of its
\* lower and right edge differ from it; comps: pixels of each component in the
\* part of the tile that is kept; missing: files that are not there.
RunOK(r) ==
  /\ r.ntilerow \in Nat \ {0} /\ r.ntilecol \in Nat \ {0}
  /\ r.rmtmptile \in BOOLEAN /\ r.costoutfile \in BOOLEAN
  /\ r.conncompfile \in BOOLEAN /\ r.flipphasesign \in BOOLEAN
  /\ r.cycles \in [GridOf(r) -> Int]
  /\ \A s \in {"lower", "right"}, t \in GridOf(r) : r.slip[<<s, t>>] \in [Arcs -> Int]
  /\ \A t \in GridOf(r) : r.comps[t] \in Seq(Nat)
  /\ r.maxncomps \in Nat \ {0}
  /\ r.missing \subseteq Kinds \X GridOf(r)

ASSUME AssemblyAssumption == NArcs \in Nat \ {0} /\ Uninit \in Int /\ \A r \in Runs : RunOK(r)

VARIABLES
  run,                      \* parameters and tiles
  pc, tilerow, tilecol,     \* the pass, and the tile it has come to
  files, tiledir,           \* the tile files, and does their directory exist?
  buf,                      \* tiles whose data the buffers hold
  dims,                     \* tile rows and columns the sizes are those of
  bulkoffsets, edgeflows,
  tileconncompsizes, conncompsizes, label,
  nextrowoffset, nextcoloffset, offset    \* of the tiles in the result

passes     == <<run, pc, tilerow, tilecol>>
storage    == <<files, tiledir>>
reading    == <<buf, dims>>
seams      == <<bulkoffsets, edgeflows>>
components == <<tileconncompsizes, conncompsizes, label>>
result     == <<nextrowoffset, nextcoloffset, offset>>
vars       == <<passes, storage, reading, seams, components, result>>

--------------------------------------------------------------------------------
Tiles     == GridOf(run)
This      == <<tilerow, tilecol>>
LastRow   == run.ntilerow - 1
LastCol   == run.ntilecol - 1
Above(t)  == <<t[1] - 1, t[2]>>
Below(t)  == <<t[1] + 1, t[2]>>
LeftOf(t) == <<t[1], t[2] - 1>>
RightOf(t) == <<t[1], t[2] + 1>>

\* Child processes have left logs; -g has left components.
FilesOf(r) == ({k \in Kinds : k = "comps" => r.conncompfile} \X GridOf(r)) \ r.missing

TypeOK ==
  /\ RunOK(run)
  /\ pc \in {"read", "edges", "trace", "count", "sort", "map", "integrate", "clean",
             "done", "failed"}
  /\ tilerow \in 0 .. run.ntilerow /\ tilecol \in 0 .. LastCol
  /\ files \subseteq FilesOf(run) /\ tiledir \in BOOLEAN
  /\ \A b \in DOMAIN buf : buf[b] \in Tiles \cup {NoTile}
  /\ \A d \in DOMAIN dims : dims[d] \in -1 .. run.ntilerow + run.ntilecol
  /\ bulkoffsets \in [Tiles -> Int] /\ offset \in [Tiles -> Int]
  /\ DOMAIN edgeflows \subseteq Sides \X Tiles
  /\ \A e \in DOMAIN edgeflows : edgeflows[e] \in [Arcs -> Int]
  /\ nextrowoffset \in Int /\ nextcoloffset \in Int
  /\ \A i \in DOMAIN conncompsizes : conncompsizes[i].tile \in Tiles

NoComps == [t \in Tiles |-> <<>>]

Init ==
  /\ run \in Runs
  /\ pc = "read" /\ tilerow = 0 /\ tilecol = 0
  /\ files = FilesOf(run) /\ tiledir = TRUE
  /\ buf = [b \in {"last", "cur", "next", "above", "below"} |-> NoTile]
  /\ dims = [d \in {"nrow", "ncol", "prevnrow", "prevncol", "nextncol"} |-> -1]
  /\ bulkoffsets = [t \in Tiles |-> IF t = <<0, 0>> THEN 0 ELSE Uninit]
  /\ edgeflows = <<>>
  /\ tileconncompsizes = <<>> /\ conncompsizes = <<>> /\ label = NoComps
  /\ nextrowoffset = 0 /\ nextcoloffset = 0 /\ offset = [t \in Tiles |-> 0]

\* Mutant of NextTile: the column is not reset at the end of a row.
NextTileNoReset(again, then) ==
  /\ tilecol' = tilecol + 1
  /\ IF tilecol < LastCol THEN tilerow' = tilerow /\ pc' = again
     ELSE IF tilerow < LastRow THEN tilerow' = tilerow + 1 /\ pc' = again
     ELSE tilerow' = 0 /\ pc' = then
  /\ UNCHANGED run

\* The two loops over the tiles; "then" follows the last tile.
NextTile(again, then) ==
  /\ tilecol' = IF tilecol = LastCol THEN 0 ELSE tilecol + 1
  /\ IF tilecol < LastCol THEN tilerow' = tilerow /\ pc' = again
     ELSE IF tilerow < LastRow THEN tilerow' = tilerow + 1 /\ pc' = again
     ELSE tilerow' = 0 /\ pc' = then
  /\ UNCHANGED run

Goto(next) == pc' = next /\ UNCHANGED <<run, tilerow, tilecol>>

--------------------------------------------------------------------------------
(* What each step reads.                                                        *)

TileData == {"regions", "phase", "costs"}

\* Tiles ReadNextRegion is called for on the way to tracing this one.
TilesToRead == (IF tilecol = 0 THEN {This} ELSE {})
                 \cup (IF tilecol < LastCol THEN {RightOf(This)} ELSE {})

EdgeTiles == (IF tilerow > 0 THEN {Above(This)} ELSE {})
               \cup (IF tilerow < LastRow THEN {Below(This)} ELSE {})

Needed == CASE pc = "read"             -> TileData \X TilesToRead
            [] pc = "edges"            -> TileData \X EdgeTiles
            [] pc \in {"count", "map"} -> {"comps"} \X {This}
            [] pc = "integrate"        -> {"phase", "regions"} \X {This}
            [] OTHER                   -> {}
Found == Needed \subseteq files

RmCosts == run.rmtmptile /\ ~run.costoutfile

\* A file that cannot be opened ends the program; the lines above the tile were
\* read, and the costs they were taken from removed, before those below.
ReadError ==
  /\ ~Found /\ Goto("failed")
  /\ files' = IF pc = "edges" /\ tilerow > 0 /\ RmCosts /\ TileData \X {Above(This)} \subseteq files
                THEN files \ {<<"costs", Above(This)>>} ELSE files
  /\ UNCHANGED <<tiledir, reading, seams, components, result>>

--------------------------------------------------------------------------------
(* The pass that traces the regions.                                            *)

Rotate(b) == [b EXCEPT !.last = b.cur, !.cur = b.next, !.next = b.last]

\* Mutant of ReadTiles: the width of the last tile of a row is kept for the next.
ReadTilesKeepWidth ==
  /\ pc = "read" /\ Found /\ Goto("edges")
  /\ LET b == Rotate(IF tilecol = 0 THEN [buf EXCEPT !.next = This] ELSE buf)
     IN  buf' = IF tilecol < LastCol THEN [b EXCEPT !.next = RightOf(This)] ELSE b
  /\ dims' = [nrow     |-> IF tilecol = 0 THEN tilerow ELSE dims.nrow,
              prevnrow |-> IF tilecol = 0 THEN dims.nrow ELSE dims.prevnrow,
              ncol     |-> dims.nextncol, prevncol |-> dims.ncol,
              nextncol |-> IF tilecol < LastCol THEN tilecol + 1 ELSE dims.nextncol]
  /\ UNCHANGED <<storage, seams, components, result>>

ReadTiles ==
  /\ pc = "read" /\ Found /\ Goto("edges")
  /\ LET b == Rotate(IF tilecol = 0 THEN [buf EXCEPT !.next = This] ELSE buf)
         w == IF tilecol = 0 THEN 0 ELSE dims.nextncol
     IN  /\ buf' = IF tilecol < LastCol THEN [b EXCEPT !.next = RightOf(This)] ELSE b
         /\ dims' = [nrow     |-> IF tilecol = 0 THEN tilerow ELSE dims.nrow,
                     prevnrow |-> IF tilecol = 0 THEN dims.nrow ELSE dims.prevnrow,
                     ncol     |-> w, prevncol |-> dims.ncol,
                     nextncol |-> IF tilecol < LastCol THEN tilecol + 1 ELSE w]
  /\ UNCHANGED <<storage, seams, components, result>>

\* Tiles whose costs have been read for the last time.
\* Mutants of CostsDone: this tile's costs, or not those of the last row.
CostsDoneTooEarly == {This}
CostsDoneButLast  == IF tilerow > 0 THEN {Above(This)} ELSE {}

CostsDone == (IF tilerow > 0 THEN {Above(This)} ELSE {})
               \cup (IF tilerow = LastRow THEN {This} ELSE {})

ReadEdgesAboveAndBelow ==
  /\ pc = "edges" /\ Found /\ Goto("trace")
  /\ buf' = [buf EXCEPT !.above = IF tilerow > 0 THEN Above(This) ELSE @,
                        !.below = IF tilerow < LastRow THEN Below(This) ELSE @]
  /\ files' = IF RmCosts THEN files \ ({"costs"} \X CostsDone) ELSE files
  /\ UNCHANGED <<tiledir, dims, seams, components, result>>

\* FlipPhaseArraySign on what was read.
Flipped(n) == IF run.flipphasesign THEN -n ELSE n

\* The phase of tile t along an edge.
Along(s, t) == [k \in Arcs |-> IF s \in {"lower", "right"}
                                 THEN Flipped(run.cycles[t] + run.slip[<<s, t>>][k])
                                 ELSE Flipped(run.cycles[t])]
Jumps(a, b) == [k \in Arcs |-> a[k] - b[k]]
Less(f, n)  == [k \in Arcs |-> f[k] - n]

Count(f, n) == Cardinality({k \in Arcs : f[k] = n})

\* Mutant of Mode: the largest flow.
Largest(f) == Max({f[k] : k \in Arcs})

\* The most frequent flow, the least of them in a tie.
Mode(f) == Min({f[k] : k \in {j \in Arcs : \A i \in Arcs : Count(f, f[i]) <= Count(f, f[j])}})

\* SetUpperEdge, SetLowerEdge, SetLeftEdge and SetRightEdge, in this order: each
\* gives the flows on its seam relative to the offsets of the two tiles, and two
\* of them the offset of the neighbour.
UpperFlows == Less(Jumps(Along("lower", buf.above), Along("upper", buf.cur)),
                   bulkoffsets[Above(This)] - bulkoffsets[This])

LowerJumps == Jumps(Along("lower", buf.cur), Along("upper", buf.below))

BulkBelow == IF tilerow = LastRow THEN bulkoffsets
             ELSE [bulkoffsets EXCEPT ![Below(This)] = bulkoffsets[This] - Mode(LowerJumps)]

LeftFlows == Less(Jumps(Along("left", buf.cur), Along("right", buf.last)),
                  BulkBelow[This] - BulkBelow[LeftOf(This)])

RightJumps == Jumps(Along("left", buf.next), Along("right", buf.cur))

\* Mutant of RightOffset: every row finds its own offsets.
RightOffsetAlways == Mode(RightJumps)

RightOffset == IF tilerow = 0 THEN Mode(RightJumps)
               ELSE BulkBelow[RightOf(This)] - BulkBelow[This]

\* The sides of the tile that are seams, and the flows each gets.
SidesInside == {s \in Sides : CASE s = "upper" -> tilerow > 0
                                [] s = "lower" -> tilerow < LastRow
                                [] s = "left"  -> tilecol > 0
                                [] s = "right" -> tilecol < LastCol}

SeamFlows(s) == CASE s = "upper" -> UpperFlows
                  [] s = "lower" -> Less(LowerJumps, Mode(LowerJumps))
                  [] s = "left"  -> LeftFlows
                  [] s = "right" -> Less(RightJumps, RightOffset)

TraceRegions ==
  /\ pc = "trace"
  /\ NextTile("read", IF run.conncompfile THEN "count" ELSE "integrate")
  /\ bulkoffsets' = IF tilecol = LastCol THEN BulkBelow
                    ELSE [BulkBelow EXCEPT ![RightOf(This)] = BulkBelow[This] + RightOffset]
  /\ edgeflows' = [e \in DOMAIN edgeflows \cup (SidesInside \X {This}) |->
                     IF e[2] = This THEN SeamFlows(e[1]) ELSE edgeflows[e]]
  /\ UNCHANGED <<storage, reading, components, result>>

--------------------------------------------------------------------------------
(* AssembleTileConnComps.                                                       *)

\* Mutant of ClearSizes: the counters of the last tile are not cleared.
ClearNothing(f) == f

ClearSizes(f) == [k \in DOMAIN f |-> [tile |-> This, npix |-> 0]]

\* The components that have pixels here.
Counted(sizes) ==
  {[tile |-> sizes[k].tile, comp |-> k, npix |-> sizes[k].npix] :
     k \in {j \in DOMAIN sizes : sizes[j].npix > 0}}

\* The first pass counts the kept pixels of this tile's components in an array
\* that serves all tiles and grows with the largest number met, and adds the tile's
\* components to the list that will be sorted: here in any order.
CountComponents ==
  /\ pc = "count" /\ Found /\ NextTile("count", "sort")
  /\ LET clear == ClearSizes(tileconncompsizes)
         size  == run.comps[This]
     IN  tileconncompsizes' =
           [k \in 1 .. Max({Len(clear), Len(size)}) |->
              LET old == IF k <= Len(clear) THEN clear[k] ELSE [tile |-> This, npix |-> 0]
              IN  [old EXCEPT !.npix = @ + (IF k <= Len(size) THEN size[k] ELSE 0)]]
  /\ conncompsizes' = conncompsizes \o SetToSeq(Counted(tileconncompsizes'))
  /\ UNCHANGED <<storage, reading, seams, label, result>>

Before(a, b) == a.npix >= b.npix

\* qsort leaves components of one size in any order.
SortComponents ==
  /\ pc = "sort" /\ Goto("map")
  /\ \E p \in Bijection(DOMAIN conncompsizes, DOMAIN conncompsizes) :
       LET sorted == [k \in DOMAIN conncompsizes |-> conncompsizes[p[k]]]
       IN  /\ \A j, k \in DOMAIN sorted : j < k => Before(sorted[j], sorted[k])
           /\ conncompsizes' = SubSeq(sorted, 1, Min({Len(sorted), run.maxncomps}))
  /\ UNCHANGED <<storage, reading, seams, tileconncompsizes, label, result>>

\* The number a component of this tile has in the sorted list, 0 if it was cut.
Mapping(k) ==
  LET at == {i \in DOMAIN conncompsizes :
               conncompsizes[i].tile = This /\ conncompsizes[i].comp = k}
  IN  IF at = {} THEN 0 ELSE Max(at)

MapComponents ==
  /\ pc = "map" /\ Found /\ NextTile("map", "integrate")
  /\ label' = [label EXCEPT ![This] = [k \in DOMAIN run.comps[This] |-> Mapping(k)]]
  /\ files' = IF run.rmtmptile THEN files \ {<<"comps", This>>} ELSE files
  /\ UNCHANGED <<tiledir, reading, seams, tileconncompsizes, conncompsizes, result>>

--------------------------------------------------------------------------------
(* IntegrateSecondaryFlows, and the end of AssembleTiles.                       *)

\* The tiles are read unflipped; the offsets, found on flipped phase, are negated.
Bulk(t) == Flipped(bulkoffsets[t])

\* Mutant of TileOffset: the offset runs on from one tile row to the next.
TileOffsetRunsOn == nextrowoffset

TileOffset == IF tilecol = 0 THEN nextcoloffset ELSE nextrowoffset

IntegrateTile ==
  /\ pc = "integrate" /\ Found
  /\ NextTile("integrate", "clean")
  /\ offset' = [offset EXCEPT ![This] = TileOffset]
  /\ nextrowoffset' = IF tilecol = LastCol THEN 0
                      ELSE TileOffset + Bulk(This) - Bulk(RightOf(This))
  /\ nextcoloffset' = IF tilecol = 0 /\ tilerow < LastRow
                        THEN TileOffset + Bulk(This) - Bulk(Below(This))
                        ELSE nextcoloffset
  /\ files' = IF run.rmtmptile THEN files \ ({"phase", "regions"} \X {This}) ELSE files
  /\ UNCHANGED <<tiledir, reading, seams, components>>

\* The logs are removed, then the directory; rmdir fails while a file is in it.
RemoveTileDir ==
  /\ pc = "clean" /\ Goto("done")
  /\ files' = IF run.rmtmptile THEN files \ ({"log"} \X Tiles) ELSE files
  /\ tiledir' = (run.rmtmptile => files' # {})
  /\ UNCHANGED <<reading, seams, components, result>>

Next == \/ ReadTiles \/ ReadEdgesAboveAndBelow \/ TraceRegions
        \/ CountComponents \/ SortComponents \/ MapComponents
        \/ IntegrateTile \/ RemoveTileDir \/ ReadError

Spec == Init /\ [][Next]_vars

--------------------------------------------------------------------------------
Failed == pc = "failed"
Traced == pc \in {"count", "sort", "map", "integrate", "clean", "done"}

\* When a tile is traced the buffers that have rotated since its row began, the
\* lines read at its edges, and the sizes carried from tile to tile are those of
\* the tile and its neighbours.
TilesAtHand ==
  pc = "trace" =>
    /\ buf.cur = This /\ dims.nrow = tilerow /\ dims.ncol = tilecol
    /\ tilerow > 0       => buf.above = Above(This) /\ dims.prevnrow = tilerow - 1
    /\ tilerow < LastRow => buf.below = Below(This)
    /\ tilecol > 0       => buf.last = LeftOf(This) /\ dims.prevncol = tilecol - 1
    /\ tilecol < LastCol => buf.next = RightOf(This)

\* The two tiles of a seam, traced at different times, put the same flows on it.
SeamsAgree ==
  \A t \in Tiles :
    /\ {<<"lower", t>>, <<"upper", Below(t)>>} \subseteq DOMAIN edgeflows
         => edgeflows[<<"lower", t>>] = edgeflows[<<"upper", Below(t)>>]
    /\ {<<"right", t>>, <<"left", RightOf(t)>>} \subseteq DOMAIN edgeflows
         => edgeflows[<<"right", t>>] = edgeflows[<<"left", RightOf(t)>>]

\* The result's jump, in cycles, over an arc of the seam below or right of a tile.
ResultBelow(t, k) == (run.cycles[t] + run.slip[<<"lower", t>>][k] + offset[t])
                       - (run.cycles[Below(t)] + offset[Below(t)])
ResultRight(t, k) == (run.cycles[RightOf(t)] + offset[RightOf(t)])
                       - (run.cycles[t] + run.slip[<<"right", t>>][k] + offset[t])

\* The flows the secondary network is given on the seams are the discontinuities
\* the result has there, whatever the tiles contain and whether or not their sign
\* was flipped in between.
FlowsDescribeResult ==
  pc \in {"clean", "done"} =>
    \A t \in Tiles, k \in Arcs :
      /\ t[1] < LastRow => ResultBelow(t, k) = Flipped(edgeflows[<<"lower", t>>][k])
      /\ t[2] < LastCol => ResultRight(t, k) = Flipped(edgeflows[<<"right", t>>][k])

\* "set bulk tile offset equal to mode of flow histogram": across every seam from
\* which an offset was taken, no discontinuity is more frequent than none.
MostlySmooth(f) == \A k \in Arcs : Count(f, f[k]) <= Count(f, 0)
OffsetsSmooth ==
  Traced => \A e \in DOMAIN edgeflows :
              e[1] = "lower" \/ (e[1] = "right" /\ e[2][1] = 0) => MostlySmooth(edgeflows[e])

\* The components of the result are numbered from 1 by size over all tiles, the
\* largest is 1, no number is given twice, and those beyond the maximum are 0.
Parts == UNION {{t} \X {k \in DOMAIN run.comps[t] : run.comps[t][k] > 0} : t \in Tiles}
Size(p)   == run.comps[p[1]][p[2]]
Number(p) == label[p[1]][p[2]]
ComponentsNumbered ==
  run.conncompfile /\ pc \in {"integrate", "clean", "done"} =>
    /\ {Number(p) : p \in Parts} \ {0} = 1 .. Min({Cardinality(Parts), run.maxncomps})
    /\ \A p, q \in Parts : Number(p) # 0 /\ p # q =>
         /\ Number(p) # Number(q)
         /\ Number(q) = 0 \/ Number(p) < Number(q) => Size(p) >= Size(q)

\* No pass removes a file that a later step of it or of another pass reads: only
\* an input that was incomplete from the start ends the program.  "Tile directory
\* [...] removed at the end of the run unless [...]": yet the passes together
\* remove every tile file they were told to, and a run that was told to keep them
\* loses none, even if it fails.
FilesLast ==
  /\ Failed => \E f \in run.missing : f[1] # "log"
  /\ ~run.rmtmptile => files = FilesOf(run) /\ tiledir
  /\ run.rmtmptile /\ pc = "done" =>
       /\ files = IF run.costoutfile THEN {"costs"} \X Tiles ELSE {}
       /\ tiledir <=> files # {}
================================================================================
