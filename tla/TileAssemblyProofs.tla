-------------------------- MODULE TileAssemblyProofs --------------------------
(***************************************************************************)
(* Theorems about TileAssembly, for every grid of tiles, every option and  *)
(* every phase: the rotating buffers hold the right tiles, the two sides   *)
(* of a seam agree, the offsets leave it as smooth as its mode allows, and *)
(* the result has on it what the secondary network is given; no file is    *)
(* removed that is still to be read; the largest components of all tiles   *)
(* are numbered by their sizes.                                            *)
(***************************************************************************)
EXTENDS TileAssembly, FiniteSetTheorems, SequenceTheorems, WellFoundedInduction, TLAPS

Buffers == {"last", "cur", "next", "above", "below"}
Sizes == {"nrow", "ncol", "prevnrow", "prevncol", "nextncol"}
Tracing == {"read", "edges", "trace"}

\* A tile the pass has been to.
Passed(t) == t[1] < tilerow \/ (t[1] = tilerow /\ t[2] < tilecol)

-----------------------------------------------------------------------------
\* The inductive invariant, part by part.

Position ==
  /\ run \in Runs
  /\ tilerow \in 0 .. LastRow /\ tilecol \in 0 .. LastCol
  /\ pc \in {"read", "edges", "trace", "count", "sort", "map", "integrate", "clean",
             "done", "failed"}

\* The buffers between two tiles: the next tile has been read, unless a row begins.
BuffersBefore ==
  pc = "read" =>
    /\ tilecol = 0 /\ tilerow > 0 => dims.nrow = tilerow - 1
    /\ tilecol > 0 => /\ buf.next = This /\ buf.cur = LeftOf(This)
                      /\ dims.nextncol = tilecol /\ dims.ncol = tilecol - 1
                      /\ dims.nrow = tilerow
                      /\ tilerow > 0 => dims.prevnrow = tilerow - 1

BuffersOfTile ==
  pc \in {"edges", "trace"} =>
    /\ buf.cur = This /\ dims.nrow = tilerow /\ dims.ncol = tilecol
    /\ tilerow > 0       => dims.prevnrow = tilerow - 1
    /\ tilecol > 0       => buf.last = LeftOf(This) /\ dims.prevncol = tilecol - 1
    /\ tilecol < LastCol => buf.next = RightOf(This) /\ dims.nextncol = tilecol + 1

LinesAtEdges ==
  pc = "trace" =>
    /\ tilerow > 0       => buf.above = Above(This)
    /\ tilerow < LastRow => buf.below = Below(This)

Reading ==
  /\ buf \in [Buffers -> Int \X Int] /\ dims \in [Sizes -> Int]
  /\ BuffersBefore /\ BuffersOfTile /\ LinesAtEdges

\* The jumps of the phase over the seam below a tile, and right of it.
JumpsBelow(t) == Jumps(Along("lower", t), Along("upper", Below(t)))
JumpsRight(t) == Jumps(Along("left", RightOf(t)), Along("right", t))

\* What is put on a seam, from either side, in terms of the offsets of the two
\* tiles as they are now: no later step changes an offset that was used.
FlowsBelow(t) == Less(JumpsBelow(t), bulkoffsets[t] - bulkoffsets[Below(t)])
FlowsRight(t) == Less(JumpsRight(t), bulkoffsets[RightOf(t)] - bulkoffsets[t])

SeamsOf(t) ==
  /\ <<"lower", t>> \in DOMAIN edgeflows =>
       /\ t[1] < LastRow /\ edgeflows[<<"lower", t>>] = FlowsBelow(t)
       /\ MostlySmooth(edgeflows[<<"lower", t>>])
  /\ <<"upper", t>> \in DOMAIN edgeflows =>
       t[1] > 0 /\ edgeflows[<<"upper", t>>] = FlowsBelow(Above(t))
  /\ <<"right", t>> \in DOMAIN edgeflows =>
       /\ t[2] < LastCol /\ edgeflows[<<"right", t>>] = FlowsRight(t)
       /\ t[1] = 0 => MostlySmooth(edgeflows[<<"right", t>>])
  /\ <<"left", t>> \in DOMAIN edgeflows =>
       t[2] > 0 /\ edgeflows[<<"left", t>>] = FlowsRight(LeftOf(t))

Bulks == bulkoffsets \in [Tiles -> Int] /\ bulkoffsets[<<0, 0>>] = 0

\* Which seams have flows: those of the tiles traced.
Extent ==
  /\ DOMAIN edgeflows \subseteq Sides \X Tiles
  /\ pc \in Tracing => \A t \in Tiles :
       (\E side \in Sides : <<side, t>> \in DOMAIN edgeflows) => Passed(t)
  /\ pc # "failed" => \A t \in Tiles : (pc \in Tracing => Passed(t)) =>
       /\ t[1] < LastRow => <<"lower", t>> \in DOMAIN edgeflows
       /\ t[2] < LastCol => <<"right", t>> \in DOMAIN edgeflows

Seams == \A t \in Tiles : SeamsOf(t)

\* The offsets that are integrated are those found, negated.
Integrated ==
  /\ offset \in [Tiles -> Int] /\ nextrowoffset \in Int /\ nextcoloffset \in Int
  /\ pc \in {"read", "edges", "trace", "count", "sort", "map"} => nextcoloffset = 0
  /\ pc = "sort" => tilerow = 0 /\ tilecol = 0
  /\ pc = "integrate" =>
       /\ tilecol = 0 => nextcoloffset = 0 - Bulk(This)
       /\ tilecol > 0 => /\ nextrowoffset = 0 - Bulk(This)
                         /\ tilerow < LastRow => nextcoloffset = 0 - Bulk(<<tilerow + 1, 0>>)
       /\ \A t \in Tiles : Passed(t) => offset[t] = 0 - Bulk(t)
  /\ pc \in {"clean", "done"} => \A t \in Tiles : offset[t] = 0 - Bulk(t)

IInv == Position /\ Reading /\ Bulks /\ Extent /\ Seams /\ Integrated

-----------------------------------------------------------------------------
\* Facts about the operators.

LEMMA GridFacts ==
  ASSUME Position
  PROVE  /\ RunOK(run)
         /\ LastRow \in Nat /\ LastCol \in Nat
         /\ Tiles = (0 .. LastRow) \X (0 .. LastCol)
         /\ This \in Tiles /\ tilerow \in Nat /\ tilecol \in Nat
         /\ run.flipphasesign \in BOOLEAN
  <1>1. RunOK(run)
    BY AssemblyAssumption DEF Position
  <1>2. run.ntilerow \in Nat \ {0} /\ run.ntilecol \in Nat \ {0} /\ run.flipphasesign \in BOOLEAN
    BY <1>1 DEF RunOK
  <1>3. LastRow \in Nat /\ LastCol \in Nat
    BY <1>2 DEF LastRow, LastCol
  <1>4. Tiles = (0 .. LastRow) \X (0 .. LastCol)
    BY DEF Tiles, GridOf, LastRow, LastCol
  <1>5. This \in Tiles /\ tilerow \in Nat /\ tilecol \in Nat
    BY <1>3, <1>4 DEF Position, This
  <1>. QED BY <1>1, <1>2, <1>3, <1>4, <1>5

\* The tiles beside a tile.
LEMMA BesideFacts ==
  ASSUME Position, NEW t \in Tiles
  PROVE  /\ t[1] \in 0 .. LastRow /\ t[2] \in 0 .. LastCol /\ t = <<t[1], t[2]>>
         /\ t[1] < LastRow => Below(t) \in Tiles /\ Below(t) = <<t[1] + 1, t[2]>>
         /\ t[2] < LastCol => RightOf(t) \in Tiles /\ RightOf(t) = <<t[1], t[2] + 1>>
         /\ t[1] > 0 => Above(t) \in Tiles /\ Below(Above(t)) = t
         /\ t[2] > 0 => LeftOf(t) \in Tiles /\ RightOf(LeftOf(t)) = t
         /\ t[1] > 0 => Above(t) = <<t[1] - 1, t[2]>>
         /\ t[2] > 0 => LeftOf(t) = <<t[1], t[2] - 1>>
  <1>1. t[1] \in 0 .. LastRow /\ t[2] \in 0 .. LastCol /\ t = <<t[1], t[2]>>
    BY GridFacts
  <1>. QED BY <1>1, GridFacts DEF Below, RightOf, Above, LeftOf

LEMMA ArcsFacts == IsFiniteSet(Arcs) /\ 1 \in Arcs
  BY AssemblyAssumption, FS_Interval DEF Arcs

\* The phase along an edge and its jumps are integers.
LEMMA PhaseTypes ==
  ASSUME Position, NEW t \in Tiles
  PROVE  /\ \A s \in Sides : Along(s, t) \in [Arcs -> Int]
         /\ t[1] < LastRow => JumpsBelow(t) \in [Arcs -> Int]
         /\ t[2] < LastCol => JumpsRight(t) \in [Arcs -> Int]
  <1>1. ASSUME NEW u \in Tiles, NEW s \in Sides PROVE Along(s, u) \in [Arcs -> Int]
    <2>1. run.cycles[u] \in Int
      BY GridFacts DEF RunOK, Tiles
    <2>2. s \in {"lower", "right"} => \A k \in Arcs : run.slip[<<s, u>>][k] \in Int
      BY GridFacts DEF RunOK, Tiles
    <2>3. \A n \in Int : Flipped(n) \in Int
      BY GridFacts DEF Flipped
    <2>. QED BY <2>1, <2>2, <2>3 DEF Along
  <1>2. ASSUME NEW a \in [Arcs -> Int], NEW b \in [Arcs -> Int]
        PROVE  Jumps(a, b) \in [Arcs -> Int]
    BY DEF Jumps
  <1>3. t[1] < LastRow => JumpsBelow(t) \in [Arcs -> Int]
    BY <1>1, <1>2, BesideFacts DEF JumpsBelow, Sides
  <1>4. t[2] < LastCol => JumpsRight(t) \in [Arcs -> Int]
    BY <1>1, <1>2, BesideFacts DEF JumpsRight, Sides
  <1>. QED BY <1>1, <1>3, <1>4

\* Any set of natural numbers that is not empty has a least element.
LEMMA LeastNatural ==
  ASSUME NEW T, T \subseteq Nat, T # {}
  PROVE  \E x \in T : \A y \in T : x <= y
  <1>1. \E x \in T : \A y \in T : ~ (<<y, x>> \in OpToRel(<, Nat))
    BY NatLessThanWellFounded, WFMin, Zenon
  <1>2. \A x, y \in Nat : <<y, x>> \in OpToRel(<, Nat) <=> y < x
    BY DEF OpToRel
  <1>3. PICK x \in T : \A y \in T : ~ (<<y, x>> \in OpToRel(<, Nat))
    BY <1>1, Zenon
  <1>4. \A y \in T : x \in Nat /\ y \in Nat /\ ~ (y < x)
    BY <1>2, <1>3, Zenon
  <1>. QED BY <1>4

\* An element of a finite set of integers is the least if the fewest elements are
\* below it.
LEMMA LeastElement ==
  ASSUME NEW S, IsFiniteSet(S), S \subseteq Int, S # {}
  PROVE  \E x \in S : \A y \in S : x <= y
  <1>. DEFINE Under(x) == {y \in S : y < x}
              Ranks == {Cardinality(Under(x)) : x \in S}
  <1>1. \A x \in S : IsFiniteSet(Under(x)) /\ Cardinality(Under(x)) \in Nat
    BY FS_Subset, FS_CardinalityType
  <1>2. PICK r \in Ranks : \A s \in Ranks : r <= s
    <2>1. Ranks \subseteq Nat /\ Ranks # {}
      BY <1>1
    <2>. HIDE DEF Ranks
    <2>. QED BY <2>1, LeastNatural
  <1>3. PICK x \in S : r = Cardinality(Under(x))
    BY <1>2
  <1>4. ASSUME NEW y \in S, ~ (x <= y) PROVE FALSE
    <2>1. y < x
      BY <1>4
    <2>2. Under(y) \subseteq Under(x) /\ y \in Under(x) /\ y \notin Under(y)
      <3>1. \A z \in S : z \in Int /\ x \in Int /\ y \in Int
        OBVIOUS
      <3>2. \A z \in S : z < y => z < x
        BY <2>1, <3>1
      <3>3. ~ (y < y)
        BY <3>1
      <3>. QED BY <2>1, <3>2, <3>3, Zenon
    <2>3. Cardinality(Under(y)) <= Cardinality(Under(x))
      BY <1>1, <2>2, FS_Subset
    <2>4. Cardinality(Under(y)) # Cardinality(Under(x))
      BY <1>1, <2>2, FS_Subset
    <2>5. Cardinality(Under(x)) <= Cardinality(Under(y))
      BY <1>2, <1>3
    <2>. QED BY <1>1, <2>3, <2>4, <2>5
  <1>. QED BY <1>4

\* The mode is a flow, and none is more frequent.
LEMMA ModeIsMost ==
  ASSUME NEW f \in [Arcs -> Int]
  PROVE  /\ Mode(f) \in Int
         /\ \A k \in Arcs : Count(f, f[k]) \in Nat /\ Count(f, f[k]) <= Count(f, Mode(f))
  <1>. DEFINE rare == [j \in Arcs |-> -Count(f, f[j])]
              counts == {rare[j] : j \in Arcs}
              most == {j \in Arcs : \A i \in Arcs : Count(f, f[i]) <= Count(f, f[j])}
              vals == {f[k] : k \in most}
  <1>1. \A n : Count(f, n) \in Nat
    <2>. SUFFICES ASSUME NEW n PROVE Count(f, n) \in Nat
      OBVIOUS
    <2>1. IsFiniteSet({k \in Arcs : f[k] = n})
      BY ArcsFacts, FS_Subset
    <2>. QED BY <2>1, FS_CardinalityType DEF Count
  <1>2. PICK v \in counts : \A w \in counts : v <= w
    <2>1. IsFiniteSet(counts)
      <3>1. rare \in Surjection(Arcs, counts)
        BY DEF Surjection
      <3>. QED BY <3>1, ArcsFacts, FS_Surjection
    <2>2. counts \subseteq Int /\ counts # {}
      BY <1>1, ArcsFacts
    <2>. HIDE DEF counts
    <2>. QED BY <2>1, <2>2, LeastElement
  <1>3. most # {}
    <2>1. PICK j \in Arcs : v = rare[j]
      BY <1>2
    <2>2. \A i \in Arcs : rare[j] <= rare[i]
      BY <1>2, <2>1
    <2>3. \A i \in Arcs : Count(f, f[i]) <= Count(f, f[j])
      BY <1>1, <2>2
    <2>. QED BY <2>3
  <1>4. Mode(f) \in vals
    <2>1. IsFiniteSet(vals)
      <3>1. [k \in most |-> f[k]] \in Surjection(most, vals)
        BY DEF Surjection
      <3>2. IsFiniteSet(most)
        BY ArcsFacts, FS_Subset
      <3>. QED BY <3>1, <3>2, FS_Surjection
    <2>2. vals \subseteq Int /\ vals # {}
      BY <1>3
    <2>3. Mode(f) = CHOOSE x \in vals : \A y \in vals : x <= y
      BY DEF Mode, Min
    <2>. HIDE DEF vals
    <2>4. \E x \in vals : \A y \in vals : x <= y
      BY <2>1, <2>2, LeastElement
    <2>. QED BY <2>3, <2>4
  <1>5. PICK j \in most : Mode(f) = f[j]
    BY <1>4
  <1>. QED BY <1>1, <1>5

\* One run to the next tile.
IsLast == tilerow = LastRow /\ tilecol = LastCol

LEMMA NextTileFacts ==
  ASSUME Position, NEW again, NEW then, NextTile(again, then)
  PROVE  /\ run' = run /\ tilerow' \in 0 .. LastRow /\ tilecol' \in 0 .. LastCol
         /\ ~ IsLast =>
              /\ pc' = again
              /\ tilecol < LastCol => tilerow' = tilerow /\ tilecol' = tilecol + 1
              /\ tilecol = LastCol => tilerow' = tilerow + 1 /\ tilecol' = 0
              /\ \A t \in Tiles : Passed(t)' <=> Passed(t) \/ t = This
         /\ IsLast =>
              /\ pc' = then /\ tilerow' = 0 /\ tilecol' = 0
              /\ \A t \in Tiles : Passed(t) \/ t = This
  <1>1. /\ LastRow \in Nat /\ LastCol \in Nat
        /\ tilerow \in 0 .. LastRow /\ tilecol \in 0 .. LastCol
    BY GridFacts DEF Position
  <1>2. \A t \in Tiles : /\ t[1] \in 0 .. LastRow /\ t[2] \in 0 .. LastCol
                         /\ t = This <=> t[1] = tilerow /\ t[2] = tilecol
    BY BesideFacts DEF This
  <1>3. run' = run
    BY DEF NextTile
  <1>4. CASE tilecol < LastCol
    <2>1. tilerow' = tilerow /\ tilecol' = tilecol + 1 /\ pc' = again
      BY <1>1, <1>4 DEF NextTile
    <2>2. \A t \in Tiles : Passed(t)' <=> Passed(t) \/ t = This
      BY <1>1, <1>2, <2>1 DEF Passed
    <2>. QED BY <1>1, <1>3, <1>4, <2>1, <2>2 DEF IsLast
  <1>5. CASE tilecol = LastCol /\ tilerow < LastRow
    <2>1. tilerow' = tilerow + 1 /\ tilecol' = 0 /\ pc' = again
      BY <1>1, <1>5 DEF NextTile
    <2>2. \A t \in Tiles : Passed(t)' <=> Passed(t) \/ t = This
      BY <1>1, <1>2, <1>5, <2>1 DEF Passed
    <2>. QED BY <1>1, <1>3, <1>5, <2>1, <2>2 DEF IsLast
  <1>6. CASE tilecol = LastCol /\ tilerow = LastRow
    <2>1. tilerow' = 0 /\ tilecol' = 0 /\ pc' = then
      BY <1>1, <1>6 DEF NextTile
    <2>2. \A t \in Tiles : Passed(t) \/ t = This
      BY <1>1, <1>2, <1>6 DEF Passed
    <2>. QED BY <1>1, <1>3, <1>6, <2>1, <2>2 DEF IsLast
  <1>. QED BY <1>1, <1>4, <1>5, <1>6

\* No step changes the tiles, or what is in them.
LEMMA SameTiles ==
  ASSUME Position, [Next]_vars
  PROVE  /\ run' = run
         /\ Tiles' = Tiles /\ LastRow' = LastRow /\ LastCol' = LastCol
         /\ \A n \in Int : Flipped(n)' = Flipped(n)
         /\ \A t \in Tiles : /\ JumpsBelow(t)' = JumpsBelow(t)
                             /\ JumpsRight(t)' = JumpsRight(t)
  <1>1. run' = run
    BY DEF Next, vars, passes, ReadTiles, ReadEdgesAboveAndBelow, TraceRegions,
           CountComponents, SortComponents, MapComponents, IntegrateTile, RemoveTileDir,
           ReadError, NextTile, Goto
  <1>. QED BY <1>1 DEF Tiles, LastRow, LastCol, Flipped, JumpsBelow, JumpsRight, Along, Jumps,
                       Below, RightOf

-----------------------------------------------------------------------------
\* The initial states.

LEMMA InitInv == Init => IInv
  <1>. SUFFICES ASSUME Init PROVE IInv
    OBVIOUS
  <1>1. Position
    <2>1. RunOK(run) /\ run \in Runs
      BY AssemblyAssumption DEF Init
    <2>2. LastRow \in Nat /\ LastCol \in Nat
      BY <2>1 DEF RunOK, LastRow, LastCol
    <2>. QED BY <2>1, <2>2 DEF Init, Position
  <1>2. Reading
    BY DEF Init, Reading, Buffers, Sizes, NoTile, BuffersBefore, BuffersOfTile, LinesAtEdges
  <1>3. Bulks
    <2>1. <<0, 0>> \in Tiles
      BY <1>1, GridFacts
    <2>. QED BY <2>1, AssemblyAssumption DEF Init, Bulks
  <1>4. DOMAIN edgeflows = {}
    BY DEF Init
  <1>5. \A t \in Tiles : ~ Passed(t)
    BY <1>1, BesideFacts DEF Passed, Init
  <1>6. Extent
    BY <1>4, <1>5 DEF Extent, Init, Tracing
  <1>7. Seams
    BY <1>4 DEF Seams, SeamsOf
  <1>8. Integrated
    BY DEF Init, Integrated
  <1>. QED BY <1>1, <1>2, <1>3, <1>6, <1>7, <1>8 DEF IInv

-----------------------------------------------------------------------------
\* Every step keeps the position in the image.

LEMMA PositionStep == Position /\ [Next]_vars => Position'
  <1>. SUFFICES ASSUME Position, [Next]_vars PROVE Position'
    OBVIOUS
  <1>1. run' = run /\ LastRow' = LastRow /\ LastCol' = LastCol
    BY SameTiles
  <1>2. ASSUME NEW next \in {"edges", "trace", "map", "done", "failed"}, Goto(next)
        PROVE  Position'
    BY <1>1, <1>2 DEF Goto, Position
  <1>3. ASSUME NEW again \in {"read", "count", "map", "integrate"},
               NEW then \in {"count", "sort", "integrate", "clean"}, NextTile(again, then)
        PROVE  Position'
    <2>1. /\ tilerow' \in 0 .. LastRow /\ tilecol' \in 0 .. LastCol
          /\ pc' \in {again, then}
      BY <1>3, NextTileFacts
    <2>. QED BY <1>1, <2>1 DEF Position
  <1>4. CASE UNCHANGED vars
    BY <1>1, <1>4 DEF vars, passes, Position
  <1>5. CASE Next
    BY <1>2, <1>3, <1>5 DEF Next, ReadTiles, ReadEdgesAboveAndBelow, TraceRegions,
       CountComponents, SortComponents, MapComponents, IntegrateTile, RemoveTileDir, ReadError
  <1>. QED BY <1>4, <1>5

-----------------------------------------------------------------------------
\* Every step keeps the buffers in step with the tiles.

LEMMA ReadingStep == Position /\ Reading /\ [Next]_vars => Reading'
  <1>. SUFFICES ASSUME Position, Reading, [Next]_vars PROVE Reading'
    OBVIOUS
  <1>1. run' = run /\ LastRow' = LastRow /\ LastCol' = LastCol
    BY SameTiles
  <1>2. /\ LastRow \in Nat /\ LastCol \in Nat
        /\ tilerow \in 0 .. LastRow /\ tilecol \in 0 .. LastCol
        /\ This = <<tilerow, tilecol>>
    BY GridFacts DEF Position, This
  <1>3. CASE ReadTiles
    <2>1. /\ pc = "read" /\ pc' = "edges" /\ tilerow' = tilerow /\ tilecol' = tilecol
          /\ This' = This
      BY <1>3 DEF ReadTiles, Goto, This
    <2>2. /\ buf' \in [Buffers -> Int \X Int]
          /\ buf'.cur = This
          /\ tilecol > 0 => buf'.last = LeftOf(This)
          /\ tilecol < LastCol => buf'.next = RightOf(This)
      <3>. DEFINE b == IF tilecol = 0 THEN [buf EXCEPT !.next = This] ELSE buf
                  r == Rotate(b)
      <3>1. /\ b \in [Buffers -> Int \X Int] /\ b.next = This
            /\ tilecol > 0 => b.cur = LeftOf(This)
        BY <1>2, <2>1 DEF Reading, BuffersBefore, Buffers
      <3>. HIDE DEF b
      <3>2. /\ r \in [Buffers -> Int \X Int] /\ r.cur = This
            /\ tilecol > 0 => r.last = LeftOf(This)
        BY <3>1 DEF Rotate, Buffers
      <3>3. buf' = IF tilecol < LastCol THEN [r EXCEPT !.next = RightOf(This)] ELSE r
        BY <1>3 DEF ReadTiles, b
      <3>4. RightOf(This) \in Int \X Int
        BY <1>2 DEF RightOf
      <3>. HIDE DEF r
      <3>. QED BY <3>2, <3>3, <3>4 DEF Buffers
    <2>3. /\ dims' \in [Sizes -> Int]
          /\ dims'.nrow = tilerow /\ dims'.ncol = tilecol
          /\ tilerow > 0 => dims'.prevnrow = tilerow - 1
          /\ tilecol > 0 => dims'.prevncol = tilecol - 1
          /\ tilecol < LastCol => dims'.nextncol = tilecol + 1
      <3>. DEFINE w == IF tilecol = 0 THEN 0 ELSE dims.nextncol
      <3>1. w \in Int /\ w = tilecol /\ dims \in [Sizes -> Int]
        BY <1>2, <2>1 DEF Reading, BuffersBefore, Sizes
      <3>2. dims' = [nrow     |-> IF tilecol = 0 THEN tilerow ELSE dims.nrow,
                     prevnrow |-> IF tilecol = 0 THEN dims.nrow ELSE dims.prevnrow,
                     ncol     |-> w, prevncol |-> dims.ncol,
                     nextncol |-> IF tilecol < LastCol THEN tilecol + 1 ELSE w]
        BY <1>3 DEF ReadTiles
      <3>3. /\ tilecol > 0 => dims.nrow = tilerow /\ dims.ncol = tilecol - 1
            /\ tilecol > 0 /\ tilerow > 0 => dims.prevnrow = tilerow - 1
            /\ tilecol = 0 /\ tilerow > 0 => dims.nrow = tilerow - 1
        BY <2>1 DEF Reading, BuffersBefore
      <3>4. /\ dims.nrow \in Int /\ dims.prevnrow \in Int /\ dims.ncol \in Int
        BY <3>1 DEF Sizes
      <3>. HIDE DEF w
      <3>. QED BY <1>2, <3>1, <3>2, <3>3, <3>4 DEF Sizes
    <2>. QED BY <1>1, <1>2, <2>1, <2>2, <2>3
         DEF Reading, BuffersBefore, BuffersOfTile, LinesAtEdges, LeftOf, RightOf
  <1>4. CASE ReadEdgesAboveAndBelow
    <2>1. /\ pc = "edges" /\ pc' = "trace" /\ tilerow' = tilerow /\ tilecol' = tilecol
          /\ This' = This /\ dims' = dims
      BY <1>4 DEF ReadEdgesAboveAndBelow, Goto, This, reading
    <2>2. /\ buf' \in [Buffers -> Int \X Int]
          /\ buf'.cur = buf.cur /\ buf'.last = buf.last /\ buf'.next = buf.next
          /\ tilerow > 0       => buf'.above = Above(This)
          /\ tilerow < LastRow => buf'.below = Below(This)
      <3>1. buf' = [buf EXCEPT !.above = IF tilerow > 0 THEN Above(This) ELSE @,
                               !.below = IF tilerow < LastRow THEN Below(This) ELSE @]
        BY <1>4 DEF ReadEdgesAboveAndBelow
      <3>2. Above(This) \in Int \X Int /\ Below(This) \in Int \X Int
        BY <1>2 DEF Above, Below
      <3>3. buf \in [Buffers -> Int \X Int]
        BY DEF Reading
      <3>. QED BY <3>1, <3>2, <3>3 DEF Buffers
    <2>. QED BY <1>1, <2>1, <2>2 DEF Reading, BuffersBefore, BuffersOfTile, LinesAtEdges,
                                     Above, Below, LeftOf, RightOf
  <1>5. CASE TraceRegions
    <2>1. buf' = buf /\ dims' = dims /\ pc = "trace"
      BY <1>5 DEF TraceRegions, reading
    <2>2. PICK then \in {"count", "integrate"} : NextTile("read", then)
      BY <1>5 DEF TraceRegions
    <2>3. CASE IsLast
      BY <2>1, <2>2, <2>3, NextTileFacts
         DEF Reading, BuffersBefore, BuffersOfTile, LinesAtEdges
    <2>4. CASE ~ IsLast /\ tilecol < LastCol
      <3>1. pc' = "read" /\ tilerow' = tilerow /\ tilecol' = tilecol + 1
        BY <2>2, <2>4, NextTileFacts
      <3>2. This' = RightOf(This) /\ LeftOf(This)' = This
        BY <1>2, <3>1 DEF This, RightOf, LeftOf
      <3>. QED BY <1>1, <1>2, <2>1, <2>4, <3>1, <3>2
           DEF Reading, BuffersBefore, BuffersOfTile, LinesAtEdges
    <2>5. CASE ~ IsLast /\ tilecol = LastCol
      <3>1. pc' = "read" /\ tilerow' = tilerow + 1 /\ tilecol' = 0
        BY <2>2, <2>5, NextTileFacts
      <3>. QED BY <1>1, <1>2, <2>1, <2>5, <3>1
           DEF Reading, BuffersBefore, BuffersOfTile, LinesAtEdges
    <2>. QED BY <1>2, <2>3, <2>4, <2>5
  <1>6. CASE UNCHANGED vars
    BY <1>1, <1>6 DEF vars, passes, reading, Reading, BuffersBefore, BuffersOfTile,
                      LinesAtEdges, This, Above, Below, LeftOf, RightOf
  <1>7. ASSUME pc' \notin Tracing, UNCHANGED reading PROVE Reading'
    BY <1>7 DEF Reading, reading, Tracing, BuffersBefore, BuffersOfTile, LinesAtEdges
  <1>8. CASE ReadError \/ SortComponents \/ RemoveTileDir
    <2>1. UNCHANGED reading /\ pc' \in {"failed", "map", "done"}
      BY <1>8 DEF ReadError, SortComponents, RemoveTileDir, Goto
    <2>. QED BY <1>7, <2>1 DEF Tracing
  <1>9. CASE CountComponents \/ MapComponents \/ IntegrateTile
    <2>1. /\ UNCHANGED reading
          /\ \E again \in {"count", "map", "integrate"}, then \in {"sort", "integrate", "clean"} :
               NextTile(again, then)
      BY <1>9 DEF CountComponents, MapComponents, IntegrateTile
    <2>2. pc' \in {"count", "map", "integrate", "sort", "clean"}
      BY <2>1, NextTileFacts
    <2>. QED BY <1>7, <2>1, <2>2 DEF Tracing
  <1>. QED BY <1>3, <1>4, <1>5, <1>6, <1>8, <1>9 DEF Next

-----------------------------------------------------------------------------
\* Tracing a tile.

\* What the buffers make of the jumps and flows on the edges of the tile.
LEMMA TraceJumps ==
  ASSUME Position, Reading, Bulks, pc = "trace"
  PROVE  /\ tilerow < LastRow => LowerJumps = JumpsBelow(This)
         /\ tilecol < LastCol => RightJumps = JumpsRight(This)
         /\ tilerow > 0 => UpperFlows = FlowsBelow(Above(This))
         /\ tilecol > 0 => LeftFlows = Less(JumpsRight(LeftOf(This)),
                                            BulkBelow[This] - BulkBelow[LeftOf(This)])
  <1>1. /\ buf.cur = This
        /\ tilerow > 0       => buf.above = Above(This)
        /\ tilerow < LastRow => buf.below = Below(This)
        /\ tilecol > 0       => buf.last = LeftOf(This)
        /\ tilecol < LastCol => buf.next = RightOf(This)
    BY DEF Reading, BuffersOfTile, LinesAtEdges
  <1>2. /\ tilerow > 0 => Below(Above(This)) = This
        /\ tilecol > 0 => RightOf(LeftOf(This)) = This
    BY GridFacts, BesideFacts DEF This
  <1>3. tilerow < LastRow => LowerJumps = JumpsBelow(This)
    BY <1>1 DEF LowerJumps, JumpsBelow
  <1>4. tilecol < LastCol => RightJumps = JumpsRight(This)
    BY <1>1 DEF RightJumps, JumpsRight
  <1>5. tilerow > 0 => UpperFlows = FlowsBelow(Above(This))
    BY <1>1, <1>2 DEF UpperFlows, FlowsBelow, JumpsBelow
  <1>6. tilecol > 0 => LeftFlows = Less(JumpsRight(LeftOf(This)),
                                        BulkBelow[This] - BulkBelow[LeftOf(This)])
    BY <1>1, <1>2 DEF LeftFlows, JumpsRight
  <1>. QED BY <1>3, <1>4, <1>5, <1>6

\* Two offsets may change: of the tile below, and of the tile right of it in the
\* first row.
LEMMA TraceBulks ==
  ASSUME Position, Reading, Bulks, TraceRegions
  PROVE  /\ BulkBelow \in [Tiles -> Int] /\ bulkoffsets' \in [Tiles -> Int]
         /\ \A u \in Tiles : bulkoffsets'[u] # bulkoffsets[u] =>
              \/ tilerow < LastRow /\ u = Below(This)
              \/ tilerow = 0 /\ tilecol < LastCol /\ u = RightOf(This)
         /\ \A u \in Tiles : BulkBelow[u] # bulkoffsets[u] =>
              tilerow < LastRow /\ u = Below(This)
         /\ tilerow < LastRow => Mode(LowerJumps) = bulkoffsets'[This] - bulkoffsets'[Below(This)]
         /\ tilecol < LastCol => RightOffset = bulkoffsets'[RightOf(This)] - bulkoffsets'[This]
  <1>1. pc = "trace"
    BY DEF TraceRegions
  <1>2. This \in Tiles /\ This[1] = tilerow /\ This[2] = tilecol
        /\ tilerow \in Nat /\ tilecol \in Nat /\ LastRow \in Nat /\ LastCol \in Nat
        /\ tilerow \in 0 .. LastRow /\ tilecol \in 0 .. LastCol
    BY GridFacts DEF This, Position
  <1>3. /\ tilerow < LastRow => Below(This) \in Tiles /\ Below(This) # This
        /\ tilecol < LastCol => RightOf(This) \in Tiles /\ RightOf(This) # This
        /\ RightOf(This) # Below(This)
    BY <1>2, BesideFacts DEF Below, RightOf
  <1>4. bulkoffsets \in [Tiles -> Int]
    BY DEF Bulks
  <1>5. tilerow < LastRow => Mode(LowerJumps) \in Int
    BY <1>1, <1>2, PhaseTypes, TraceJumps, ModeIsMost
  <1>6. tilecol < LastCol => Mode(RightJumps) \in Int
    BY <1>1, <1>2, PhaseTypes, TraceJumps, ModeIsMost
  <1>7. /\ BulkBelow \in [Tiles -> Int]
        /\ \A u \in Tiles : BulkBelow[u] # bulkoffsets[u] => tilerow < LastRow /\ u = Below(This)
        /\ tilerow < LastRow => BulkBelow[Below(This)] = bulkoffsets[This] - Mode(LowerJumps)
        /\ BulkBelow[This] = bulkoffsets[This]
    BY <1>2, <1>3, <1>4, <1>5 DEF BulkBelow
  <1>8. tilecol < LastCol =>
          /\ RightOffset \in Int
          /\ tilerow # 0 => BulkBelow[This] + RightOffset = BulkBelow[RightOf(This)]
    <2>. HIDE DEF BulkBelow, RightJumps
    <2>. QED BY <1>2, <1>3, <1>6, <1>7 DEF RightOffset
  <1>9. bulkoffsets' = IF tilecol = LastCol THEN BulkBelow
                       ELSE [BulkBelow EXCEPT ![RightOf(This)] = BulkBelow[This] + RightOffset]
    BY DEF TraceRegions
  <1>. HIDE DEF BulkBelow, RightOffset, LowerJumps
  <1>10. /\ bulkoffsets' \in [Tiles -> Int]
         /\ bulkoffsets'[This] = BulkBelow[This]
         /\ tilerow < LastRow => bulkoffsets'[Below(This)] = BulkBelow[Below(This)]
         /\ tilecol < LastCol => bulkoffsets'[RightOf(This)] = BulkBelow[This] + RightOffset
         /\ \A u \in Tiles : bulkoffsets'[u] # BulkBelow[u] =>
              tilerow = 0 /\ tilecol < LastCol /\ u = RightOf(This)
    <2>1. CASE tilecol = LastCol
      BY <1>2, <1>7, <1>9, <2>1
    <2>2. CASE tilecol < LastCol
      BY <1>2, <1>3, <1>7, <1>8, <1>9, <2>2
    <2>. QED BY <1>2, <2>1, <2>2
  <1>11. \A u \in Tiles : bulkoffsets'[u] # bulkoffsets[u] =>
              \/ tilerow < LastRow /\ u = Below(This)
              \/ tilerow = 0 /\ tilecol < LastCol /\ u = RightOf(This)
    BY <1>7, <1>10
  <1>12. tilerow < LastRow => Mode(LowerJumps) = bulkoffsets'[This] - bulkoffsets'[Below(This)]
    BY <1>2, <1>3, <1>4, <1>5, <1>7, <1>10
  <1>13. tilecol < LastCol => RightOffset = bulkoffsets'[RightOf(This)] - bulkoffsets'[This]
    BY <1>2, <1>3, <1>7, <1>8, <1>10
  <1>. QED BY <1>7, <1>10, <1>11, <1>12, <1>13

\* None that was used changes.
LEMMA UsedBulks ==
  ASSUME Position, Reading, Bulks, TraceRegions, NEW t \in Tiles, Passed(t) \/ t = This
  PROVE  /\ bulkoffsets'[t] = bulkoffsets[t]
         /\ t[1] > 0 => bulkoffsets'[Above(t)] = bulkoffsets[Above(t)]
         /\ t[2] > 0 => bulkoffsets'[LeftOf(t)] = bulkoffsets[LeftOf(t)]
         /\ t # This /\ t[1] < LastRow => bulkoffsets'[Below(t)] = bulkoffsets[Below(t)]
         /\ t # This /\ t[2] < LastCol => bulkoffsets'[RightOf(t)] = bulkoffsets[RightOf(t)]
  <1>1. This \in Tiles /\ This[1] = tilerow /\ This[2] = tilecol
        /\ tilerow \in 0 .. LastRow /\ tilecol \in 0 .. LastCol
        /\ LastRow \in Nat /\ LastCol \in Nat
    BY GridFacts DEF This, Position
  <1>2. /\ Below(This) = <<tilerow + 1, tilecol>> /\ RightOf(This) = <<tilerow, tilecol + 1>>
    BY <1>1 DEF Below, RightOf
  <1>3. /\ t[1] \in 0 .. LastRow /\ t[2] \in 0 .. LastCol /\ t = <<t[1], t[2]>>
        /\ t[1] < tilerow \/ (t[1] = tilerow /\ t[2] <= tilecol)
        /\ t # This => t[1] # tilerow \/ t[2] # tilecol
    BY <1>1, BesideFacts DEF Passed, This
  <1>4. \A u \in Tiles : bulkoffsets'[u] # bulkoffsets[u] =>
              \/ u = <<tilerow + 1, tilecol>>
              \/ tilerow = 0 /\ u = <<tilerow, tilecol + 1>>
    BY <1>2, TraceBulks
  <1>5. bulkoffsets'[t] = bulkoffsets[t]
    BY <1>1, <1>3, <1>4
  <1>6. t[1] > 0 => bulkoffsets'[Above(t)] = bulkoffsets[Above(t)]
    BY <1>1, <1>3, <1>4, BesideFacts
  <1>7. t[2] > 0 => bulkoffsets'[LeftOf(t)] = bulkoffsets[LeftOf(t)]
    BY <1>1, <1>3, <1>4, BesideFacts
  <1>8. t # This /\ t[1] < LastRow => bulkoffsets'[Below(t)] = bulkoffsets[Below(t)]
    BY <1>1, <1>3, <1>4, BesideFacts
  <1>9. t # This /\ t[2] < LastCol => bulkoffsets'[RightOf(t)] = bulkoffsets[RightOf(t)]
    BY <1>1, <1>3, <1>4, BesideFacts
  <1>. QED BY <1>5, <1>6, <1>7, <1>8, <1>9

\* Less their mode, flows are mostly zero.
LEMMA SmoothWithoutMode ==
  ASSUME NEW f \in [Arcs -> Int]
  PROVE  MostlySmooth(Less(f, Mode(f)))
  <1>. DEFINE m == Mode(f)
              g == Less(f, m)
  <1>1. m \in Int /\ \A k \in Arcs : Count(f, f[k]) <= Count(f, m)
    BY ModeIsMost
  <1>. HIDE DEF m
  <1>2. \A k \in Arcs : g[k] = f[k] - m /\ g[k] \in Int
    BY <1>1 DEF Less
  <1>. HIDE DEF g
  <1>3. \A n \in Int : Count(g, n - m) = Count(f, n)
    <2>. SUFFICES ASSUME NEW n \in Int PROVE Count(g, n - m) = Count(f, n)
      OBVIOUS
    <2>1. \A k \in Arcs : g[k] = n - m <=> f[k] = n
      BY <1>1, <1>2
    <2>2. {k \in Arcs : g[k] = n - m} = {k \in Arcs : f[k] = n}
      BY <2>1
    <2>. QED BY <2>2 DEF Count
  <1>4. Count(g, 0) = Count(f, m)
    <2>1. m - m = 0
      BY <1>1
    <2>. QED BY <1>1, <1>3, <2>1
  <1>5. \A k \in Arcs : Count(g, g[k]) = Count(f, f[k])
    BY <1>2, <1>3
  <1>. QED BY <1>1, <1>4, <1>5 DEF MostlySmooth, m, g

\* The flows of this tile are added, the others stay.
LEMMA TraceFlows ==
  ASSUME Position, Reading, Bulks, Extent, TraceRegions
  PROVE  /\ DOMAIN edgeflows' = DOMAIN edgeflows
              \cup (IF tilerow > 0       THEN {<<"upper", This>>} ELSE {})
              \cup (IF tilerow < LastRow THEN {<<"lower", This>>} ELSE {})
              \cup (IF tilecol > 0       THEN {<<"left", This>>}  ELSE {})
              \cup (IF tilecol < LastCol THEN {<<"right", This>>} ELSE {})
         /\ \A e \in DOMAIN edgeflows : e[2] # This => edgeflows'[e] = edgeflows[e]
         /\ tilerow > 0       => edgeflows'[<<"upper", This>>] = UpperFlows
         /\ tilerow < LastRow => edgeflows'[<<"lower", This>>] = Less(LowerJumps, Mode(LowerJumps))
         /\ tilecol > 0       => edgeflows'[<<"left", This>>] = LeftFlows
         /\ tilecol < LastCol => edgeflows'[<<"right", This>>] = Less(RightJumps, RightOffset)
  <1>1. edgeflows' = [e \in DOMAIN edgeflows \cup (SidesInside \X {This}) |->
                        IF e[2] = This THEN SeamFlows(e[1]) ELSE edgeflows[e]]
    BY Zenon DEF TraceRegions
  <1>2. SidesInside = (IF tilerow > 0 THEN {"upper"} ELSE {})
              \cup (IF tilerow < LastRow THEN {"lower"} ELSE {})
              \cup (IF tilecol > 0 THEN {"left"} ELSE {})
              \cup (IF tilecol < LastCol THEN {"right"} ELSE {})
    BY DEF SidesInside, Sides
  <1>3. /\ SeamFlows("upper") = UpperFlows
        /\ SeamFlows("lower") = Less(LowerJumps, Mode(LowerJumps))
        /\ SeamFlows("left") = LeftFlows
        /\ SeamFlows("right") = Less(RightJumps, RightOffset)
    BY DEF SeamFlows
  <1>4. \A side \in SidesInside : edgeflows'[<<side, This>>] = SeamFlows(side)
    <2>. HIDE DEF This, SeamFlows, SidesInside
    <2>. QED BY <1>1
  <1>5. \A e \in DOMAIN edgeflows : e[2] # This => edgeflows'[e] = edgeflows[e]
    <2>. HIDE DEF This, SeamFlows, SidesInside
    <2>. QED BY <1>1
  <1>6. DOMAIN edgeflows' = DOMAIN edgeflows \cup (SidesInside \X {This})
    BY <1>1
  <1>. QED BY <1>2, <1>3, <1>4, <1>5, <1>6

\* The tile traced has its seams, every other tile those it had.
LEMMA TraceSeams ==
  ASSUME Position, Reading, Bulks, Extent, Seams, TraceRegions, [Next]_vars
  PROVE  Seams'
  <1>1. /\ Tiles' = Tiles /\ LastRow' = LastRow /\ LastCol' = LastCol
        /\ \A t \in Tiles : JumpsBelow(t)' = JumpsBelow(t) /\ JumpsRight(t)' = JumpsRight(t)
    BY SameTiles
  <1>2. pc = "trace"
    BY DEF TraceRegions
  <1>. SUFFICES ASSUME NEW t \in Tiles PROVE SeamsOf(t)'
    BY <1>1 DEF Seams
  <1>3. /\ FlowsBelow(t)' = Less(JumpsBelow(t), bulkoffsets'[t] - bulkoffsets'[Below(t)])
        /\ FlowsRight(t)' = Less(JumpsRight(t), bulkoffsets'[RightOf(t)] - bulkoffsets'[t])
        /\ t[1] > 0 => FlowsBelow(Above(t))' =
             Less(JumpsBelow(Above(t)), bulkoffsets'[Above(t)] - bulkoffsets'[t])
        /\ t[2] > 0 => FlowsRight(LeftOf(t))' =
             Less(JumpsRight(LeftOf(t)), bulkoffsets'[t] - bulkoffsets'[LeftOf(t)])
    <2>1. ASSUME NEW u \in Tiles
          PROVE  /\ FlowsBelow(u)' = Less(JumpsBelow(u), bulkoffsets'[u] - bulkoffsets'[Below(u)])
                 /\ FlowsRight(u)' = Less(JumpsRight(u), bulkoffsets'[RightOf(u)] - bulkoffsets'[u])
      <3>1. JumpsBelow(u)' = JumpsBelow(u) /\ JumpsRight(u)' = JumpsRight(u)
        BY <1>1
      <3>. QED BY <3>1 DEF FlowsBelow, FlowsRight, Less, Below, RightOf
    <2>2. t[1] > 0 => Above(t) \in Tiles /\ Below(Above(t)) = t
      BY BesideFacts
    <2>3. t[2] > 0 => LeftOf(t) \in Tiles /\ RightOf(LeftOf(t)) = t
      BY BesideFacts
    <2>. QED BY <2>1, <2>2, <2>3
  <1>4. CASE t = This
    <2>1. t[1] = tilerow /\ t[2] = tilecol
      BY <1>4 DEF This
    <2>2. \A side \in Sides : <<side, t>> \notin DOMAIN edgeflows
      <3>1. ~ Passed(t)
        BY <2>1, GridFacts DEF Passed
      <3>. QED BY <1>2, <3>1 DEF Extent, Tracing
    <2>3. <<"lower", t>> \in DOMAIN edgeflows' =>
            /\ t[1] < LastRow /\ edgeflows'[<<"lower", t>>] = FlowsBelow(t)'
            /\ MostlySmooth(edgeflows'[<<"lower", t>>])
      <3>. SUFFICES ASSUME <<"lower", t>> \in DOMAIN edgeflows'
                    PROVE  /\ t[1] < LastRow /\ edgeflows'[<<"lower", t>>] = FlowsBelow(t)'
                           /\ MostlySmooth(edgeflows'[<<"lower", t>>])
        OBVIOUS
      <3>1. tilerow < LastRow
        BY <1>4, <2>2, TraceFlows DEF Sides
      <3>2. edgeflows'[<<"lower", t>>] = Less(LowerJumps, Mode(LowerJumps))
        BY <1>4, <3>1, TraceFlows
      <3>3. LowerJumps = JumpsBelow(t)
        BY <1>2, <1>4, <3>1, TraceJumps
      <3>4. Mode(LowerJumps) = bulkoffsets'[t] - bulkoffsets'[Below(t)]
        BY <1>4, <3>1, TraceBulks
      <3>5. JumpsBelow(t) \in [Arcs -> Int]
        BY <2>1, <3>1, PhaseTypes
      <3>6. MostlySmooth(Less(JumpsBelow(t), Mode(JumpsBelow(t))))
        BY <3>5, SmoothWithoutMode
      <3>. QED BY <1>3, <2>1, <3>1, <3>2, <3>3, <3>4, <3>6
    <2>4. <<"upper", t>> \in DOMAIN edgeflows' =>
            t[1] > 0 /\ edgeflows'[<<"upper", t>>] = FlowsBelow(Above(t))'
      <3>. SUFFICES ASSUME <<"upper", t>> \in DOMAIN edgeflows'
                    PROVE  t[1] > 0 /\ edgeflows'[<<"upper", t>>] = FlowsBelow(Above(t))'
        OBVIOUS
      <3>1. tilerow > 0
        BY <1>4, <2>2, TraceFlows DEF Sides
      <3>2. edgeflows'[<<"upper", t>>] = FlowsBelow(Above(t))
        BY <1>2, <1>4, <3>1, TraceFlows, TraceJumps
      <3>3. FlowsBelow(Above(t)) =
              Less(JumpsBelow(Above(t)), bulkoffsets[Above(t)] - bulkoffsets[t])
        <4>1. Below(Above(t)) = t
          BY <2>1, <3>1, BesideFacts
        <4>. QED BY <4>1 DEF FlowsBelow
      <3>4. bulkoffsets'[t] = bulkoffsets[t] /\ bulkoffsets'[Above(t)] = bulkoffsets[Above(t)]
        BY <1>4, <2>1, <3>1, UsedBulks
      <3>. QED BY <1>3, <2>1, <3>1, <3>2, <3>3, <3>4
    <2>5. <<"right", t>> \in DOMAIN edgeflows' =>
            /\ t[2] < LastCol /\ edgeflows'[<<"right", t>>] = FlowsRight(t)'
            /\ t[1] = 0 => MostlySmooth(edgeflows'[<<"right", t>>])
      <3>. SUFFICES ASSUME <<"right", t>> \in DOMAIN edgeflows'
                    PROVE  /\ t[2] < LastCol /\ edgeflows'[<<"right", t>>] = FlowsRight(t)'
                           /\ t[1] = 0 => MostlySmooth(edgeflows'[<<"right", t>>])
        OBVIOUS
      <3>1. tilecol < LastCol
        BY <1>4, <2>2, TraceFlows DEF Sides
      <3>2. edgeflows'[<<"right", t>>] = Less(RightJumps, RightOffset)
        BY <1>4, <3>1, TraceFlows
      <3>3. RightJumps = JumpsRight(t)
        BY <1>2, <1>4, <3>1, TraceJumps
      <3>4. RightOffset = bulkoffsets'[RightOf(t)] - bulkoffsets'[t]
        BY <1>4, <3>1, TraceBulks
      <3>5. JumpsRight(t) \in [Arcs -> Int]
        BY <2>1, <3>1, PhaseTypes
      <3>6. t[1] = 0 => RightOffset = Mode(RightJumps)
        BY <2>1 DEF RightOffset
      <3>7. MostlySmooth(Less(JumpsRight(t), Mode(JumpsRight(t))))
        BY <3>5, SmoothWithoutMode
      <3>. QED BY <1>3, <2>1, <3>1, <3>2, <3>3, <3>4, <3>6, <3>7
    <2>6. <<"left", t>> \in DOMAIN edgeflows' =>
            t[2] > 0 /\ edgeflows'[<<"left", t>>] = FlowsRight(LeftOf(t))'
      <3>. SUFFICES ASSUME <<"left", t>> \in DOMAIN edgeflows'
                    PROVE  t[2] > 0 /\ edgeflows'[<<"left", t>>] = FlowsRight(LeftOf(t))'
        OBVIOUS
      <3>1. tilecol > 0
        BY <1>4, <2>2, TraceFlows DEF Sides
      <3>2. edgeflows'[<<"left", t>>] = Less(JumpsRight(LeftOf(t)),
                                             BulkBelow[t] - BulkBelow[LeftOf(t)])
        BY <1>2, <1>4, <3>1, TraceFlows, TraceJumps
      <3>3. bulkoffsets'[t] = bulkoffsets[t] /\ bulkoffsets'[LeftOf(t)] = bulkoffsets[LeftOf(t)]
        BY <1>4, <2>1, <3>1, UsedBulks
      <3>4. BulkBelow[t] = bulkoffsets[t] /\ BulkBelow[LeftOf(t)] = bulkoffsets[LeftOf(t)]
        <4>1. LeftOf(t) \in Tiles /\ Below(This) # t /\ Below(This) # LeftOf(t)
          <5>1. LeftOf(t) \in Tiles /\ LeftOf(t) = <<t[1], t[2] - 1>> /\ t[1] \in Int
            BY <2>1, <3>1, BesideFacts, GridFacts
          <5>2. Below(This)[1] = t[1] + 1
            BY <1>4 DEF Below
          <5>. QED BY <5>1, <5>2
        <4>. QED BY <4>1, TraceBulks
      <3>. QED BY <1>3, <2>1, <3>1, <3>2, <3>3, <3>4
    <2>. QED BY <1>1, <2>3, <2>4, <2>5, <2>6 DEF SeamsOf, Above, LeftOf
  <1>5. CASE t # This
    <2>1. ASSUME NEW side \in Sides, <<side, t>> \in DOMAIN edgeflows'
          PROVE  /\ <<side, t>> \in DOMAIN edgeflows
                 /\ edgeflows'[<<side, t>>] = edgeflows[<<side, t>>]
                 /\ Passed(t)
      <3>1. <<side, t>> \in DOMAIN edgeflows
        BY <1>5, <2>1, TraceFlows
      <3>2. edgeflows'[<<side, t>>] = edgeflows[<<side, t>>]
        <4>1. <<side, t>>[2] # This
          BY <1>5
        <4>. QED BY <3>1, <4>1, TraceFlows
      <3>3. Passed(t)
        BY <1>2, <3>1 DEF Extent, Tracing
      <3>. QED BY <3>1, <3>2, <3>3
    <2>2. SeamsOf(t)
      BY DEF Seams
    <2>3. <<"lower", t>> \in DOMAIN edgeflows' =>
            /\ t[1] < LastRow /\ edgeflows'[<<"lower", t>>] = FlowsBelow(t)'
            /\ MostlySmooth(edgeflows'[<<"lower", t>>])
      <3>. SUFFICES ASSUME <<"lower", t>> \in DOMAIN edgeflows'
                    PROVE  /\ t[1] < LastRow /\ edgeflows'[<<"lower", t>>] = FlowsBelow(t)'
                           /\ MostlySmooth(edgeflows'[<<"lower", t>>])
        OBVIOUS
      <3>1. /\ edgeflows'[<<"lower", t>>] = edgeflows[<<"lower", t>>] /\ Passed(t)
            /\ <<"lower", t>> \in DOMAIN edgeflows
        BY <2>1 DEF Sides
      <3>2. /\ t[1] < LastRow /\ edgeflows[<<"lower", t>>] = FlowsBelow(t)
            /\ MostlySmooth(edgeflows[<<"lower", t>>])
        BY <2>2, <3>1 DEF SeamsOf
      <3>3. bulkoffsets'[t] = bulkoffsets[t] /\ bulkoffsets'[Below(t)] = bulkoffsets[Below(t)]
        BY <1>5, <3>1, <3>2, UsedBulks
      <3>. QED BY <1>3, <3>1, <3>2, <3>3 DEF FlowsBelow
    <2>4. <<"upper", t>> \in DOMAIN edgeflows' =>
            t[1] > 0 /\ edgeflows'[<<"upper", t>>] = FlowsBelow(Above(t))'
      <3>. SUFFICES ASSUME <<"upper", t>> \in DOMAIN edgeflows'
                    PROVE  t[1] > 0 /\ edgeflows'[<<"upper", t>>] = FlowsBelow(Above(t))'
        OBVIOUS
      <3>1. /\ edgeflows'[<<"upper", t>>] = edgeflows[<<"upper", t>>] /\ Passed(t)
            /\ <<"upper", t>> \in DOMAIN edgeflows
        BY <2>1 DEF Sides
      <3>2. t[1] > 0 /\ edgeflows[<<"upper", t>>] = FlowsBelow(Above(t))
        BY <2>2, <3>1 DEF SeamsOf
      <3>3. bulkoffsets'[t] = bulkoffsets[t] /\ bulkoffsets'[Above(t)] = bulkoffsets[Above(t)]
        BY <3>1, <3>2, UsedBulks
      <3>4. Below(Above(t)) = t
        BY <3>2, BesideFacts
      <3>. QED BY <1>3, <3>1, <3>2, <3>3, <3>4 DEF FlowsBelow
    <2>5. <<"right", t>> \in DOMAIN edgeflows' =>
            /\ t[2] < LastCol /\ edgeflows'[<<"right", t>>] = FlowsRight(t)'
            /\ t[1] = 0 => MostlySmooth(edgeflows'[<<"right", t>>])
      <3>. SUFFICES ASSUME <<"right", t>> \in DOMAIN edgeflows'
                    PROVE  /\ t[2] < LastCol /\ edgeflows'[<<"right", t>>] = FlowsRight(t)'
                           /\ t[1] = 0 => MostlySmooth(edgeflows'[<<"right", t>>])
        OBVIOUS
      <3>1. /\ edgeflows'[<<"right", t>>] = edgeflows[<<"right", t>>] /\ Passed(t)
            /\ <<"right", t>> \in DOMAIN edgeflows
        BY <2>1 DEF Sides
      <3>2. /\ t[2] < LastCol /\ edgeflows[<<"right", t>>] = FlowsRight(t)
            /\ t[1] = 0 => MostlySmooth(edgeflows[<<"right", t>>])
        BY <2>2, <3>1 DEF SeamsOf
      <3>3. bulkoffsets'[t] = bulkoffsets[t] /\ bulkoffsets'[RightOf(t)] = bulkoffsets[RightOf(t)]
        BY <1>5, <3>1, <3>2, UsedBulks
      <3>. QED BY <1>3, <3>1, <3>2, <3>3 DEF FlowsRight
    <2>6. <<"left", t>> \in DOMAIN edgeflows' =>
            t[2] > 0 /\ edgeflows'[<<"left", t>>] = FlowsRight(LeftOf(t))'
      <3>. SUFFICES ASSUME <<"left", t>> \in DOMAIN edgeflows'
                    PROVE  t[2] > 0 /\ edgeflows'[<<"left", t>>] = FlowsRight(LeftOf(t))'
        OBVIOUS
      <3>1. /\ edgeflows'[<<"left", t>>] = edgeflows[<<"left", t>>] /\ Passed(t)
            /\ <<"left", t>> \in DOMAIN edgeflows
        BY <2>1 DEF Sides
      <3>2. t[2] > 0 /\ edgeflows[<<"left", t>>] = FlowsRight(LeftOf(t))
        BY <2>2, <3>1 DEF SeamsOf
      <3>3. bulkoffsets'[t] = bulkoffsets[t] /\ bulkoffsets'[LeftOf(t)] = bulkoffsets[LeftOf(t)]
        BY <3>1, <3>2, UsedBulks
      <3>4. RightOf(LeftOf(t)) = t
        BY <3>2, BesideFacts
      <3>. QED BY <1>3, <3>1, <3>2, <3>3, <3>4 DEF FlowsRight
    <2>. QED BY <1>1, <2>3, <2>4, <2>5, <2>6 DEF SeamsOf, Above, LeftOf
  <1>. QED BY <1>4, <1>5

LEMMA TraceBulksKept ==
  ASSUME Position, Reading, Bulks, TraceRegions, [Next]_vars
  PROVE  Bulks'
  <1>1. Tiles' = Tiles
    BY SameTiles
  <1>2. <<0, 0>> \in Tiles /\ (Passed(<<0, 0>>) \/ <<0, 0>> = This)
    BY GridFacts DEF Passed, This
  <1>3. bulkoffsets'[<<0, 0>>] = bulkoffsets[<<0, 0>>]
    BY <1>2, UsedBulks
  <1>. QED BY <1>1, <1>3, TraceBulks DEF Bulks

\* Seams of the tiles traced, and of no others.
LEMMA TraceExtent ==
  ASSUME Position, Reading, Bulks, Extent, TraceRegions, [Next]_vars
  PROVE  Extent'
  <1>1. Tiles' = Tiles /\ LastRow' = LastRow /\ LastCol' = LastCol /\ pc = "trace"
    BY SameTiles DEF TraceRegions
  <1>2. DOMAIN edgeflows' \subseteq Sides \X Tiles
    BY TraceFlows, GridFacts DEF Extent, Sides
  <1>3. ASSUME NEW t \in Tiles, NEW side \in Sides, <<side, t>> \in DOMAIN edgeflows'
        PROVE  Passed(t) \/ t = This
    <2>1. <<side, t>> \in DOMAIN edgeflows \/ t = This
      BY <1>3, TraceFlows
    <2>. QED BY <1>1, <2>1 DEF Extent, Tracing
  <1>4. ASSUME NEW t \in Tiles, Passed(t) \/ t = This
        PROVE  /\ t[1] < LastRow => <<"lower", t>> \in DOMAIN edgeflows'
               /\ t[2] < LastCol => <<"right", t>> \in DOMAIN edgeflows'
    <2>1. CASE Passed(t)
      BY <1>1, <2>1, TraceFlows DEF Extent
    <2>2. CASE t = This
      BY <2>2, TraceFlows DEF This
    <2>. QED BY <1>4, <2>1, <2>2
  <1>5. PICK then \in {"count", "integrate"} : NextTile("read", then)
    BY DEF TraceRegions
  <1>6. /\ pc' \in Tracing => \A t \in Tiles : Passed(t)' <=> Passed(t) \/ t = This
        /\ pc' \notin Tracing => \A t \in Tiles : Passed(t) \/ t = This
        /\ pc' # "failed"
    BY <1>5, NextTileFacts DEF Tracing
  <1>. QED BY <1>1, <1>2, <1>3, <1>4, <1>6 DEF Extent

-----------------------------------------------------------------------------
\* The other steps leave the flows and the offsets on the seams as they are.

LEMMA OtherSteps ==
  ASSUME Position, Bulks, Extent, Seams, [Next]_vars, ~ TraceRegions
  PROVE  Bulks' /\ Extent' /\ Seams'
  <1>1. /\ Tiles' = Tiles /\ LastRow' = LastRow /\ LastCol' = LastCol
        /\ \A t \in Tiles : JumpsBelow(t)' = JumpsBelow(t) /\ JumpsRight(t)' = JumpsRight(t)
    BY SameTiles
  <1>2. UNCHANGED seams
    BY DEF Next, vars, ReadTiles, ReadEdgesAboveAndBelow, CountComponents,
           SortComponents, MapComponents, IntegrateTile, RemoveTileDir, ReadError
  <1>3. bulkoffsets' = bulkoffsets /\ edgeflows' = edgeflows
    BY <1>2 DEF seams
  <1>4. Bulks'
    BY <1>1, <1>3 DEF Bulks
  <1>5. Seams'
    <2>. SUFFICES ASSUME NEW t \in Tiles PROVE SeamsOf(t)'
      BY <1>1 DEF Seams
    <2>1. ASSUME NEW u \in Tiles PROVE FlowsBelow(u)' = FlowsBelow(u) /\ FlowsRight(u)' = FlowsRight(u)
      <3>1. JumpsBelow(u)' = JumpsBelow(u) /\ JumpsRight(u)' = JumpsRight(u)
        BY <1>1
      <3>. QED BY <1>3, <3>1 DEF FlowsBelow, FlowsRight, Less, Below, RightOf
    <2>2. /\ t[1] > 0 => FlowsBelow(Above(t))' = FlowsBelow(Above(t))
          /\ t[2] > 0 => FlowsRight(LeftOf(t))' = FlowsRight(LeftOf(t))
      BY <2>1, BesideFacts DEF Above, LeftOf
    <2>3. FlowsBelow(t)' = FlowsBelow(t) /\ FlowsRight(t)' = FlowsRight(t)
      BY <2>1
    <2>4. SeamsOf(t)
      BY DEF Seams
    <2>. QED BY <1>1, <1>3, <2>2, <2>3, <2>4 DEF SeamsOf
  <1>6. Extent'
    <2>1. ASSUME pc \in Tracing <=> pc' \in Tracing, pc' # "failed", pc # "failed",
                 pc \in Tracing => UNCHANGED <<tilerow, tilecol>>
          PROVE  Extent'
      BY <1>1, <1>3, <2>1 DEF Extent, Passed
    <2>2. ASSUME pc' = "failed" PROVE Extent'
      BY <1>1, <1>3, <2>2 DEF Extent, Tracing
    <2>3. CASE UNCHANGED vars
      BY <1>1, <1>3, <2>3 DEF vars, passes, Extent, Passed
    <2>4. CASE ReadTiles \/ ReadEdgesAboveAndBelow
      BY <2>1, <2>4 DEF ReadTiles, ReadEdgesAboveAndBelow, Goto, Tracing
    <2>5. CASE SortComponents \/ RemoveTileDir
      BY <2>1, <2>5 DEF SortComponents, RemoveTileDir, Goto, Tracing
    <2>6. CASE CountComponents \/ MapComponents \/ IntegrateTile
      <3>1. pc \in {"count", "map", "integrate"}
        BY <2>6 DEF CountComponents, MapComponents, IntegrateTile
      <3>2. PICK again \in {"count", "map", "integrate"}, then \in {"sort", "integrate", "clean"} :
               NextTile(again, then)
        BY <2>6 DEF CountComponents, MapComponents, IntegrateTile
      <3>3. pc' \in {"count", "map", "integrate", "sort", "clean"}
        BY <3>2, NextTileFacts
      <3>. QED BY <2>1, <3>1, <3>3 DEF Tracing
    <2>7. CASE ReadError
      BY <2>2, <2>7 DEF ReadError, Goto
    <2>. QED BY <2>3, <2>4, <2>5, <2>6, <2>7 DEF Next
  <1>. QED BY <1>4, <1>5, <1>6

LEMMA SeamsStep ==
  Position /\ Reading /\ Bulks /\ Extent /\ Seams /\ [Next]_vars => Bulks' /\ Extent' /\ Seams'
  BY TraceSeams, TraceBulksKept, TraceExtent, OtherSteps

-----------------------------------------------------------------------------
\* The offsets of the tiles in the result.

LEMMA FlippedFacts ==
  ASSUME Position
  PROVE  Flipped(0) = 0 /\ \A n \in Int : Flipped(n) \in Int
  <1>1. run.flipphasesign \in BOOLEAN
    BY GridFacts
  <1>2. \A n \in Int : Flipped(n) = n \/ Flipped(n) = -n
    BY <1>1 DEF Flipped
  <1>. QED BY <1>2

\* What is integrated does not change with the position.
LEMMA BulkFacts ==
  ASSUME Position, Bulks, [Next]_vars, ~ TraceRegions
  PROVE  \A t \in Tiles : Bulk(t) \in Int /\ Bulk(t)' = Bulk(t)
  <1>. SUFFICES ASSUME NEW t \in Tiles PROVE Bulk(t) \in Int /\ Bulk(t)' = Bulk(t)
    OBVIOUS
  <1>1. bulkoffsets' = bulkoffsets
    BY DEF Next, vars, seams, ReadTiles, ReadEdgesAboveAndBelow, CountComponents,
           SortComponents, MapComponents, IntegrateTile, RemoveTileDir, ReadError
  <1>2. bulkoffsets[t] \in Int
    BY DEF Bulks
  <1>3. run' = run
    BY SameTiles
  <1>. QED BY <1>1, <1>2, <1>3, FlippedFacts DEF Bulk, Flipped

\* The pass begins with the first tile, whose offset is 0.
LEMMA StartIntegrating ==
  ASSUME Position, Position', Bulks', Integrated, [Next]_vars, UNCHANGED result,
         pc # "integrate", pc' = "integrate", nextcoloffset = 0
  PROVE  Integrated'
  <1>1. tilerow' = 0 /\ tilecol' = 0
    <2>1. TraceRegions \/ MapComponents
      BY DEF Next, vars, passes, ReadTiles, ReadEdgesAboveAndBelow, CountComponents,
             SortComponents, IntegrateTile, RemoveTileDir, ReadError, Goto, NextTile
    <2>2. PICK again, then : again \in {"read", "map"} /\ NextTile(again, then)
      BY <2>1 DEF TraceRegions, MapComponents
    <2>. QED BY <2>2, NextTileFacts
  <1>2. \A t \in Tiles' : ~ Passed(t)'
    <2>1. \A t \in Tiles : t[1] \in 0 .. LastRow /\ t[2] \in 0 .. LastCol
      BY BesideFacts
    <2>2. Tiles' = Tiles
      BY SameTiles
    <2>. QED BY <1>1, <2>1, <2>2, GridFacts DEF Passed
  <1>3. Bulk(This)' = 0
    <2>1. Flipped(0)' = 0
      BY FlippedFacts, SameTiles
    <2>2. This' = <<0, 0>> /\ bulkoffsets'[<<0, 0>>] = 0
      BY <1>1 DEF This, Bulks
    <2>. QED BY <2>1, <2>2 DEF Bulk, Flipped
  <1>4. offset' = offset /\ nextrowoffset' = nextrowoffset /\ nextcoloffset' = 0
    BY DEF result
  <1>5. offset' \in [Tiles' -> Int] /\ nextrowoffset' \in Int /\ nextcoloffset' \in Int
    BY <1>4, SameTiles DEF Integrated
  <1>6. nextcoloffset' = 0 - Bulk(This)'
    <2>1. 0 = 0 - 0
      OBVIOUS
    <2>. QED BY <1>3, <1>4, <2>1
  <1>. QED BY <1>1, <1>2, <1>5, <1>6 DEF Integrated

LEMMA IntegrateTileStep ==
  ASSUME Position, Position', Bulks, Integrated, IntegrateTile, [Next]_vars
  PROVE  Integrated'
  <1>1. /\ Tiles' = Tiles /\ LastRow' = LastRow /\ LastCol' = LastCol
        /\ pc = "integrate" /\ NextTile("integrate", "clean")
    BY SameTiles DEF IntegrateTile
  <1>2. \A t \in Tiles : Bulk(t) \in Int /\ Bulk(t)' = Bulk(t)
    BY BulkFacts DEF IntegrateTile, TraceRegions
  <1>3. /\ This \in Tiles /\ This = <<tilerow, tilecol>>
        /\ tilerow \in 0 .. LastRow /\ tilecol \in 0 .. LastCol
        /\ LastRow \in Nat /\ LastCol \in Nat
    BY GridFacts DEF This, Position
  <1>4. TileOffset = 0 - Bulk(This) /\ TileOffset \in Int
    BY <1>1, <1>2, <1>3 DEF TileOffset, Integrated
  <1>5. offset' = [offset EXCEPT ![This] = 0 - Bulk(This)]
    BY <1>4 DEF IntegrateTile
  <1>6. offset' \in [Tiles' -> Int]
    BY <1>1, <1>2, <1>3, <1>5 DEF Integrated
  <1>7. /\ tilecol < LastCol => RightOf(This) \in Tiles /\ RightOf(This) = <<tilerow, tilecol + 1>>
        /\ tilerow < LastRow => Below(This) \in Tiles /\ Below(This) = <<tilerow + 1, tilecol>>
    BY <1>3, BesideFacts
  <1>8. /\ tilecol = LastCol => nextrowoffset' = 0
        /\ tilecol < LastCol => nextrowoffset' = 0 - Bulk(RightOf(This))
    BY <1>2, <1>3, <1>4, <1>7 DEF IntegrateTile
  <1>9. /\ tilecol = 0 /\ tilerow < LastRow => nextcoloffset' = 0 - Bulk(Below(This))
        /\ ~ (tilecol = 0 /\ tilerow < LastRow) => nextcoloffset' = nextcoloffset
    BY <1>2, <1>3, <1>4, <1>7 DEF IntegrateTile
  <1>10. nextrowoffset' \in Int /\ nextcoloffset' \in Int
    BY <1>2, <1>3, <1>7, <1>8, <1>9 DEF Integrated
  <1>11. \A t \in Tiles : Passed(t) \/ t = This => offset'[t] = 0 - Bulk(t)'
    BY <1>1, <1>2, <1>3, <1>5 DEF Integrated
  <1>12. CASE IsLast
    <2>1. pc' = "clean" /\ \A t \in Tiles : Passed(t) \/ t = This
      BY <1>1, <1>12, NextTileFacts
    <2>. QED BY <1>1, <1>6, <1>10, <1>11, <2>1 DEF Integrated
  <1>13. CASE ~ IsLast
    <2>1. /\ pc' = "integrate"
          /\ \A t \in Tiles : Passed(t)' <=> Passed(t) \/ t = This
          /\ tilecol < LastCol => tilerow' = tilerow /\ tilecol' = tilecol + 1
          /\ tilecol = LastCol => tilerow' = tilerow + 1 /\ tilecol' = 0
      BY <1>1, <1>13, NextTileFacts
    <2>2. CASE tilecol < LastCol
      <3>1. This' = RightOf(This) /\ tilecol' > 0 /\ tilerow' = tilerow
        BY <1>3, <1>7, <2>1, <2>2 DEF This
      <3>2. nextrowoffset' = 0 - Bulk(This)'
        <4>1. Bulk(This)' = Bulk(RightOf(This))
          BY <1>2, <1>7, <2>2, <3>1 DEF Bulk, Flipped
        <4>. QED BY <1>8, <2>2, <4>1
      <3>3. tilerow < LastRow => nextcoloffset' = 0 - Bulk(<<tilerow + 1, 0>>)
        BY <1>1, <1>3, <1>7, <1>9 DEF Integrated
      <3>4. tilerow' < LastRow' => nextcoloffset' = 0 - Bulk(<<tilerow + 1, 0>>)'
        <4>1. tilerow < LastRow => <<tilerow + 1, 0>> \in Tiles
          BY <1>3, GridFacts
        <4>2. <<tilerow + 1, 0>>' = <<tilerow + 1, 0>>
          BY <3>1
        <4>. QED BY <1>1, <1>2, <3>1, <3>3, <4>1, <4>2
      <3>. QED BY <1>1, <1>6, <1>10, <1>11, <2>1, <3>1, <3>2, <3>4 DEF Integrated
    <2>3. CASE tilecol = LastCol
      <3>1. tilerow < LastRow
        BY <1>3, <1>13, <2>3 DEF IsLast
      <3>2. This' = <<tilerow + 1, 0>> /\ <<tilerow + 1, 0>> \in Tiles
        BY <1>3, <2>1, <2>3, <3>1, GridFacts DEF This
      <3>3. nextcoloffset' = 0 - Bulk(<<tilerow + 1, 0>>)
        <4>1. CASE tilecol = 0
          BY <1>7, <1>9, <3>1, <4>1
        <4>2. CASE tilecol > 0
          BY <1>1, <1>9, <3>1, <4>2 DEF Integrated
        <4>. QED BY <1>3, <4>1, <4>2
      <3>4. nextcoloffset' = 0 - Bulk(This)'
        <4>1. Bulk(This)' = Bulk(<<tilerow + 1, 0>>)
          BY <1>2, <3>2 DEF Bulk, Flipped
        <4>. QED BY <3>3, <4>1
      <3>. QED BY <1>1, <1>3, <1>6, <1>10, <1>11, <2>1, <2>3, <3>4 DEF Integrated
    <2>. QED BY <1>3, <2>2, <2>3
  <1>. QED BY <1>12, <1>13

LEMMA IntegratedStep ==
  ASSUME Position, Position', Bulks, Bulks', Integrated, [Next]_vars
  PROVE  Integrated'
  <1>1. Tiles' = Tiles /\ run' = run
    BY SameTiles
  <1>2. CASE IntegrateTile
    BY <1>2, IntegrateTileStep
  <1>3. ASSUME UNCHANGED result PROVE offset' \in [Tiles' -> Int] /\ offset' = offset /\
               nextrowoffset' = nextrowoffset /\ nextcoloffset' = nextcoloffset /\
               nextrowoffset' \in Int /\ nextcoloffset' \in Int
    BY <1>1, <1>3 DEF result, Integrated
  <1>4. CASE UNCHANGED vars
    <2>1. \A t : Bulk(t)' = Bulk(t) /\ Passed(t)' = Passed(t)
      BY <1>4 DEF vars, passes, seams, Bulk, Flipped, Passed
    <2>2. This' = This /\ LastRow' = LastRow
      BY <1>4 DEF vars, passes, This, LastRow
    <2>3. UNCHANGED <<pc, tilerow, tilecol, offset, nextrowoffset, nextcoloffset>>
      BY <1>4 DEF vars, passes, result
    <2>. QED BY <1>1, <2>1, <2>2, <2>3 DEF Integrated
  <1>5. CASE ReadTiles \/ ReadEdgesAboveAndBelow
    <2>1. UNCHANGED result /\ pc \in {"read", "edges"} /\ pc' \in {"edges", "trace"}
      BY <1>5 DEF ReadTiles, ReadEdgesAboveAndBelow, Goto
    <2>. QED BY <1>3, <2>1 DEF Integrated
  <1>6. CASE TraceRegions
    <2>1. /\ UNCHANGED result /\ pc = "trace"
          /\ \E then \in {"count", "integrate"} : NextTile("read", then)
      BY <1>6 DEF TraceRegions
    <2>2. pc' \in {"read", "count", "integrate"}
      BY <2>1, NextTileFacts
    <2>3. nextcoloffset = 0
      BY <2>1 DEF Integrated
    <2>4. CASE pc' = "integrate"
      BY <2>1, <2>3, <2>4, StartIntegrating
    <2>5. CASE pc' \in {"read", "count"}
      BY <1>3, <2>1, <2>3, <2>5 DEF Integrated
    <2>. QED BY <2>2, <2>4, <2>5
  <1>7. CASE CountComponents
    <2>1. UNCHANGED result /\ pc = "count" /\ NextTile("count", "sort")
      BY <1>7 DEF CountComponents
    <2>2. pc' \in {"count", "sort"} /\ (pc' = "sort" => tilerow' = 0 /\ tilecol' = 0)
      BY <2>1, NextTileFacts
    <2>. QED BY <1>3, <2>1, <2>2 DEF Integrated
  <1>8. CASE SortComponents
    <2>1. UNCHANGED result /\ pc = "sort" /\ pc' = "map"
      BY <1>8 DEF SortComponents, Goto
    <2>. QED BY <1>3, <2>1 DEF Integrated
  <1>9. CASE MapComponents
    <2>1. UNCHANGED result /\ pc = "map" /\ NextTile("map", "integrate")
      BY <1>9 DEF MapComponents
    <2>2. pc' \in {"map", "integrate"}
      BY <2>1, NextTileFacts
    <2>3. nextcoloffset = 0
      BY <2>1 DEF Integrated
    <2>4. CASE pc' = "integrate"
      BY <2>1, <2>3, <2>4, StartIntegrating
    <2>5. CASE pc' = "map"
      BY <1>3, <2>1, <2>3, <2>5 DEF Integrated
    <2>. QED BY <2>2, <2>4, <2>5
  <1>10. CASE RemoveTileDir
    <2>1. UNCHANGED result /\ pc = "clean" /\ pc' = "done"
      BY <1>10 DEF RemoveTileDir, Goto
    <2>2. \A t \in Tiles : Bulk(t)' = Bulk(t)
      BY <2>1, BulkFacts DEF TraceRegions
    <2>. QED BY <1>1, <1>3, <2>1, <2>2 DEF Integrated
  <1>11. CASE ReadError
    <2>1. UNCHANGED result /\ pc' = "failed"
      BY <1>11 DEF ReadError, Goto
    <2>. QED BY <1>3, <2>1 DEF Integrated
  <1>. QED BY <1>2, <1>4, <1>5, <1>6, <1>7, <1>8, <1>9, <1>10, <1>11 DEF Next

-----------------------------------------------------------------------------
\* The theorems.

\* The invariant the others follow from: buffers, sizes, offsets and flows on the
\* seams are those of the tiles AssembleTiles has come to.
THEOREM Invariance == Spec => []IInv
  <1>1. Init => IInv
    BY InitInv
  <1>2. IInv /\ [Next]_vars => IInv'
    BY PositionStep, ReadingStep, SeamsStep, IntegratedStep DEF IInv
  <1>. QED BY <1>1, <1>2, PTL DEF Spec

\* AssembleTiles rotates its buffers so that a tile is traced from its own data
\* and the edges of its four neighbours, for every grid of tiles.
THEOREM AtHand == Spec => []TilesAtHand
  <1>1. IInv => TilesAtHand
    BY DEF IInv, Reading, BuffersOfTile, LinesAtEdges, TilesAtHand
  <1>. QED BY <1>1, Invariance, PTL

\* SetLowerEdge and SetUpperEdge of the tile below, and SetRightEdge and
\* SetLeftEdge of the tile to the right, put the same flows on their seam.
THEOREM Agreement == Spec => []SeamsAgree
  <1>1. IInv => SeamsAgree
    <2>. SUFFICES ASSUME IInv, NEW t \in Tiles
                  PROVE
         /\ {<<"lower", t>>, <<"upper", Below(t)>>} \subseteq DOMAIN edgeflows
              => edgeflows[<<"lower", t>>] = edgeflows[<<"upper", Below(t)>>]
         /\ {<<"right", t>>, <<"left", RightOf(t)>>} \subseteq DOMAIN edgeflows
              => edgeflows[<<"right", t>>] = edgeflows[<<"left", RightOf(t)>>]
      BY DEF SeamsAgree
    <2>1. SeamsOf(t) /\ Position
      BY DEF IInv, Seams
    <2>2. t[1] \in Int /\ t[2] \in Int /\ t = <<t[1], t[2]>>
      BY <2>1, BesideFacts, GridFacts
    <2>3. Above(Below(t)) = t /\ LeftOf(RightOf(t)) = t
      BY <2>2 DEF Above, Below, LeftOf, RightOf
    <2>4. t[1] < LastRow => SeamsOf(Below(t))
      BY <2>1, BesideFacts DEF IInv, Seams
    <2>5. t[2] < LastCol => SeamsOf(RightOf(t))
      BY <2>1, BesideFacts DEF IInv, Seams
    <2>. QED BY <2>1, <2>3, <2>4, <2>5 DEF SeamsOf
  <1>. QED BY <1>1, Invariance, PTL

\* The offsets taken from the histograms leave no discontinuity more frequent
\* than none on the seams they were taken from.
THEOREM Smooth == Spec => []OffsetsSmooth
  <1>1. IInv => OffsetsSmooth
    <2>. SUFFICES ASSUME IInv, NEW e \in DOMAIN edgeflows,
                         e[1] = "lower" \/ (e[1] = "right" /\ e[2][1] = 0)
                  PROVE  MostlySmooth(edgeflows[e])
      BY DEF OffsetsSmooth
    <2>1. e[2] \in Tiles /\ e = <<e[1], e[2]>>
      BY DEF IInv, Extent
    <2>2. SeamsOf(e[2])
      BY <2>1 DEF IInv, Seams
    <2>3. CASE e[1] = "lower"
      BY <2>1, <2>2, <2>3 DEF SeamsOf
    <2>4. CASE e[1] = "right" /\ e[2][1] = 0
      BY <2>1, <2>2, <2>4 DEF SeamsOf
    <2>. QED BY <2>3, <2>4
  <1>. QED BY <1>1, Invariance, PTL

\* The flows the secondary network is given are the discontinuities of the
\* result, whatever the phase, the grid, and whether its sign was flipped.
THEOREM Described == Spec => []FlowsDescribeResult
  <1>1. IInv => FlowsDescribeResult
    <2>. SUFFICES ASSUME IInv, pc \in {"clean", "done"}, NEW t \in Tiles, NEW k \in Arcs
                  PROVE
         /\ t[1] < LastRow => ResultBelow(t, k) = Flipped(edgeflows[<<"lower", t>>][k])
         /\ t[2] < LastCol => ResultRight(t, k) = Flipped(edgeflows[<<"right", t>>][k])
      BY DEF FlowsDescribeResult
    <2>1. Position /\ Bulks /\ SeamsOf(t)
      BY DEF IInv, Seams
    <2>2. ASSUME NEW u \in Tiles
          PROVE  /\ run.cycles[u] \in Int /\ bulkoffsets[u] \in Int
                 /\ run.slip[<<"lower", u>>][k] \in Int /\ run.slip[<<"right", u>>][k] \in Int
                 /\ offset[u] = 0 - Flipped(bulkoffsets[u])
      <3>1. run.cycles[u] \in Int /\ bulkoffsets[u] \in Int
        BY <2>1, GridFacts DEF RunOK, Tiles, Bulks
      <3>2. run.slip[<<"lower", u>>][k] \in Int /\ run.slip[<<"right", u>>][k] \in Int
        BY <2>1, GridFacts DEF RunOK, Tiles
      <3>3. offset[u] = 0 - Flipped(bulkoffsets[u])
        BY DEF IInv, Integrated, Bulk
      <3>. QED BY <3>1, <3>2, <3>3
    <2>3. ASSUME t[1] < LastRow
          PROVE  ResultBelow(t, k) = Flipped(edgeflows[<<"lower", t>>][k])
      <3>1. Below(t) \in Tiles
        BY <2>1, <2>3, BesideFacts
      <3>2. edgeflows[<<"lower", t>>] = FlowsBelow(t)
        BY <2>1, <2>3 DEF IInv, Extent, Tracing, SeamsOf
      <3>3. FlowsBelow(t)[k] =
              Flipped(run.cycles[t] + run.slip[<<"lower", t>>][k]) - Flipped(run.cycles[Below(t)])
                - (bulkoffsets[t] - bulkoffsets[Below(t)])
        BY DEF FlowsBelow, JumpsBelow, Jumps, Less, Along
      <3>4. run.flipphasesign \in BOOLEAN
        BY <2>1, GridFacts
      <3>. DEFINE here == run.cycles[t] + run.slip[<<"lower", t>>][k]
                  there == run.cycles[Below(t)]
                  bulk == bulkoffsets[t]
                  beside == bulkoffsets[Below(t)]
      <3>5. here \in Int /\ there \in Int /\ bulk \in Int /\ beside \in Int
        <4>1. /\ run.cycles[t] \in Int /\ run.slip[<<"lower", t>>][k] \in Int
              /\ bulkoffsets[t] \in Int
          BY <2>2
        <4>2. run.cycles[Below(t)] \in Int /\ bulkoffsets[Below(t)] \in Int
          BY <2>2, <3>1
        <4>. QED BY <4>1, <4>2
      <3>6. ResultBelow(t, k) = (here + (0 - Flipped(bulk))) - (there + (0 - Flipped(beside)))
        BY <2>2, <3>1 DEF ResultBelow
      <3>7. edgeflows[<<"lower", t>>][k] =
              Flipped(here) - Flipped(there) - (bulk - beside)
        BY <3>2, <3>3
      <3>. HIDE DEF here, there, bulk, beside
      <3>8. CASE run.flipphasesign
        BY <3>5, <3>6, <3>7, <3>8 DEF Flipped
      <3>9. CASE ~ run.flipphasesign
        BY <3>5, <3>6, <3>7, <3>9 DEF Flipped
      <3>. QED BY <3>4, <3>8, <3>9
    <2>4. ASSUME t[2] < LastCol
          PROVE  ResultRight(t, k) = Flipped(edgeflows[<<"right", t>>][k])
      <3>1. RightOf(t) \in Tiles
        BY <2>1, <2>4, BesideFacts
      <3>2. edgeflows[<<"right", t>>] = FlowsRight(t)
        BY <2>1, <2>4 DEF IInv, Extent, Tracing, SeamsOf
      <3>3. FlowsRight(t)[k] =
              Flipped(run.cycles[RightOf(t)]) - Flipped(run.cycles[t] + run.slip[<<"right", t>>][k])
                - (bulkoffsets[RightOf(t)] - bulkoffsets[t])
        BY DEF FlowsRight, JumpsRight, Jumps, Less, Along
      <3>4. run.flipphasesign \in BOOLEAN
        BY <2>1, GridFacts
      <3>. DEFINE here == run.cycles[t] + run.slip[<<"right", t>>][k]
                  there == run.cycles[RightOf(t)]
                  bulk == bulkoffsets[t]
                  beside == bulkoffsets[RightOf(t)]
      <3>5. here \in Int /\ there \in Int /\ bulk \in Int /\ beside \in Int
        <4>1. /\ run.cycles[t] \in Int /\ run.slip[<<"right", t>>][k] \in Int
              /\ bulkoffsets[t] \in Int
          BY <2>2
        <4>2. run.cycles[RightOf(t)] \in Int /\ bulkoffsets[RightOf(t)] \in Int
          BY <2>2, <3>1
        <4>. QED BY <4>1, <4>2
      <3>6. ResultRight(t, k) = (there + (0 - Flipped(beside))) - (here + (0 - Flipped(bulk)))
        BY <2>2, <3>1 DEF ResultRight
      <3>7. edgeflows[<<"right", t>>][k] =
              Flipped(there) - Flipped(here) - (beside - bulk)
        BY <3>2, <3>3
      <3>. HIDE DEF here, there, bulk, beside
      <3>8. CASE run.flipphasesign
        BY <3>5, <3>6, <3>7, <3>8 DEF Flipped
      <3>9. CASE ~ run.flipphasesign
        BY <3>5, <3>6, <3>7, <3>9 DEF Flipped
      <3>. QED BY <3>4, <3>8, <3>9
    <2>. QED BY <2>3, <2>4
  <1>. QED BY <1>1, Invariance, PTL

-----------------------------------------------------------------------------
\* The tile files: which are gone, and which are known to have been there.

\* A tile whose edges have been read, and one whose data has.
Edged(t) == Passed(t) \/ (pc = "trace" /\ t = This)
HasBeenRead(t) ==
  \/ Passed(t)
  \/ t = This /\ (tilecol > 0 \/ pc # "read")
  \/ t = RightOf(This) /\ pc # "read"

CostsGone(t) == RmCosts /\ (pc \in Tracing => IF t[1] < LastRow THEN Edged(Below(t)) ELSE Edged(t))
CompsGone(t) ==
  run.rmtmptile /\ (pc \in {"integrate", "clean", "done"} \/ (pc = "map" /\ Passed(t)))
TileGone(t) == run.rmtmptile /\ (pc \in {"clean", "done"} \/ (pc = "integrate" /\ Passed(t)))
LogGone     == run.rmtmptile /\ pc = "done"

Gone(k, t) == \/ k = "costs" /\ CostsGone(t)
              \/ k = "comps" /\ CompsGone(t)
              \/ k \in {"phase", "regions"} /\ TileGone(t)
              \/ k = "log" /\ LogGone

\* What there is, is what there was less what the passes so far have removed.
FilesKept ==
  /\ files \subseteq FilesOf(run)
  /\ ~run.rmtmptile => files = FilesOf(run)
  /\ pc # "failed" => \A k \in Kinds, t \in Tiles :
       <<k, t>> \in files <=> <<k, t>> \in FilesOf(run) /\ ~Gone(k, t)

\* A file that was read was there.
FilesFound ==
  /\ pc # "failed" => \A k \in TileData, t \in Tiles :
       (pc \in Tracing => HasBeenRead(t)) => <<k, t>> \notin run.missing
  /\ run.conncompfile /\ pc \in {"count", "sort", "map", "integrate", "clean", "done"} =>
       \A t \in Tiles : (pc = "count" => Passed(t)) => <<"comps", t>> \notin run.missing
  /\ pc \in {"count", "sort", "map"} => run.conncompfile
  /\ pc = "failed" => \E f \in run.missing : f[1] # "log"

DirectoryKept == tiledir \in BOOLEAN /\ (tiledir <=> (pc = "done" /\ run.rmtmptile => files # {}))

FInv == FilesKept /\ FilesFound /\ DirectoryKept

-----------------------------------------------------------------------------
\* The components: the list of their sizes, before and after it is sorted.

Entry(t, k)  == [tile |-> t, comp |-> k, npix |-> run.comps[t][k]]
EntriesOf(t) == {Entry(t, k) : k \in {j \in DOMAIN run.comps[t] : run.comps[t][j] > 0}}
AllEntries   == UNION {EntriesOf(t) : t \in Tiles}

Distinct(s)  == \A i, j \in DOMAIN s : s[i] = s[j] => i = j
Lists(s, e)  == \E i \in DOMAIN s : s[i] = e

Counters ==
  tileconncompsizes \in Seq([tile : Tiles, npix : Nat])

Listed ==
  /\ conncompsizes \in Seq(AllEntries) /\ Distinct(conncompsizes)
  /\ pc \in Tracing => conncompsizes = <<>>
  /\ pc \in {"count", "sort"} => \A t \in Tiles : \A e \in EntriesOf(t) :
       Lists(conncompsizes, e) <=> (pc = "count" => Passed(t))

\* The longest components, longest first, and as many as there are or may be.
SortedList ==
  pc \in {"map", "integrate", "clean", "done"} /\ run.conncompfile =>
    /\ Len(conncompsizes) = Min({Cardinality(Parts), run.maxncomps})
    /\ \A i, j \in DOMAIN conncompsizes : i < j => Before(conncompsizes[i], conncompsizes[j])
    /\ \A e \in AllEntries : ~Lists(conncompsizes, e) =>
         \A i \in DOMAIN conncompsizes : Before(conncompsizes[i], e)

\* The number of a component is its place in the list, 0 if it has none.
NumberRight(t, k, n) ==
  IF n = 0 THEN \A i \in DOMAIN conncompsizes :
                  ~(conncompsizes[i].tile = t /\ conncompsizes[i].comp = k)
  ELSE n \in DOMAIN conncompsizes /\ conncompsizes[n].tile = t /\ conncompsizes[n].comp = k

Labelled ==
  /\ label \in [Tiles -> Seq(Nat)]
  /\ run.conncompfile /\ pc \in {"map", "integrate", "clean", "done"} =>
       \A t \in Tiles : (pc = "map" => Passed(t)) =>
         \A k \in DOMAIN run.comps[t] : NumberRight(t, k, label[t][k])

CInv == Counters /\ Listed /\ SortedList /\ Labelled

-----------------------------------------------------------------------------
\* Facts about the files.

LEMMA FileNames ==
  ASSUME Position, NEW k \in Kinds, NEW t \in Tiles
  PROVE  <<k, t>> \in FilesOf(run) <=>
           <<k, t>> \notin run.missing /\ (k = "comps" => run.conncompfile)
  BY DEF FilesOf, Tiles

\* Every part of the invariant speaks of tiles of the grid.
LEMMA NeededTiles ==
  ASSUME Position
  PROVE  /\ TilesToRead \subseteq Tiles /\ EdgeTiles \subseteq Tiles
         /\ CostsDone \subseteq Tiles
         /\ Needed \subseteq (Kinds \ {"log"}) \X Tiles
  <1>1. /\ This \in Tiles /\ This[1] = tilerow /\ This[2] = tilecol
        /\ tilerow \in 0 .. LastRow /\ tilecol \in 0 .. LastCol
    BY GridFacts DEF Position, This
  <1>2. /\ tilecol < LastCol => RightOf(This) \in Tiles
        /\ tilerow < LastRow => Below(This) \in Tiles
        /\ tilerow > 0 => Above(This) \in Tiles
    BY <1>1, BesideFacts
  <1>3. TilesToRead \subseteq Tiles /\ EdgeTiles \subseteq Tiles /\ CostsDone \subseteq Tiles
    BY <1>1, <1>2 DEF TilesToRead, EdgeTiles, CostsDone
  <1>4. Needed \subseteq (Kinds \ {"log"}) \X Tiles
    <2>1. CASE pc = "read" \/ pc = "edges"
      BY <1>3, <2>1 DEF Needed, TileData, Kinds
    <2>2. CASE pc \in {"count", "map", "integrate"}
      BY <1>1, <2>2 DEF Needed, Kinds
    <2>3. CASE pc \in {"trace", "sort", "clean", "done", "failed"}
      BY <2>3 DEF Needed
    <2>. QED BY <2>1, <2>2, <2>3 DEF Position
  <1>. QED BY <1>3, <1>4

\* The tile itself and those right of and below it have not been passed.
LEMMA NotPassed ==
  ASSUME Position
  PROVE  /\ ~Passed(This) /\ ~Passed(RightOf(This)) /\ ~Passed(Below(This))
         /\ ~Passed(Below(RightOf(This))) /\ ~Passed(Below(Below(This)))
  <1>1. tilerow \in Nat /\ tilecol \in Nat
    BY GridFacts
  <1>. QED BY <1>1 DEF Passed, This, RightOf, Below

\* No step needs a file that was removed: what is not found was never there.
LEMMA NotFoundIsMissing ==
  ASSUME Position, FInv, NEW f \in Needed, f \notin files
  PROVE  f \in run.missing /\ f[1] # "log"
  <1>1. PICK k \in Kinds \ {"log"}, t \in Tiles : f = <<k, t>>
    BY NeededTiles
  <1>2. pc # "failed"
    BY DEF Needed
  <1>3. ~Gone(k, t) /\ (k = "comps" => run.conncompfile)
    <2>1. CASE pc = "read"
      <3>1. k \in TileData /\ t \in {This, RightOf(This)}
        BY <1>1, <2>1 DEF Needed, TilesToRead
      <3>2. ~CostsGone(t)
        BY <2>1, <3>1, NotPassed DEF CostsGone, Edged, Tracing
      <3>. QED BY <2>1, <3>1, <3>2 DEF Gone, TileGone, TileData
    <2>2. CASE pc = "edges"
      <3>1. k \in TileData /\ (t = Below(This) \/ (t = Above(This) /\ tilerow > 0))
        BY <1>1, <2>2 DEF Needed, EdgeTiles
      <3>2. ~CostsGone(t)
        <4>1. CASE t = Below(This)
          BY <2>2, <4>1, NotPassed DEF CostsGone, Edged, Tracing
        <4>2. CASE t = Above(This) /\ tilerow > 0
          <5>1. /\ tilerow \in 0 .. LastRow /\ tilecol \in Nat /\ LastRow \in Nat
                /\ t = <<tilerow - 1, tilecol>>
            BY <4>2, GridFacts DEF Position, This, Above
          <5>2. t[1] < LastRow /\ Below(t) = <<(tilerow - 1) + 1, tilecol>>
            BY <4>2, <5>1 DEF Below
          <5>3. Below(t) = This
            BY <5>1, <5>2 DEF This
          <5>. QED BY <2>2, <5>2, <5>3, NotPassed DEF CostsGone, Edged, Tracing
        <4>. QED BY <3>1, <4>1, <4>2
      <3>. QED BY <2>2, <3>1, <3>2 DEF Gone, TileGone, TileData
    <2>3. CASE pc = "count" \/ pc = "map"
      <3>1. k = "comps" /\ t = This
        BY <1>1, <2>3 DEF Needed
      <3>. QED BY <2>3, <3>1, NotPassed DEF Gone, CompsGone, FInv, FilesFound
    <2>4. CASE pc = "integrate"
      <3>1. k \in {"phase", "regions"} /\ t = This
        BY <1>1, <2>4 DEF Needed
      <3>. QED BY <2>4, <3>1, NotPassed DEF Gone, TileGone
    <2>5. CASE pc \in {"trace", "sort", "clean", "done"}
      BY <2>5 DEF Needed
    <2>. QED BY <1>2, <2>1, <2>2, <2>3, <2>4, <2>5 DEF Position
  <1>4. <<k, t>> \notin FilesOf(run)
    BY <1>1, <1>2, <1>3 DEF FInv, FilesKept
  <1>. QED BY <1>1, <1>3, <1>4, FileNames

LEMMA FilesInit == Init => FInv
  <1>. SUFFICES ASSUME Init PROVE FInv
    OBVIOUS
  <1>1. Position
    BY InitInv DEF IInv
  <1>2. \A t \in Tiles : ~Passed(t)
    BY <1>1, BesideFacts DEF Init, Passed
  <1>3. \A k \in Kinds, t \in Tiles : ~Gone(k, t)
    <2>1. \A t \in Tiles : t[1] < LastRow => ~Passed(Below(t))
      BY <1>1, <1>2, BesideFacts
    <2>. QED BY <1>2, <2>1 DEF Init, Gone, CostsGone, Edged, Tracing, CompsGone, TileGone, LogGone
  <1>4. FilesKept
    BY <1>3 DEF Init, FilesKept
  <1>5. FilesFound
    BY <1>2 DEF Init, FilesFound, HasBeenRead, Tracing
  <1>6. DirectoryKept
    BY DEF Init, DirectoryKept
  <1>. QED BY <1>4, <1>5, <1>6 DEF FInv

\* A file that was found was there.
LEMMA FoundWasThere ==
  ASSUME Position, FInv, Found, NEW f \in Needed
  PROVE  f \notin run.missing
  BY DEF Found, FInv, FilesKept, FilesOf

LEMMA ReadErrorFiles == ASSUME Position, FInv, ReadError, [Next]_vars PROVE FInv'
  <1>1. /\ pc' = "failed" /\ run' = run /\ tiledir' = tiledir /\ pc # "done"
        /\ files' \subseteq files /\ (~run.rmtmptile => files' = files)
    BY DEF ReadError, Goto, Found, Needed, RmCosts
  <1>2. PICK f \in Needed : f \notin files
    BY DEF ReadError, Found
  <1>3. f \in run.missing /\ f[1] # "log"
    BY <1>2, NotFoundIsMissing
  <1>. QED BY <1>1, <1>3 DEF FInv, FilesKept, FilesFound, DirectoryKept, Tracing, FilesOf

LEMMA ReadTilesFiles == ASSUME Position, FInv, ReadTiles, [Next]_vars PROVE FInv'
  <1>1. /\ pc = "read" /\ pc' = "edges" /\ run' = run /\ This' = This
        /\ UNCHANGED <<tilerow, tilecol, files, tiledir>>
        /\ Tiles' = Tiles /\ LastRow' = LastRow /\ Found
    BY SameTiles DEF ReadTiles, Goto, storage, This
  <1>2. \A t : Passed(t)' = Passed(t) /\ Edged(t)' = Edged(t)
    BY <1>1 DEF Passed, Edged
  <1>3. \A k \in Kinds, t \in Tiles : Gone(k, t)' = Gone(k, t)
    BY <1>1, <1>2 DEF Gone, CostsGone, CompsGone, TileGone, LogGone, Tracing, RmCosts
  <1>4. FilesKept'
    BY <1>1, <1>3 DEF FInv, FilesKept
  <1>5. ASSUME NEW k \in TileData, NEW t \in Tiles, HasBeenRead(t)'
        PROVE  <<k, t>> \notin run.missing
    <2>1. CASE HasBeenRead(t)
      BY <1>1, <2>1 DEF FInv, FilesFound
    <2>2. CASE ~HasBeenRead(t)
      <3>1. \/ t = This /\ tilecol = 0
            \/ t = RightOf(This)
        <4>1. tilecol \in Nat
          BY GridFacts
        <4>. QED BY <1>1, <1>2, <1>5, <2>2, <4>1 DEF HasBeenRead, RightOf
      <3>2. t = RightOf(This) => tilecol < LastCol
        <4>1. t[2] \in 0 .. LastCol /\ tilecol \in Nat /\ LastCol \in Nat
          BY BesideFacts, GridFacts
        <4>. QED BY <4>1 DEF RightOf, This
      <3>3. t \in TilesToRead
        BY <3>1, <3>2 DEF TilesToRead
      <3>. QED BY <1>1, <3>3, FoundWasThere DEF Needed
    <2>. QED BY <2>1, <2>2
  <1>6. FilesFound'
    <2>1. /\ run'.missing = run.missing /\ Tiles' = Tiles /\ pc' = "edges"
          /\ ~(pc \in {"failed", "count", "sort", "map", "integrate", "clean", "done"})'
      BY <1>1
    <2>. QED BY <1>5, <2>1 DEF FilesFound, Tracing
  <1>. QED BY <1>1, <1>4, <1>6 DEF FInv, DirectoryKept

LEMMA EdgesFiles == ASSUME Position, FInv, ReadEdgesAboveAndBelow, [Next]_vars PROVE FInv'
  <1>1. /\ pc = "edges" /\ pc' = "trace" /\ run' = run /\ This' = This
        /\ UNCHANGED <<tilerow, tilecol, tiledir>>
        /\ files' = IF RmCosts THEN files \ ({"costs"} \X CostsDone) ELSE files
        /\ Tiles' = Tiles /\ LastRow' = LastRow
    BY SameTiles DEF ReadEdgesAboveAndBelow, Goto, This
  <1>2. \A t : Passed(t)' = Passed(t) /\ (Edged(t)' <=> Edged(t) \/ t = This)
    BY <1>1 DEF Passed, Edged
  <1>3. ASSUME NEW t \in Tiles
        PROVE  CostsGone(t)' <=> CostsGone(t) \/ (RmCosts /\ t \in CostsDone)
    <2>1. t \in CostsDone <=> IF t[1] < LastRow THEN Below(t) = This ELSE t = This
      <3>1. /\ t[1] \in 0 .. LastRow /\ t[2] \in 0 .. LastCol /\ t = <<t[1], t[2]>>
            /\ tilerow \in 0 .. LastRow /\ tilecol \in 0 .. LastCol
            /\ LastRow \in Nat /\ LastCol \in Nat
        BY BesideFacts, GridFacts DEF Position
      <3>. QED BY <3>1 DEF CostsDone, Above, Below, This
    <2>. QED BY <1>1, <1>2, <2>1 DEF CostsGone, Tracing, RmCosts
  <1>4. \A k \in Kinds, t \in Tiles :
          Gone(k, t)' <=> Gone(k, t) \/ (RmCosts /\ k = "costs" /\ t \in CostsDone)
    BY <1>1, <1>2, <1>3 DEF Gone, CompsGone, TileGone, LogGone
  <1>5. FilesKept'
    BY <1>1, <1>4 DEF FInv, FilesKept, RmCosts
  <1>6. \A t \in Tiles : HasBeenRead(t)' = HasBeenRead(t)
    BY <1>1, <1>2 DEF HasBeenRead, RightOf
  <1>7. FilesFound'
    BY <1>1, <1>6 DEF FInv, FilesFound, Tracing
  <1>. QED BY <1>1, <1>5, <1>7 DEF FInv, DirectoryKept

LEMMA TraceFiles == ASSUME Position, FInv, TraceRegions, [Next]_vars PROVE FInv'
  <1>1. /\ pc = "trace" /\ run' = run /\ UNCHANGED <<files, tiledir>>
        /\ Tiles' = Tiles /\ LastRow' = LastRow /\ LastCol' = LastCol
        /\ NextTile("read", IF run.conncompfile THEN "count" ELSE "integrate")
    BY SameTiles DEF TraceRegions, storage
  <1>2. /\ tilerow \in 0 .. LastRow /\ tilecol \in 0 .. LastCol
        /\ LastRow \in Nat /\ LastCol \in Nat /\ run.conncompfile \in BOOLEAN
    BY GridFacts DEF Position, RunOK
  <1>3. \A t \in Tiles : t = <<t[1], t[2]>> /\ t[1] \in 0 .. LastRow /\ t[2] \in 0 .. LastCol
    BY BesideFacts
  <1>4. CASE ~IsLast
    <2>1. /\ pc' = "read"
          /\ tilecol < LastCol => tilerow' = tilerow /\ tilecol' = tilecol + 1
          /\ tilecol = LastCol => tilerow' = tilerow + 1 /\ tilecol' = 0
          /\ \A t \in Tiles : Passed(t)' <=> Passed(t) \/ t = This
      BY <1>1, <1>4, NextTileFacts
    <2>2. \A t \in Tiles : Edged(t)' <=> Edged(t)
      BY <1>1, <2>1 DEF Edged
    <2>3. \A t \in Tiles : t[1] < LastRow => Below(t) \in Tiles
      BY BesideFacts
    <2>4. \A t \in Tiles : CostsGone(t)' <=> CostsGone(t)
      BY <1>1, <2>1, <2>2, <2>3 DEF CostsGone, Tracing, RmCosts
    <2>5. \A k \in Kinds, t \in Tiles : Gone(k, t)' <=> Gone(k, t)
      BY <1>1, <2>1, <2>4 DEF Gone, CompsGone, TileGone, LogGone
    <2>6. FilesKept'
      BY <1>1, <2>1, <2>5 DEF FInv, FilesKept
    <2>7. ASSUME NEW t \in Tiles, HasBeenRead(t)' PROVE HasBeenRead(t)
      <3>1. CASE tilecol < LastCol
        <4>1. This' = RightOf(This)
          BY <2>1, <3>1 DEF This, RightOf
        <4>. QED BY <1>1, <1>2, <2>1, <2>7, <4>1 DEF HasBeenRead
      <3>2. CASE tilecol = LastCol
        BY <1>1, <1>2, <2>1, <2>7, <3>2 DEF HasBeenRead
      <3>. QED BY <1>2, <3>1, <3>2
    <2>8. FilesFound'
      <3>1. /\ run'.missing = run.missing /\ Tiles' = Tiles /\ pc' = "read"
            /\ ~(pc \in {"failed", "count", "sort", "map", "integrate", "clean", "done"})'
        BY <1>1, <2>1
      <3>2. \A k \in TileData, t \in Tiles : HasBeenRead(t)' => <<k, t>> \notin run.missing
        BY <1>1, <2>7 DEF FInv, FilesFound
      <3>. QED BY <3>1, <3>2 DEF FilesFound, Tracing
    <2>. QED BY <1>1, <2>1, <2>6, <2>8 DEF FInv, DirectoryKept
  <1>5. CASE IsLast
    <2>1. /\ pc' = IF run.conncompfile THEN "count" ELSE "integrate"
          /\ tilerow' = 0 /\ tilecol' = 0
          /\ \A t \in Tiles : Passed(t) \/ t = This
      BY <1>1, <1>5, NextTileFacts
    <2>2. \A t \in Tiles : ~Passed(t)' /\ Edged(t) /\ HasBeenRead(t)
      BY <1>1, <1>3, <2>1 DEF Passed, Edged, HasBeenRead
    <2>3. \A t \in Tiles : t[1] < LastRow => Below(t) \in Tiles
      BY BesideFacts
    <2>4. \A t \in Tiles : CostsGone(t)' <=> CostsGone(t)
      BY <1>1, <2>1, <2>2, <2>3 DEF CostsGone, Tracing, RmCosts
    <2>5. \A k \in Kinds, t \in Tiles : <<k, t>> \in FilesOf(run) => (Gone(k, t)' <=> Gone(k, t))
      BY <1>1, <2>1, <2>2, <2>4, FileNames DEF Gone, CompsGone, TileGone, LogGone
    <2>6. FilesKept'
      BY <1>1, <2>1, <2>5 DEF FInv, FilesKept
    <2>7. FilesFound'
      <3>1. \A k \in TileData, t \in Tiles : <<k, t>> \notin run.missing
        BY <1>1, <2>2 DEF FInv, FilesFound
      <3>2. \A t \in Tiles' : ~Passed(t)'
        BY <1>1, <2>2
      <3>3. /\ run' = run /\ Tiles' = Tiles /\ pc' # "failed"
            /\ run.conncompfile => pc' = "count"
            /\ ~run.conncompfile => pc' = "integrate"
        BY <1>1, <2>1
      <3>. QED BY <1>2, <3>1, <3>2, <3>3 DEF FilesFound
    <2>. QED BY <1>1, <1>2, <2>1, <2>6, <2>7 DEF FInv, DirectoryKept
  <1>. QED BY <1>4, <1>5

LEMMA CountFiles == ASSUME Position, FInv, CountComponents, [Next]_vars PROVE FInv'
  <1>1. /\ pc = "count" /\ run' = run /\ UNCHANGED <<files, tiledir>>
        /\ Tiles' = Tiles /\ LastRow' = LastRow /\ Found /\ NextTile("count", "sort")
    BY SameTiles DEF CountComponents, storage
  <1>2. pc' \in {"count", "sort"}
    BY <1>1, NextTileFacts
  <1>3. \A k \in Kinds, t \in Tiles : Gone(k, t)' <=> Gone(k, t)
    BY <1>1, <1>2 DEF Gone, CostsGone, CompsGone, TileGone, LogGone, Tracing, RmCosts
  <1>4. FilesKept'
    BY <1>1, <1>2, <1>3 DEF FInv, FilesKept
  <1>5. <<"comps", This>> \notin run.missing
    <2>1. <<"comps", This>> \in Needed
      BY <1>1 DEF Needed
    <2>. QED BY <1>1, <2>1, FoundWasThere
  <1>6. \A t \in Tiles : (pc' = "count" => Passed(t)') => Passed(t) \/ t = This
    BY <1>1, <1>2, NextTileFacts
  <1>7. FilesFound'
    <2>1. \A t \in Tiles : (pc' = "count" => Passed(t)') => <<"comps", t>> \notin run.missing
      BY <1>1, <1>5, <1>6 DEF FInv, FilesFound
    <2>2. \A k \in TileData, t \in Tiles : <<k, t>> \notin run.missing
      BY <1>1 DEF FInv, FilesFound, Tracing
    <2>3. run.conncompfile /\ pc' # "failed"
      BY <1>1, <1>2 DEF FInv, FilesFound
    <2>. QED BY <1>1, <2>1, <2>2, <2>3 DEF FilesFound
  <1>. QED BY <1>1, <1>2, <1>4, <1>7 DEF FInv, DirectoryKept

LEMMA SortFiles ==
  ASSUME Position, Integrated, FInv, SortComponents, [Next]_vars PROVE FInv'
  <1>1. /\ pc = "sort" /\ pc' = "map" /\ run' = run /\ UNCHANGED <<files, tiledir>>
        /\ UNCHANGED <<tilerow, tilecol>> /\ tilerow = 0 /\ tilecol = 0
        /\ Tiles' = Tiles /\ LastRow' = LastRow
    BY SameTiles DEF SortComponents, storage, Goto, Integrated
  <1>2. \A t \in Tiles : ~Passed(t)'
    BY <1>1, BesideFacts DEF Passed
  <1>3. \A k \in Kinds, t \in Tiles : Gone(k, t)' <=> Gone(k, t)
    BY <1>1, <1>2 DEF Gone, CostsGone, CompsGone, TileGone, LogGone, Tracing, RmCosts
  <1>4. FilesKept'
    BY <1>1, <1>3 DEF FInv, FilesKept
  <1>5. FilesFound'
    BY <1>1 DEF FInv, FilesFound, Tracing
  <1>. QED BY <1>1, <1>4, <1>5 DEF FInv, DirectoryKept

LEMMA MapFiles == ASSUME Position, FInv, MapComponents, [Next]_vars PROVE FInv'
  <1>1. /\ pc = "map" /\ run' = run /\ tiledir' = tiledir
        /\ files' = IF run.rmtmptile THEN files \ {<<"comps", This>>} ELSE files
        /\ Tiles' = Tiles /\ LastRow' = LastRow /\ NextTile("map", "integrate")
    BY SameTiles DEF MapComponents
  <1>2. /\ ~IsLast => pc' = "map" /\ \A t \in Tiles : Passed(t)' <=> Passed(t) \/ t = This
        /\ IsLast => /\ pc' = "integrate" /\ tilerow' = 0 /\ tilecol' = 0
                     /\ \A t \in Tiles : Passed(t) \/ t = This
    BY <1>1, NextTileFacts
  <1>3. \A t \in Tiles : ~IsLast \/ ~Passed(t)'
    BY <1>2, BesideFacts DEF Passed
  <1>4. \A k \in Kinds, t \in Tiles :
          Gone(k, t)' <=> Gone(k, t) \/ (run.rmtmptile /\ k = "comps" /\ t = This)
    BY <1>1, <1>2, <1>3 DEF Gone, CostsGone, CompsGone, TileGone, LogGone, Tracing, RmCosts
  <1>5. FilesKept'
    BY <1>1, <1>2, <1>4 DEF FInv, FilesKept
  <1>6. FilesFound'
    BY <1>1, <1>2 DEF FInv, FilesFound, Tracing
  <1>. QED BY <1>1, <1>2, <1>5, <1>6 DEF FInv, DirectoryKept

LEMMA IntegrateFiles == ASSUME Position, FInv, IntegrateTile, [Next]_vars PROVE FInv'
  <1>1. /\ pc = "integrate" /\ run' = run /\ tiledir' = tiledir
        /\ files' = IF run.rmtmptile THEN files \ ({"phase", "regions"} \X {This}) ELSE files
        /\ Tiles' = Tiles /\ LastRow' = LastRow /\ NextTile("integrate", "clean")
    BY SameTiles DEF IntegrateTile
  <1>2. /\ ~IsLast => /\ pc' = "integrate"
                      /\ \A t \in Tiles : Passed(t)' <=> Passed(t) \/ t = This
        /\ IsLast => pc' = "clean" /\ \A t \in Tiles : Passed(t) \/ t = This
    BY <1>1, NextTileFacts
  <1>3. \A k \in Kinds, t \in Tiles :
          Gone(k, t)' <=>
            Gone(k, t) \/ (run.rmtmptile /\ k \in {"phase", "regions"} /\ t = This)
    BY <1>1, <1>2 DEF Gone, CostsGone, CompsGone, TileGone, LogGone, Tracing, RmCosts
  <1>4. FilesKept'
    BY <1>1, <1>2, <1>3 DEF FInv, FilesKept
  <1>5. FilesFound'
    BY <1>1, <1>2 DEF FInv, FilesFound, Tracing
  <1>. QED BY <1>1, <1>2, <1>4, <1>5 DEF FInv, DirectoryKept

LEMMA CleanFiles == ASSUME Position, FInv, RemoveTileDir, [Next]_vars PROVE FInv'
  <1>1. /\ pc = "clean" /\ pc' = "done" /\ run' = run
        /\ files' = IF run.rmtmptile THEN files \ ({"log"} \X Tiles) ELSE files
        /\ tiledir' = (run.rmtmptile => files' # {})
        /\ Tiles' = Tiles /\ LastRow' = LastRow
    BY SameTiles DEF RemoveTileDir, Goto
  <1>2. \A k \in Kinds, t \in Tiles :
          Gone(k, t)' <=> Gone(k, t) \/ (run.rmtmptile /\ k = "log")
    BY <1>1 DEF Gone, CostsGone, CompsGone, TileGone, LogGone, Tracing, RmCosts
  <1>3. FilesKept'
    BY <1>1, <1>2 DEF FInv, FilesKept
  <1>4. FilesFound'
    BY <1>1 DEF FInv, FilesFound, Tracing
  <1>. QED BY <1>1, <1>3, <1>4 DEF FInv, DirectoryKept

LEMMA FilesStep == Position /\ Integrated /\ FInv /\ [Next]_vars => FInv'
  <1>. SUFFICES ASSUME Position, Integrated, FInv, [Next]_vars PROVE FInv'
    OBVIOUS
  <1>1. CASE UNCHANGED vars
    <2>1. UNCHANGED <<run, pc, tilerow, tilecol, files, tiledir>>
      BY <1>1 DEF vars, passes, storage
    <2>2. UNCHANGED <<This, Tiles, LastRow, RmCosts>>
      BY <2>1 DEF This, Tiles, LastRow, RmCosts
    <2>3. \A t : Passed(t)' = Passed(t) /\ HasBeenRead(t)' = HasBeenRead(t) /\ Edged(t)' = Edged(t)
      BY <2>1, <2>2 DEF Passed, HasBeenRead, Edged
    <2>4. \A k, t : Gone(k, t)' <=> Gone(k, t)
      BY <2>1, <2>2, <2>3 DEF Gone, CostsGone, CompsGone, TileGone, LogGone
    <2>. QED BY <2>1, <2>2, <2>3, <2>4 DEF FInv, FilesKept, FilesFound, DirectoryKept
  <1>2. CASE Next
    BY <1>2, ReadErrorFiles, ReadTilesFiles, EdgesFiles, TraceFiles, CountFiles, SortFiles,
       MapFiles, IntegrateFiles, CleanFiles DEF Next
  <1>. QED BY <1>1, <1>2

\* The files there are, of those there were, are the ones no pass so far has
\* removed, and what has been read was there.
THEOREM FilesInvariance == Spec => []FInv
  <1>1. IInv /\ FInv /\ [Next]_vars => FInv'
    BY FilesStep DEF IInv
  <1>. QED BY <1>1, FilesInit, Invariance, PTL DEF Spec

\* No pass removes a file that a later step reads, every file that was to be
\* removed is in the end, and none is from a run told to keep them.
THEOREM FilesOutlast == Spec => []FilesLast
  <1>1. Position /\ FInv => FilesLast
    <2>. SUFFICES ASSUME Position, FInv PROVE FilesLast
      OBVIOUS
    <2>1. RunOK(run)
      BY GridFacts
    <2>2. ASSUME run.rmtmptile, pc = "done"
          PROVE  files = IF run.costoutfile THEN {"costs"} \X Tiles ELSE {}
      <3>1. \A k \in Kinds, t \in Tiles :
              <<k, t>> \in files <=> <<k, t>> \in FilesOf(run) /\ ~Gone(k, t)
        BY <2>2 DEF FInv, FilesKept
      <3>2. \A t \in Tiles : <<"costs", t>> \in FilesOf(run)
        <4>1. \A t \in Tiles : <<"costs", t>> \notin run.missing
          BY <2>2 DEF FInv, FilesFound, Tracing, TileData
        <4>. QED BY <4>1, FileNames DEF Kinds
      <3>3. \A k \in Kinds, t \in Tiles : Gone(k, t) <=> (k = "costs" => ~run.costoutfile)
        BY <2>2 DEF Gone, CostsGone, CompsGone, TileGone, LogGone, Tracing, RmCosts, Kinds
      <3>4. files \subseteq Kinds \X Tiles
        BY DEF FInv, FilesKept, FilesOf, Tiles
      <3>5. \A k \in Kinds, t \in Tiles : <<k, t>> \in files <=> k = "costs" /\ run.costoutfile
        BY <3>1, <3>2, <3>3
      <3>6. "costs" \in Kinds
        BY DEF Kinds
      <3>7. CASE run.costoutfile
        BY <3>4, <3>5, <3>6, <3>7
      <3>8. CASE ~run.costoutfile
        BY <3>4, <3>5, <3>8
      <3>. QED BY <3>7, <3>8
    <2>3. ASSUME run.rmtmptile, pc = "done" PROVE tiledir <=> files # {}
      BY <2>3 DEF FInv, DirectoryKept
    <2>4. ~run.rmtmptile => files = FilesOf(run) /\ tiledir
      BY DEF FInv, FilesKept, DirectoryKept
    <2>5. Failed => \E f \in run.missing : f[1] # "log"
      BY DEF FInv, FilesFound, Failed
    <2>. QED BY <2>2, <2>3, <2>4, <2>5 DEF FilesLast
  <1>. QED BY <1>1, Invariance, FilesInvariance, PTL DEF IInv

-----------------------------------------------------------------------------
\* Facts about the lists of components.

LEMMA MaxOfTwo ==
  ASSUME NEW a \in Int, NEW b \in Int
  PROVE  Max({a, b}) = (IF a >= b THEN a ELSE b) /\ Min({a, b}) = (IF a <= b THEN a ELSE b)
  <1>1. \A S, m : m \in S /\ S \subseteq Int /\ (\A y \in S : m >= y) => Max(S) = m
    <2>. SUFFICES ASSUME NEW S, NEW m \in S, S \subseteq Int, \A y \in S : m >= y
                  PROVE  Max(S) = m
      OBVIOUS
    <2>1. Max(S) \in S /\ \A y \in S : Max(S) >= y
      BY DEF Max
    <2>2. Max(S) \in Int /\ m \in Int /\ Max(S) >= m /\ m >= Max(S)
      BY <2>1
    <2>. QED BY <2>2
  <1>2. \A S, m : m \in S /\ S \subseteq Int /\ (\A y \in S : m <= y) => Min(S) = m
    <2>. SUFFICES ASSUME NEW S, NEW m \in S, S \subseteq Int, \A y \in S : m <= y
                  PROVE  Min(S) = m
      OBVIOUS
    <2>1. Min(S) \in S /\ \A y \in S : Min(S) <= y
      BY DEF Min
    <2>2. Min(S) \in Int /\ m \in Int /\ Min(S) <= m /\ m <= Min(S)
      BY <2>1
    <2>. QED BY <2>2
  <1>3. CASE a >= b
    BY <1>1, <1>2, <1>3
  <1>4. CASE ~(a >= b)
    BY <1>1, <1>2, <1>4
  <1>. QED BY <1>3, <1>4

LEMMA MaxOfOne == ASSUME NEW a \in Int PROVE Max({a}) = a
  <1>1. Max({a}) \in {a}
    <2>1. a \in {a} /\ \A y \in {a} : a >= y
      OBVIOUS
    <2>. QED BY <2>1 DEF Max
  <1>. QED BY <1>1

\* SetToSeq lists every element of a finite set once.
LEMMA SetListed ==
  ASSUME NEW S, IsFiniteSet(S)
  PROVE  /\ SetToSeq(S) \in Seq(S) /\ Distinct(SetToSeq(S))
         /\ \A e \in S : Lists(SetToSeq(S), e)
  <1>. DEFINE n == Cardinality(S)
              s == SetToSeq(S)
  <1>1. n \in Nat /\ ExistsBijection(1 .. n, S)
    BY FS_CardinalityType
  <1>2. \E f \in [1 .. n -> S] : IsInjective(f)
    BY <1>1 DEF ExistsBijection, Bijection, Injection
  <1>3. s \in [1 .. n -> S] /\ IsInjective(s)
    BY <1>2 DEF SetToSeq
  <1>4. s \in Surjection(1 .. n, S)
    <2>1. s \in Injection(1 .. n, S)
      BY <1>3 DEF Injection
    <2>2. Cardinality(1 .. n) = n
      BY <1>1, FS_Interval
    <2>. QED BY <2>1, <2>2, FS_Injection
  <1>. HIDE DEF n, s
  <1>5. s \in Seq(S)
    BY <1>1, <1>3, SeqDef
  <1>6. Distinct(s)
    BY <1>3 DEF Distinct, IsInjective
  <1>7. \A e \in S : Lists(s, e)
    BY <1>3, <1>4 DEF Surjection, Lists
  <1>. QED BY <1>5, <1>6, <1>7 DEF s

\* A component is known by its tile and its number there.
LEMMA EntryFacts ==
  ASSUME Position
  PROVE  /\ \A t \in Tiles : run.comps[t] \in Seq(Nat)
         /\ \A t \in Tiles : EntriesOf(t) \subseteq AllEntries
         /\ \A t \in Tiles : \A e \in EntriesOf(t) :
              e.tile = t /\ <<t, e.comp>> \in Parts /\ e = Entry(t, e.comp)
         /\ \A e \in AllEntries : e.tile \in Tiles /\ e \in EntriesOf(e.tile)
         /\ \A q \in Parts : /\ q[1] \in Tiles /\ q[2] \in DOMAIN run.comps[q[1]]
                             /\ q = <<q[1], q[2]>>
                             /\ Entry(q[1], q[2]) \in EntriesOf(q[1])
         /\ \A e \in AllEntries : e.npix = run.comps[e.tile][e.comp] /\ e.npix \in Nat
  <1>1. \A t \in Tiles : run.comps[t] \in Seq(Nat)
    BY GridFacts DEF RunOK, Tiles
  <1>2. \A t \in Tiles : EntriesOf(t) \subseteq AllEntries
    BY DEF AllEntries
  <1>3. \A q : q \in Parts <=> \E t \in Tiles : \E k \in DOMAIN run.comps[t] :
                                 run.comps[t][k] > 0 /\ q = <<t, k>>
    BY DEF Parts
  <1>4. \A t \in Tiles : \A e : e \in EntriesOf(t) <=>
          \E k \in DOMAIN run.comps[t] : run.comps[t][k] > 0 /\ e = Entry(t, k)
    BY DEF EntriesOf
  <1>5. \A t, k : Entry(t, k).tile = t /\ Entry(t, k).comp = k /\
                  Entry(t, k).npix = run.comps[t][k]
    BY DEF Entry
  <1>6. \A t \in Tiles : \A e \in EntriesOf(t) :
          e.tile = t /\ <<t, e.comp>> \in Parts /\ e = Entry(t, e.comp)
    BY <1>3, <1>4, <1>5
  <1>7. \A e \in AllEntries : e.tile \in Tiles /\ e \in EntriesOf(e.tile)
    BY <1>6 DEF AllEntries
  <1>8. \A q \in Parts : /\ q[1] \in Tiles /\ q[2] \in DOMAIN run.comps[q[1]]
                         /\ q = <<q[1], q[2]>> /\ Entry(q[1], q[2]) \in EntriesOf(q[1])
    BY <1>3, <1>4
  <1>9. ASSUME NEW e \in AllEntries
        PROVE  e.npix = run.comps[e.tile][e.comp] /\ e.npix \in Nat
    <2>1. PICK t \in Tiles : e \in EntriesOf(t)
      BY DEF AllEntries
    <2>2. PICK k \in DOMAIN run.comps[t] : run.comps[t][k] > 0 /\ e = Entry(t, k)
      BY <1>4, <2>1
    <2>3. run.comps[t][k] \in Nat
      <3>1. run.comps[t] \in Seq(Nat)
        BY <1>1
      <3>2. DOMAIN run.comps[t] = 1 .. Len(run.comps[t])
        BY <3>1, LenProperties
      <3>. QED BY <2>2, <3>1, <3>2, ElementOfSeq
    <2>. QED BY <1>5, <2>2, <2>3
  <1>. QED BY <1>1, <1>2, <1>6, <1>7, <1>8, <1>9

LEMMA SameEntry ==
  ASSUME Position, NEW d \in AllEntries, NEW e \in AllEntries, d.tile = e.tile, d.comp = e.comp
  PROVE  d = e
  BY EntryFacts

\* The tiles and what they contain stay as they are.
LEMMA SameEntries ==
  ASSUME Position, [Next]_vars
  PROVE  /\ AllEntries' = AllEntries /\ Parts' = Parts /\ Tiles' = Tiles /\ run' = run
         /\ \A t : EntriesOf(t)' = EntriesOf(t)
         /\ \A t, k : Entry(t, k)' = Entry(t, k)
  <1>1. run' = run /\ Tiles' = Tiles
    BY SameTiles
  <1>2. \A t, k : Entry(t, k)' = Entry(t, k)
    BY <1>1 DEF Entry
  <1>3. \A t : EntriesOf(t)' = EntriesOf(t)
    BY <1>1, <1>2 DEF EntriesOf
  <1>. QED BY <1>1, <1>2, <1>3 DEF AllEntries, Parts

LEMMA EntriesFinite == ASSUME Position, NEW t \in Tiles PROVE IsFiniteSet(EntriesOf(t))
  <1>. DEFINE D == DOMAIN run.comps[t]
              f == [e \in EntriesOf(t) |-> e.comp]
  <1>1. IsFiniteSet(D)
    <2>1. run.comps[t] \in Seq(Nat)
      BY EntryFacts
    <2>2. Len(run.comps[t]) \in Nat /\ D = 1 .. Len(run.comps[t])
      BY <2>1, LenProperties
    <2>3. IsFiniteSet(1 .. Len(run.comps[t]))
      BY <2>2, FS_Interval
    <2>. QED BY <2>2, <2>3
  <1>2. \A e \in EntriesOf(t) : e.comp \in D /\ e = Entry(t, e.comp)
    BY EntryFacts DEF EntriesOf, Entry
  <1>3. f \in Injection(EntriesOf(t), D)
    BY <1>2 DEF Injection, IsInjective
  <1>. QED BY <1>1, <1>3, FS_Injection

\* The counters of a tile, once the tile is counted, are its components.
LEMMA CountedFacts ==
  ASSUME Position, Counters, CountComponents
  PROVE  /\ tileconncompsizes' \in Seq([tile : Tiles, npix : Nat])
         /\ Counted(tileconncompsizes') = EntriesOf(This)
  <1>. DEFINE clear == ClearSizes(tileconncompsizes)
              size  == run.comps[This]
              n     == Max({Len(clear), Len(size)})
              m     == tileconncompsizes'
  <1>1. This \in Tiles /\ size \in Seq(Nat)
    BY GridFacts, EntryFacts
  <1>2. Len(size) \in Nat /\ DOMAIN size = 1 .. Len(size) /\ \A k \in DOMAIN size : size[k] \in Nat
    BY <1>1, LenProperties, ElementOfSeq
  <1>3. /\ Len(clear) \in Nat
        /\ \A k \in 1 .. Len(clear) : clear[k] = [tile |-> This, npix |-> 0]
    <2>1. /\ Len(tileconncompsizes) \in Nat
          /\ DOMAIN tileconncompsizes = 1 .. Len(tileconncompsizes)
      BY LenProperties DEF Counters
    <2>2. clear = [k \in 1 .. Len(tileconncompsizes) |-> [tile |-> This, npix |-> 0]]
      BY <2>1 DEF ClearSizes
    <2>3. Len(clear) = Len(tileconncompsizes)
      BY <2>1, <2>2
    <2>. QED BY <2>1, <2>2, <2>3
  <1>4. n \in Nat /\ Len(clear) <= n /\ Len(size) <= n
    BY <1>2, <1>3, MaxOfTwo
  <1>5. m = [k \in 1 .. n |->
              LET old == IF k <= Len(clear) THEN clear[k] ELSE [tile |-> This, npix |-> 0]
              IN  [old EXCEPT !.npix = @ + (IF k <= Len(size) THEN size[k] ELSE 0)]]
    BY DEF CountComponents
  <1>. HIDE DEF clear, n
  <1>6. \A k \in 1 .. n :
          m[k] = [tile |-> This, npix |-> IF k \in DOMAIN size THEN size[k] ELSE 0]
    <2>. SUFFICES ASSUME NEW k \in 1 .. n
                  PROVE  m[k] = [tile |-> This, npix |-> IF k \in DOMAIN size THEN size[k] ELSE 0]
      OBVIOUS
    <2>1. (IF k <= Len(clear) THEN clear[k] ELSE [tile |-> This, npix |-> 0])
             = [tile |-> This, npix |-> 0]
      BY <1>3, <1>4
    <2>2. m[k] = [tile |-> This, npix |-> 0 + (IF k <= Len(size) THEN size[k] ELSE 0)]
      BY <1>5, <2>1
    <2>3. k <= Len(size) <=> k \in DOMAIN size
      BY <1>2, <1>4
    <2>. QED BY <1>2, <2>2, <2>3
  <1>7. DOMAIN m = 1 .. n
    BY <1>5
  <1>. HIDE DEF m
  <1>8. \A k \in 1 .. n : /\ m[k].tile = This /\ m[k] \in [tile : Tiles, npix : Nat]
                             /\ m[k].npix = IF k \in DOMAIN size THEN size[k] ELSE 0
    <2>. SUFFICES ASSUME NEW k \in 1 .. n
                  PROVE  /\ m[k].tile = This /\ m[k] \in [tile : Tiles, npix : Nat]
                         /\ m[k].npix = IF k \in DOMAIN size THEN size[k] ELSE 0
      OBVIOUS
    <2>1. PICK v : v = IF k \in DOMAIN size THEN size[k] ELSE 0
      OBVIOUS
    <2>2. m[k] = [tile |-> This, npix |-> v] /\ v \in Nat
      BY <1>2, <1>6, <2>1
    <2>. QED BY <1>1, <2>1, <2>2
  <1>9. m \in Seq([tile : Tiles, npix : Nat])
    <2>1. \A k \in 1 .. n : m[k] \in [tile : Tiles, npix : Nat]
      BY <1>8
    <2>2. m = [k \in 1 .. n |-> m[k]]
      BY <1>5 DEF m
    <2>3. m \in [1 .. n -> [tile : Tiles, npix : Nat]]
      BY <2>1, <2>2
    <2>. QED BY <1>4, <2>3, SeqDef
  <1>10. Counted(m) = EntriesOf(This)
    <2>1. {j \in DOMAIN m : m[j].npix > 0} = {j \in DOMAIN size : size[j] > 0}
      <3>1. DOMAIN size \subseteq 1 .. n
        BY <1>2, <1>4
      <3>2. \A j \in 1 .. n : m[j].npix = IF j \in DOMAIN size THEN size[j] ELSE 0
        BY <1>8
      <3>. QED BY <1>7, <3>1, <3>2
    <2>2. \A k \in DOMAIN size : m[k].tile = This /\ m[k].npix = size[k]
      <3>1. DOMAIN size \subseteq 1 .. n
        BY <1>2, <1>4
      <3>. QED BY <1>8, <3>1
    <2>. QED BY <2>1, <2>2 DEF Counted, EntriesOf, Entry
  <1>. QED BY <1>9, <1>10 DEF m

-----------------------------------------------------------------------------
\* Every step keeps the components right.

LEMMA ComponentsInit == Init => CInv
  <1>. SUFFICES ASSUME Init PROVE CInv
    OBVIOUS
  <1>1. pc = "read" /\ tileconncompsizes = <<>> /\ conncompsizes = <<>> /\ label = NoComps
    BY DEF Init
  <1>2. Counters /\ conncompsizes \in Seq(AllEntries)
    BY <1>1, EmptySeq DEF Counters
  <1>3. DOMAIN conncompsizes = {}
    BY <1>1
  <1>4. Distinct(conncompsizes)
    BY <1>3 DEF Distinct
  <1>5. label \in [Tiles -> Seq(Nat)]
    BY <1>1, EmptySeq DEF NoComps
  <1>. QED BY <1>1, <1>2, <1>4, <1>5 DEF CInv, Listed, SortedList, Labelled, Tracing

LEMMA CountStep == ASSUME Position, FInv, CInv, CountComponents, [Next]_vars PROVE CInv'
  <1>. DEFINE C    == Counted(tileconncompsizes')
              new  == SetToSeq(C)
              list == conncompsizes \o new
  <1>1. /\ pc = "count" /\ NextTile("count", "sort") /\ conncompsizes' = list
        /\ label' = label /\ run.conncompfile
    BY DEF CountComponents, FInv, FilesFound
  <1>2. Counters' /\ C = EntriesOf(This)
    BY CountedFacts, SameEntries DEF CInv, Counters
  <1>3. This \in Tiles /\ C \subseteq AllEntries /\ IsFiniteSet(C)
    BY <1>2, GridFacts, EntryFacts, EntriesFinite
  <1>4. new \in Seq(AllEntries) /\ Distinct(new) /\ \A e \in AllEntries : Lists(new, e) <=> e \in C
    <2>1. new \in Seq(C) /\ Distinct(new) /\ \A e \in C : Lists(new, e)
      BY <1>3, SetListed
    <2>2. \A i \in DOMAIN new : new[i] \in C
      BY <2>1, LenProperties, ElementOfSeq
    <2>. QED BY <1>3, <2>1, <2>2, SeqMonotonic DEF Lists
  <1>5. /\ conncompsizes \in Seq(AllEntries) /\ Distinct(conncompsizes)
        /\ \A t \in Tiles : \A e \in EntriesOf(t) : Lists(conncompsizes, e) <=> Passed(t)
    BY <1>1 DEF CInv, Listed
  <1>. HIDE DEF C, new
  <1>6. /\ list \in Seq(AllEntries) /\ Len(list) = Len(conncompsizes) + Len(new)
        /\ \A i \in 1 .. Len(conncompsizes) + Len(new) :
             list[i] = IF i <= Len(conncompsizes) THEN conncompsizes[i]
                       ELSE new[i - Len(conncompsizes)]
    BY <1>4, <1>5, ConcatProperties
  <1>. DEFINE c == conncompsizes
              m == Len(c)
              n == Len(new)
  <1>7. /\ m \in Nat /\ n \in Nat /\ DOMAIN c = 1 .. m /\ DOMAIN new = 1 .. n
        /\ DOMAIN list = 1 .. m + n
    BY <1>4, <1>5, <1>6, LenProperties
  <1>8. \A e : Lists(list, e) <=> Lists(c, e) \/ Lists(new, e)
    <2>. SUFFICES ASSUME NEW e PROVE Lists(list, e) <=> Lists(c, e) \/ Lists(new, e)
      OBVIOUS
    <2>. HIDE DEF c, list, m, n
    <2>1. ASSUME Lists(list, e) PROVE Lists(c, e) \/ Lists(new, e)
      <3>1. PICK i \in 1 .. m + n : list[i] = e
        BY <1>7, <2>1 DEF Lists
      <3>2. CASE i <= m
        <4>1. i \in DOMAIN c /\ c[i] = e
          BY <1>6, <1>7, <3>1, <3>2 DEF c, m, n
        <4>. QED BY <4>1 DEF Lists
      <3>3. CASE ~(i <= m)
        <4>1. i - m \in DOMAIN new /\ new[i - m] = e
          BY <1>6, <1>7, <3>1, <3>3 DEF c, m, n
        <4>. QED BY <4>1 DEF Lists
      <3>. QED BY <3>2, <3>3
    <2>2. ASSUME Lists(c, e) PROVE Lists(list, e)
      <3>1. PICK i \in 1 .. m : c[i] = e
        BY <1>7, <2>2 DEF Lists
      <3>2. i \in 1 .. m + n /\ list[i] = e
        BY <1>6, <1>7, <3>1 DEF c, m, n
      <3>. QED BY <1>7, <3>2 DEF Lists
    <2>3. ASSUME Lists(new, e) PROVE Lists(list, e)
      <3>1. PICK i \in 1 .. n : new[i] = e
        BY <1>7, <2>3 DEF Lists
      <3>2. m + i \in 1 .. m + n /\ ~(m + i <= m) /\ (m + i) - m = i
        BY <1>7, <3>1
      <3>3. list[m + i] = e
        BY <1>6, <3>1, <3>2 DEF c, m, n
      <3>. QED BY <1>7, <3>2, <3>3 DEF Lists
    <2>. QED BY <2>1, <2>2, <2>3
  <1>9. \A i \in DOMAIN c : \A j \in DOMAIN new : c[i] # new[j]
    <2>. SUFFICES ASSUME NEW i \in DOMAIN c, NEW j \in DOMAIN new, c[i] = new[j] PROVE FALSE
      OBVIOUS
    <2>1. c[i] \in AllEntries /\ new[j] \in AllEntries
      BY <1>4, <1>5, <1>7, ElementOfSeq
    <2>2. Lists(new, c[i]) /\ Lists(c, c[i])
      BY DEF Lists
    <2>3. c[i] \in EntriesOf(This)
      BY <1>2, <1>4, <2>1, <2>2
    <2>4. Passed(This)
      BY <1>3, <1>5, <2>2, <2>3
    <2>. QED BY <2>4, NotPassed
  <1>10. Distinct(list)
    <2>. SUFFICES ASSUME NEW i \in 1 .. m + n, NEW j \in 1 .. m + n, list[i] = list[j] PROVE i = j
      BY <1>7 DEF Distinct
    <2>. HIDE DEF c, list, m, n
    <2>1. \A k \in 1 .. m + n : /\ k <= m => k \in DOMAIN c /\ list[k] = c[k]
                                /\ ~(k <= m) => k - m \in DOMAIN new /\ list[k] = new[k - m]
      BY <1>6, <1>7 DEF c, m, n
    <2>2. CASE i <= m /\ j <= m
      BY <1>5, <2>1, <2>2 DEF Distinct, c
    <2>3. CASE ~(i <= m) /\ ~(j <= m)
      <3>1. i - m = j - m
        BY <1>4, <2>1, <2>3 DEF Distinct
      <3>. QED BY <1>7, <3>1
    <2>4. CASE (i <= m /\ ~(j <= m)) \/ (~(i <= m) /\ j <= m)
      <3>1. \A k, l \in 1 .. m + n : k <= m /\ ~(l <= m) => list[k] # list[l]
        BY <1>9, <2>1
      <3>. QED BY <2>4, <3>1
    <2>. QED BY <2>2, <2>3, <2>4
  <1>11. /\ pc' \in {"count", "sort"}
         /\ \A t \in Tiles : (pc' = "count" => Passed(t)') <=> Passed(t) \/ t = This
    BY <1>1, NextTileFacts
  <1>12. Listed'
    <2>1. AllEntries' = AllEntries /\ Tiles' = Tiles /\ \A t : EntriesOf(t)' = EntriesOf(t)
      BY SameEntries
    <2>2. ASSUME NEW t \in Tiles, NEW e \in EntriesOf(t)
          PROVE  Lists(list, e) <=> Passed(t) \/ t = This
      <3>1. e \in AllEntries /\ e.tile = t
        BY EntryFacts
      <3>2. e \in C <=> t = This
        BY <1>2, <1>3, <3>1, EntryFacts
      <3>. QED BY <1>4, <1>5, <1>8, <3>1, <3>2
    <2>. HIDE DEF list
    <2>3. \A t \in Tiles' : \A e \in EntriesOf(t)' :
            Lists(conncompsizes', e) <=> (pc' = "count" => Passed(t)')
      BY <1>1, <1>11, <2>1, <2>2
    <2>. QED BY <1>1, <1>6, <1>10, <1>11, <2>1, <2>3 DEF Listed, Tracing
  <1>13. SortedList' /\ Labelled'
    BY <1>1, <1>11, SameEntries DEF SortedList, Labelled, CInv
  <1>. QED BY <1>2, <1>12, <1>13 DEF CInv

\* As many components as there are entries in the full list.
LEMMA ListCounts ==
  ASSUME Position, NEW c \in Seq(AllEntries), Distinct(c), \A e \in AllEntries : Lists(c, e)
  PROVE  Cardinality(Parts) = Len(c)
  <1>. DEFINE n == Len(c)
              f == [i \in 1 .. n |-> <<c[i].tile, c[i].comp>>]
  <1>1. n \in Nat /\ DOMAIN c = 1 .. n /\ \A i \in 1 .. n : c[i] \in AllEntries
    BY LenProperties, ElementOfSeq
  <1>. HIDE DEF n
  <1>2. \A i \in 1 .. n : f[i] \in Parts
    BY <1>1, EntryFacts
  <1>3. f \in [1 .. n -> Parts]
    BY <1>2
  <1>4. ASSUME NEW i \in 1 .. n, NEW j \in 1 .. n, f[i] = f[j] PROVE i = j
    <2>1. c[i].tile = c[j].tile /\ c[i].comp = c[j].comp
      BY <1>4
    <2>2. c[i] = c[j]
      BY <1>1, <2>1, SameEntry
    <2>. QED BY <1>1, <2>2 DEF Distinct
  <1>5. ASSUME NEW q \in Parts PROVE \E i \in 1 .. n : f[i] = q
    <2>1. Entry(q[1], q[2]) \in AllEntries /\ q = <<q[1], q[2]>>
      BY EntryFacts
    <2>2. PICK i \in 1 .. n : c[i] = Entry(q[1], q[2])
      BY <1>1, <2>1 DEF Lists
    <2>3. c[i].tile = q[1] /\ c[i].comp = q[2]
      BY <2>2 DEF Entry
    <2>. QED BY <2>1, <2>3
  <1>6. ExistsBijection(1 .. n, Parts)
    BY <1>3, <1>4, <1>5 DEF ExistsBijection, Bijection, Injection, Surjection, IsInjective
  <1>. QED BY <1>1, <1>6, FS_CountingElements DEF n

LEMMA SortStep == ASSUME Position, FInv, CInv, Integrated, SortComponents, [Next]_vars PROVE CInv'
  <1>. DEFINE c == conncompsizes
              n == Len(c)
              most == Min({n, run.maxncomps})
  <1>1. /\ pc = "sort" /\ pc' = "map" /\ UNCHANGED <<tileconncompsizes, label, tilerow, tilecol>>
        /\ tilerow = 0 /\ tilecol = 0
    BY DEF SortComponents, Goto, Integrated
  <1>2. /\ c \in Seq(AllEntries) /\ Distinct(c) /\ \A e \in AllEntries : Lists(c, e)
    <2>1. \A t \in Tiles : \A e \in EntriesOf(t) : Lists(c, e)
      BY <1>1 DEF CInv, Listed
    <2>. QED BY <2>1, EntryFacts DEF CInv, Listed
  <1>3. n = Cardinality(Parts)
    BY <1>2, ListCounts
  <1>4. n \in Nat /\ DOMAIN c = 1 .. n /\ \A i \in 1 .. n : c[i] \in AllEntries
    BY <1>2, LenProperties, ElementOfSeq
  <1>5. PICK p \in Bijection(DOMAIN c, DOMAIN c) :
          LET sorted == [k \in DOMAIN c |-> c[p[k]]]
          IN  /\ \A j, k \in DOMAIN sorted : j < k => Before(sorted[j], sorted[k])
              /\ conncompsizes' = SubSeq(sorted, 1, Min({Len(sorted), run.maxncomps}))
    BY DEF SortComponents
  <1>. DEFINE sorted == [k \in 1 .. n |-> c[p[k]]]
  <1>6. /\ \A j, k \in 1 .. n : j < k => Before(sorted[j], sorted[k])
        /\ conncompsizes' = SubSeq(sorted, 1, Min({Len(sorted), run.maxncomps}))
    BY <1>4, <1>5
  <1>. HIDE DEF n
  <1>7. p \in [1 .. n -> 1 .. n] /\ \A w \in 1 .. n : \E v \in 1 .. n : p[v] = w
    <2>1. p \in Bijection(1 .. n, 1 .. n)
      BY <1>4, <1>5
    <2>. QED BY <2>1 DEF Bijection, Surjection
  <1>8. \A v, w \in 1 .. n : p[v] = p[w] => v = w
    <2>1. p \in Bijection(1 .. n, 1 .. n)
      BY <1>4, <1>5
    <2>. QED BY <2>1 DEF Bijection, Injection, IsInjective
  <1>9. Len(sorted) = n
    BY <1>4
  <1>10. most \in 0 .. n /\ most = (IF n <= run.maxncomps THEN n ELSE run.maxncomps)
    <2>1. n \in Int /\ run.maxncomps \in Int /\ n \in Nat /\ run.maxncomps \in Nat
      BY <1>4, GridFacts DEF RunOK
    <2>2. most = (IF n <= run.maxncomps THEN n ELSE run.maxncomps)
      BY <2>1, MaxOfTwo
    <2>. QED BY <2>1, <2>2
  <1>. DEFINE s == conncompsizes'
  <1>11. s = SubSeq(sorted, 1, most)
    BY <1>6, <1>9
  <1>. HIDE DEF c, n, most, sorted
  <1>12. \A i \in 1 .. n : sorted[i] = c[p[i]] /\ sorted[i] \in AllEntries
    BY <1>4, <1>7 DEF sorted
  <1>. HIDE DEF s
  <1>13. s \in Seq(AllEntries) /\ Len(s) = most /\ \A i \in 1 .. most : s[i] = sorted[i]
    <2>1. /\ SubSeq(sorted, 1, most) \in Seq(AllEntries)
          /\ Len(SubSeq(sorted, 1, most)) = IF 1 <= most THEN most - 1 + 1 ELSE 0
          /\ \A i \in 1 .. most - 1 + 1 : SubSeq(sorted, 1, most)[i] = sorted[1 + i - 1]
      <3>1. \A i \in 1 .. most : sorted[i] \in AllEntries
        BY <1>4, <1>10, <1>12
      <3>2. most \in Int /\ 1 \in Int
        BY <1>4, <1>10
      <3>. QED BY <3>1, <3>2, SubSeqProperties
    <2>2. \A i \in 1 .. most : 1 + i - 1 = i /\ i \in 1 .. most - 1 + 1
      BY <1>4, <1>10
    <2>3. most - 1 + 1 = most /\ (~(1 <= most) => most = 0)
      BY <1>4, <1>10
    <2>. QED BY <1>11, <2>1, <2>2, <2>3
  <1>14. DOMAIN s = 1 .. most /\ \A i \in 1 .. most : i \in 1 .. n
    BY <1>4, <1>10, <1>13, LenProperties
  <1>15. Distinct(s)
    <2>. SUFFICES ASSUME NEW i \in 1 .. most, NEW j \in 1 .. most, s[i] = s[j] PROVE i = j
      BY <1>14 DEF Distinct
    <2>1. c[p[i]] = c[p[j]] /\ i \in 1 .. n /\ j \in 1 .. n
      BY <1>12, <1>13, <1>14
    <2>2. p[i] = p[j]
      BY <1>2, <1>4, <1>7, <2>1 DEF Distinct
    <2>. QED BY <1>8, <2>1, <2>2
  <1>16. \A i, j \in 1 .. most : i < j => Before(s[i], s[j])
    <2>1. \A j, k \in 1 .. n : j < k => Before(sorted[j], sorted[k])
      BY <1>6
    <2>. QED BY <1>13, <1>14, <2>1
  <1>17. ASSUME NEW e \in AllEntries, ~Lists(s, e), NEW i \in 1 .. most PROVE Before(s[i], e)
    <2>1. PICK w \in 1 .. n : c[w] = e
      BY <1>2, <1>4 DEF Lists
    <2>2. PICK k \in 1 .. n : p[k] = w
      BY <1>7
    <2>3. sorted[k] = e
      BY <1>12, <2>1, <2>2
    <2>4. ~(k \in 1 .. most)
      BY <1>13, <1>14, <1>17, <2>3 DEF Lists
    <2>5. i < k
      BY <1>4, <1>10, <2>4
    <2>6. \A l, m \in 1 .. n : l < m => Before(sorted[l], sorted[m])
      BY <1>6
    <2>. QED BY <1>13, <1>14, <2>3, <2>5, <2>6
  <1>18. /\ AllEntries' = AllEntries /\ Tiles' = Tiles /\ Parts' = Parts /\ run' = run
    BY SameEntries
  <1>19. Counters' /\ Listed'
    BY <1>1, <1>13, <1>15, <1>18 DEF CInv, Counters, Listed, Tracing, s
  <1>20. SortedList'
    <2>1. Len(s) = Min({Cardinality(Parts), run.maxncomps})
      BY <1>3, <1>13 DEF most
    <2>. QED BY <1>14, <1>16, <1>17, <1>18, <2>1 DEF SortedList, s
  <1>21. Labelled'
    <2>1. \A t \in Tiles : ~Passed(t)'
      BY <1>1, BesideFacts DEF Passed
    <2>. QED BY <1>1, <1>18, <2>1 DEF CInv, Labelled
  <1>. QED BY <1>19, <1>20, <1>21 DEF CInv

LEMMA MapStep == ASSUME Position, FInv, CInv, MapComponents, [Next]_vars PROVE CInv'
  <1>. DEFINE c == conncompsizes
  <1>1. /\ pc = "map" /\ NextTile("map", "integrate")
        /\ UNCHANGED <<tileconncompsizes, conncompsizes>>
        /\ label' = [label EXCEPT ![This] = [k \in DOMAIN run.comps[This] |-> Mapping(k)]]
        /\ run.conncompfile
    BY DEF MapComponents, FInv, FilesFound
  <1>2. c \in Seq(AllEntries) /\ Distinct(c)
    BY DEF CInv, Listed
  <1>3. Len(c) \in Nat /\ DOMAIN c = 1 .. Len(c) /\ \A i \in DOMAIN c : c[i] \in AllEntries
    BY <1>2, LenProperties, ElementOfSeq
  <1>4. ASSUME NEW k PROVE Mapping(k) \in Nat /\ NumberRight(This, k, Mapping(k))
    <2>. DEFINE at == {i \in DOMAIN c : c[i].tile = This /\ c[i].comp = k}
    <2>1. Mapping(k) = IF at = {} THEN 0 ELSE Max(at)
      BY DEF Mapping
    <2>2. CASE at = {}
      BY <2>1, <2>2 DEF NumberRight
    <2>3. CASE at # {}
      <3>1. PICK i \in at : TRUE
        BY <2>3
      <3>2. at = {i}
        <4>. SUFFICES ASSUME NEW j \in at PROVE j = i
          BY <3>1
        <4>1. c[i] = c[j]
          BY <1>3, <3>1, SameEntry
        <4>. QED BY <1>2, <3>1, <4>1 DEF Distinct
      <3>3. i \in Nat /\ i # 0 /\ i \in DOMAIN c
        BY <1>3, <3>1
      <3>4. Mapping(k) = i
        BY <2>1, <2>3, <3>2, <3>3, MaxOfOne
      <3>. QED BY <3>1, <3>3, <3>4 DEF NumberRight
    <2>. QED BY <2>2, <2>3
  <1>5. This \in Tiles /\ run.comps[This] \in Seq(Nat)
    BY GridFacts, EntryFacts
  <1>6. /\ AllEntries' = AllEntries /\ Tiles' = Tiles /\ Parts' = Parts /\ run' = run
    BY SameEntries
  <1>7. /\ pc' \in {"map", "integrate"}
        /\ \A t \in Tiles : (pc' = "map" => Passed(t)') => Passed(t) \/ t = This
    BY <1>1, NextTileFacts
  <1>8. Counters' /\ Listed' /\ SortedList'
    BY <1>1, <1>6, <1>7 DEF CInv, Counters, Listed, SortedList, Tracing
  <1>9. label' \in [Tiles -> Seq(Nat)]
    <2>. DEFINE l == [k \in DOMAIN run.comps[This] |-> Mapping(k)]
    <2>1. Len(run.comps[This]) \in Nat /\ DOMAIN run.comps[This] = 1 .. Len(run.comps[This])
      BY <1>5, LenProperties
    <2>2. l \in [1 .. Len(run.comps[This]) -> Nat]
      BY <1>4, <2>1
    <2>3. l \in Seq(Nat)
      BY <2>1, <2>2, SeqDef
    <2>. HIDE DEF l
    <2>4. label \in [Tiles -> Seq(Nat)] /\ label' = [label EXCEPT ![This] = l]
      BY <1>1 DEF CInv, Labelled, l
    <2>. QED BY <2>3, <2>4
  <1>10. ASSUME NEW t \in Tiles, Passed(t) \/ t = This, NEW k \in DOMAIN run.comps[t]
         PROVE  NumberRight(t, k, label'[t][k])
    <2>1. label \in [Tiles -> Seq(Nat)]
      BY DEF CInv, Labelled
    <2>2. CASE t = This
      <3>1. label'[t] = [l \in DOMAIN run.comps[This] |-> Mapping(l)]
        BY <1>1, <1>5, <2>1, <2>2
      <3>2. label'[t][k] = Mapping(k)
        BY <1>10, <2>2, <3>1
      <3>. QED BY <1>4, <2>2, <3>2
    <2>3. CASE t # This /\ Passed(t)
      <3>1. label'[t] = label[t]
        BY <1>1, <1>5, <2>1, <2>3
      <3>2. NumberRight(t, k, label[t][k])
        BY <1>1, <1>10, <2>3 DEF CInv, Labelled
      <3>. QED BY <3>1, <3>2
    <2>. QED BY <1>10, <2>2, <2>3
  <1>11. Labelled'
    <2>1. \A t, k, v : NumberRight(t, k, v) =>
            (IF v = 0 THEN \A i \in DOMAIN conncompsizes' :
                             ~(conncompsizes'[i].tile = t /\ conncompsizes'[i].comp = k)
             ELSE v \in DOMAIN conncompsizes' /\ conncompsizes'[v].tile = t
                    /\ conncompsizes'[v].comp = k)
      BY <1>1 DEF NumberRight
    <2>2. \A t \in Tiles : (pc' = "map" => Passed(t)') =>
            \A k \in DOMAIN run.comps[t] : NumberRight(t, k, label'[t][k])
      BY <1>7, <1>10
    <2>3. ASSUME NEW t \in Tiles, pc' = "map" => Passed(t)', NEW k \in DOMAIN run.comps[t]
          PROVE  NumberRight(t, k, label[t][k])'
      <3>1. NumberRight(t, k, label'[t][k])
        BY <2>2, <2>3
      <3>. QED BY <2>1, <3>1 DEF NumberRight
    <2>. QED BY <1>6, <1>9, <2>3 DEF Labelled
  <1>. QED BY <1>8, <1>11 DEF CInv

LEMMA OtherComponents ==
  ASSUME Position, FInv, CInv, [Next]_vars,
         ~CountComponents, ~SortComponents, ~MapComponents
  PROVE  CInv'
  <1>1. /\ AllEntries' = AllEntries /\ Tiles' = Tiles /\ Parts' = Parts /\ run' = run
        /\ \A t : EntriesOf(t)' = EntriesOf(t)
    BY SameEntries
  <1>2. UNCHANGED components
    BY DEF Next, vars, ReadTiles, ReadEdgesAboveAndBelow, TraceRegions, IntegrateTile,
           RemoveTileDir, ReadError
  <1>3. UNCHANGED <<tileconncompsizes, conncompsizes, label>>
    BY <1>2 DEF components
  <1>4. \A t, k, v : NumberRight(t, k, v)' = NumberRight(t, k, v)
    BY <1>3 DEF NumberRight
  <1>5. ASSUME \/ UNCHANGED <<pc, tilerow, tilecol>>
               \/ pc \in {"read", "edges"} /\ pc' \in {"edges", "trace"}
               \/ pc = "trace" /\ pc' = "read"
               \/ pc = "trace" /\ pc' = "integrate" /\ ~run.conncompfile
               \/ pc \in {"integrate", "clean"} /\ pc' \in {"integrate", "clean", "done"}
               \/ pc' = "failed"
        PROVE  CInv'
    <2>1. Counters' /\ SortedList'
      BY <1>1, <1>3, <1>5 DEF CInv, Counters, SortedList
    <2>2. Listed'
      BY <1>1, <1>3, <1>5 DEF CInv, Listed, Tracing, Passed
    <2>3. Labelled'
      <3>1. label' \in [Tiles' -> Seq(Nat)]
        BY <1>1, <1>3 DEF CInv, Labelled
      <3>2. ASSUME run.conncompfile, pc' \in {"map", "integrate", "clean", "done"},
                   NEW t \in Tiles, pc' = "map" => Passed(t)', NEW k \in DOMAIN run.comps[t]
            PROVE  NumberRight(t, k, label[t][k])
        <4>1. pc \in {"map", "integrate", "clean", "done"} /\ (pc = "map" => Passed(t))
          BY <1>5, <3>2 DEF Passed
        <4>. QED BY <3>2, <4>1 DEF CInv, Labelled
      <3>3. \A t, k : NumberRight(t, k, label[t][k])' = NumberRight(t, k, label[t][k])
        BY <1>3 DEF NumberRight
      <3>. QED BY <1>1, <3>1, <3>2, <3>3 DEF Labelled
    <2>. QED BY <2>1, <2>2, <2>3 DEF CInv
  <1>6. CASE UNCHANGED vars
    BY <1>5, <1>6 DEF vars, passes
  <1>7. CASE ReadTiles \/ ReadEdgesAboveAndBelow \/ ReadError \/ RemoveTileDir
    BY <1>5, <1>7 DEF ReadTiles, ReadEdgesAboveAndBelow, ReadError, RemoveTileDir, Goto
  <1>8. CASE IntegrateTile
    <2>1. pc = "integrate" /\ NextTile("integrate", "clean")
      BY <1>8 DEF IntegrateTile
    <2>2. pc' \in {"integrate", "clean"}
      BY <2>1, NextTileFacts
    <2>. QED BY <1>5, <2>1, <2>2
  <1>9. CASE TraceRegions
    <2>1. pc = "trace" /\ NextTile("read", IF run.conncompfile THEN "count" ELSE "integrate")
      BY <1>9 DEF TraceRegions
    <2>2. /\ ~IsLast => pc' = "read"
          /\ IsLast => pc' = (IF run.conncompfile THEN "count" ELSE "integrate")
                       /\ tilerow' = 0 /\ tilecol' = 0
      BY <2>1, NextTileFacts
    <2>3. CASE pc' = "count"
      <3>1. tilerow' = 0 /\ tilecol' = 0
        BY <2>2, <2>3
      <3>2. \A t \in Tiles : ~Passed(t)'
        BY <3>1, BesideFacts DEF Passed
      <3>3. conncompsizes' = <<>> /\ \A e : ~Lists(conncompsizes', e)
        BY <1>3, <2>1 DEF CInv, Listed, Tracing, Lists
      <3>4. Listed'
        BY <1>1, <1>3, <2>3, <3>2, <3>3 DEF CInv, Listed, Tracing
      <3>5. Counters' /\ SortedList' /\ Labelled'
        BY <1>1, <1>3, <2>3 DEF CInv, Counters, SortedList, Labelled
      <3>. QED BY <3>4, <3>5 DEF CInv
    <2>4. CASE pc' # "count"
      <3>1. pc' = "read" \/ (pc' = "integrate" /\ ~run.conncompfile)
        BY <2>2, <2>4
      <3>. QED BY <1>5, <2>1, <3>1
    <2>. QED BY <2>3, <2>4
  <1>. QED BY <1>6, <1>7, <1>8, <1>9 DEF Next

LEMMA ComponentsStep == Position /\ Integrated /\ FInv /\ CInv /\ [Next]_vars => CInv'
  BY CountStep, SortStep, MapStep, OtherComponents

\* The list holds every component counted so far once, then the longest of all of
\* them, longest first; and the tiles mapped so far have the numbers of its places.
THEOREM ComponentsInvariance == Spec => []CInv
  <1>1. IInv /\ FInv /\ CInv /\ [Next]_vars => CInv'
    BY ComponentsStep DEF IInv
  <1>. QED BY <1>1, ComponentsInit, Invariance, FilesInvariance, PTL DEF Spec

\* AssembleTileConnComps numbers the components by size over all tiles, from 1, with
\* no number given twice, and those beyond the maximum 0.
THEOREM Numbering == Spec => []ComponentsNumbered
  <1>1. Position /\ CInv => ComponentsNumbered
    <2>. DEFINE c == conncompsizes
                most == Min({Cardinality(Parts), run.maxncomps})
    <2>. SUFFICES ASSUME Position, CInv, run.conncompfile, pc \in {"integrate", "clean", "done"}
                  PROVE
           /\ {Number(p) : p \in Parts} \ {0} = 1 .. most
           /\ \A p, q \in Parts : Number(p) # 0 /\ p # q =>
                /\ Number(p) # Number(q)
                /\ Number(q) = 0 \/ Number(p) < Number(q) => Size(p) >= Size(q)
      BY DEF ComponentsNumbered
    <2>1. /\ c \in Seq(AllEntries) /\ Distinct(c) /\ Len(c) = most
          /\ \A i, j \in DOMAIN c : i < j => Before(c[i], c[j])
          /\ \A e \in AllEntries : ~Lists(c, e) => \A i \in DOMAIN c : Before(c[i], e)
      BY DEF CInv, Listed, SortedList
    <2>2. /\ Len(c) \in Nat /\ DOMAIN c = 1 .. most /\ most \in Nat
          /\ \A i \in 1 .. most : c[i] \in AllEntries
      BY <2>1, LenProperties, ElementOfSeq
    <2>. HIDE DEF c, most
    <2>3. \A p \in Parts : /\ Entry(p[1], p[2]) \in AllEntries /\ p = <<p[1], p[2]>>
                           /\ Entry(p[1], p[2]).npix = Size(p)
                           /\ Entry(p[1], p[2]).tile = p[1] /\ Entry(p[1], p[2]).comp = p[2]
      BY EntryFacts DEF Entry, Size
    <2>4. \A p \in Parts : NumberRight(p[1], p[2], Number(p))
      <3>1. \A p \in Parts : p[1] \in Tiles /\ p[2] \in DOMAIN run.comps[p[1]]
        BY EntryFacts
      <3>2. \A t \in Tiles : \A k \in DOMAIN run.comps[t] : NumberRight(t, k, label[t][k])
        BY DEF CInv, Labelled
      <3>. QED BY <3>1, <3>2 DEF Number
    <2>5. \A p \in Parts : Number(p) # 0 =>
            Number(p) \in 1 .. most /\ c[Number(p)] = Entry(p[1], p[2])
      <3>. SUFFICES ASSUME NEW p \in Parts, Number(p) # 0
                    PROVE  Number(p) \in 1 .. most /\ c[Number(p)] = Entry(p[1], p[2])
        OBVIOUS
      <3>1. Number(p) \in 1 .. most /\ c[Number(p)].tile = p[1] /\ c[Number(p)].comp = p[2]
        BY <2>2, <2>4 DEF NumberRight, c
      <3>. QED BY <2>2, <2>3, <3>1, SameEntry
    <2>6. \A p \in Parts : Number(p) = 0 => ~Lists(c, Entry(p[1], p[2]))
      BY <2>3, <2>4 DEF NumberRight, Lists, c
    <2>7. ASSUME NEW i \in 1 .. most PROVE \E p \in Parts : Number(p) = i
      <3>. DEFINE p == <<c[i].tile, c[i].comp>>
      <3>1. c[i].tile \in Tiles /\ c[i] \in EntriesOf(c[i].tile)
        BY <2>2, EntryFacts
      <3>2. p \in Parts /\ c[i] = Entry(p[1], p[2])
        BY <3>1, EntryFacts
      <3>. HIDE DEF p
      <3>3. Number(p) # 0
        BY <2>2, <2>6, <3>2 DEF Lists
      <3>4. Number(p) = i
        BY <2>1, <2>2, <2>5, <3>2, <3>3 DEF Distinct
      <3>. QED BY <3>2, <3>4
    <2>8. {Number(p) : p \in Parts} \ {0} = 1 .. most
      <3>1. \A i \in 1 .. most : i # 0
        OBVIOUS
      <3>. QED BY <2>5, <2>7, <3>1
    <2>9. ASSUME NEW p \in Parts, NEW q \in Parts, Number(p) # 0, p # q
          PROVE  /\ Number(p) # Number(q)
                 /\ Number(q) = 0 \/ Number(p) < Number(q) => Size(p) >= Size(q)
      <3>1. Number(p) # Number(q)
        <4>. SUFFICES ASSUME Number(p) = Number(q) PROVE FALSE
          OBVIOUS
        <4>1. Entry(p[1], p[2]) = Entry(q[1], q[2])
          BY <2>5, <2>9
        <4>. QED BY <2>3, <2>9, <4>1
      <3>2. ASSUME Number(q) = 0 PROVE Size(p) >= Size(q)
        <4>1. Before(Entry(p[1], p[2]), Entry(q[1], q[2]))
          BY <2>1, <2>2, <2>3, <2>5, <2>6, <2>9, <3>2
        <4>. QED BY <2>3, <4>1 DEF Before
      <3>3. ASSUME Number(q) # 0, Number(p) < Number(q) PROVE Size(p) >= Size(q)
        <4>1. Before(Entry(p[1], p[2]), Entry(q[1], q[2]))
          BY <2>1, <2>2, <2>5, <2>9, <3>3
        <4>. QED BY <2>3, <4>1 DEF Before
      <3>. QED BY <3>1, <3>2, <3>3
    <2>. QED BY <2>8, <2>9
  <1>. QED BY <1>1, Invariance, ComponentsInvariance, PTL DEF IInv

-----------------------------------------------------------------------------
\* What the buffers and the sizes may be, and the type invariant.

Ranges ==
  /\ buf \in [Buffers -> Tiles \cup {NoTile}]
  /\ dims \in [Sizes -> -1 .. run.ntilerow + run.ntilecol]

LEMMA RangesInit == Init => Ranges
  <1>. SUFFICES ASSUME Init PROVE Ranges
    OBVIOUS
  <1>1. run.ntilerow \in Nat /\ run.ntilecol \in Nat
    BY InitInv, GridFacts DEF IInv, RunOK
  <1>2. -1 \in -1 .. run.ntilerow + run.ntilecol
    BY <1>1
  <1>. QED BY <1>2 DEF Init, Ranges, Buffers, Sizes

LEMMA RangesStep == Position /\ Ranges /\ [Next]_vars => Ranges'
  <1>. SUFFICES ASSUME Position, Ranges, [Next]_vars PROVE Ranges'
    OBVIOUS
  <1>. DEFINE S == Tiles \cup {NoTile}
              D == -1 .. run.ntilerow + run.ntilecol
  <1>1. Tiles' = Tiles /\ run' = run
    BY SameTiles
  <1>2. /\ This \in Tiles /\ tilerow \in D /\ 0 \in D /\ tilecol \in D /\ tilecol + 1 \in D
        /\ tilecol < LastCol => RightOf(This) \in Tiles
        /\ tilerow > 0 => Above(This) \in Tiles
        /\ tilerow < LastRow => Below(This) \in Tiles
    <2>1. /\ This \in Tiles /\ This[1] = tilerow /\ This[2] = tilecol
          /\ tilerow \in 0 .. LastRow /\ tilecol \in 0 .. LastCol
          /\ run.ntilerow \in Nat /\ run.ntilecol \in Nat
      BY GridFacts DEF Position, This, RunOK
    <2>2. tilerow \in D /\ 0 \in D /\ tilecol \in D /\ tilecol + 1 \in D
      BY <2>1 DEF LastRow, LastCol
    <2>. QED BY <2>1, <2>2, BesideFacts
  <1>3. buf \in [Buffers -> S] /\ dims \in [Sizes -> D]
    BY DEF Ranges
  <1>4. ASSUME UNCHANGED reading PROVE Ranges'
    BY <1>1, <1>3, <1>4 DEF reading, Ranges
  <1>. HIDE DEF S, D
  <1>5. CASE ReadTiles
    <2>. DEFINE b == IF tilecol = 0 THEN [buf EXCEPT !.next = This] ELSE buf
                r == Rotate(b)
                w == IF tilecol = 0 THEN 0 ELSE dims.nextncol
    <2>1. b \in [Buffers -> S]
      BY <1>2, <1>3 DEF S, Buffers
    <2>. HIDE DEF b
    <2>2. r \in [Buffers -> S]
      BY <2>1 DEF Rotate, Buffers
    <2>3. buf' = IF tilecol < LastCol THEN [r EXCEPT !.next = RightOf(This)] ELSE r
      BY <1>5 DEF ReadTiles, b
    <2>. HIDE DEF r
    <2>4. buf' \in [Buffers -> S]
      BY <1>2, <2>2, <2>3 DEF S, Buffers
    <2>5. w \in D
      BY <1>2, <1>3 DEF Sizes
    <2>6. dims' = [nrow     |-> IF tilecol = 0 THEN tilerow ELSE dims.nrow,
                   prevnrow |-> IF tilecol = 0 THEN dims.nrow ELSE dims.prevnrow,
                   ncol     |-> w, prevncol |-> dims.ncol,
                   nextncol |-> IF tilecol < LastCol THEN tilecol + 1 ELSE w]
      BY <1>5 DEF ReadTiles
    <2>. HIDE DEF w
    <2>7. dims' \in [Sizes -> D]
      BY <1>2, <1>3, <2>5, <2>6 DEF Sizes
    <2>. QED BY <1>1, <2>4, <2>7 DEF Ranges, S, D
  <1>6. CASE ReadEdgesAboveAndBelow
    <2>1. /\ dims' = dims
          /\ buf' = [buf EXCEPT !.above = IF tilerow > 0 THEN Above(This) ELSE @,
                                !.below = IF tilerow < LastRow THEN Below(This) ELSE @]
      BY <1>6 DEF ReadEdgesAboveAndBelow
    <2>2. PICK a, l : /\ a = IF tilerow > 0 THEN Above(This) ELSE buf.above
                      /\ l = IF tilerow < LastRow THEN Below(This) ELSE buf.below
      OBVIOUS
    <2>3. a \in S /\ l \in S
      BY <1>2, <1>3, <2>2 DEF S, Buffers
    <2>4. buf' = [buf EXCEPT !.above = a, !.below = l]
      BY <1>3, <2>1, <2>2 DEF Buffers
    <2>5. buf' \in [Buffers -> S]
      BY <1>3, <2>3, <2>4 DEF Buffers
    <2>. QED BY <1>1, <1>3, <2>1, <2>5 DEF Ranges, S, D
  <1>7. CASE UNCHANGED vars
    BY <1>4, <1>7 DEF vars
  <1>8. CASE \/ TraceRegions \/ CountComponents \/ SortComponents \/ MapComponents
             \/ IntegrateTile \/ RemoveTileDir \/ ReadError
    BY <1>4, <1>8 DEF TraceRegions, CountComponents, SortComponents, MapComponents,
       IntegrateTile, RemoveTileDir, ReadError
  <1>. QED BY <1>5, <1>6, <1>7, <1>8 DEF Next

\* Sequences of tiles, flows and components keep their types over the whole run.
THEOREM TypeCorrect == Spec => []TypeOK
  <1>1. IInv /\ Ranges /\ [Next]_vars => Ranges'
    BY RangesStep DEF IInv
  <1>2. Spec => []Ranges
    BY <1>1, RangesInit, Invariance, PTL DEF Spec
  <1>3. IInv /\ FInv /\ CInv /\ Ranges => TypeOK
    <2>. SUFFICES ASSUME IInv, FInv, CInv, Ranges PROVE TypeOK
      OBVIOUS
    <2>1. Position /\ RunOK(run)
      BY GridFacts DEF IInv
    <2>2. tilerow \in 0 .. run.ntilerow /\ tilecol \in 0 .. LastCol
      BY <2>1 DEF Position, LastRow, RunOK
    <2>3. bulkoffsets \in [Tiles -> Int] /\ DOMAIN edgeflows \subseteq Sides \X Tiles
      BY DEF IInv, Bulks, Extent
    <2>4. ASSUME NEW e \in DOMAIN edgeflows PROVE edgeflows[e] \in [Arcs -> Int]
      <3>1. /\ e[1] \in Sides /\ e[2] \in Tiles /\ e = <<e[1], e[2]>> /\ SeamsOf(e[2])
        BY <2>3 DEF IInv, Seams
      <3>2. ASSUME NEW t \in Tiles, t[1] < LastRow PROVE FlowsBelow(t) \in [Arcs -> Int]
        <4>1. bulkoffsets[t] - bulkoffsets[Below(t)] \in Int
          BY <2>1, <2>3, <3>2, BesideFacts
        <4>. QED BY <2>1, <3>2, <4>1, PhaseTypes DEF FlowsBelow, Less
      <3>3. ASSUME NEW t \in Tiles, t[2] < LastCol PROVE FlowsRight(t) \in [Arcs -> Int]
        <4>1. bulkoffsets[RightOf(t)] - bulkoffsets[t] \in Int
          BY <2>1, <2>3, <3>3, BesideFacts
        <4>. QED BY <2>1, <3>3, <4>1, PhaseTypes DEF FlowsRight, Less
      <3>4. CASE e[1] = "lower"
        BY <3>1, <3>2, <3>4 DEF SeamsOf
      <3>5. CASE e[1] = "right"
        BY <3>1, <3>3, <3>5 DEF SeamsOf
      <3>6. CASE e[1] = "upper"
        <4>1. e[2][1] > 0 /\ edgeflows[e] = FlowsBelow(Above(e[2]))
          BY <3>1, <3>6 DEF SeamsOf
        <4>2. /\ Above(e[2]) \in Tiles /\ Above(e[2]) = <<e[2][1] - 1, e[2][2]>>
              /\ e[2][1] \in 0 .. LastRow
          BY <2>1, <3>1, <4>1, BesideFacts
        <4>3. Above(e[2])[1] < LastRow
          BY <2>1, <4>2, GridFacts
        <4>. QED BY <3>2, <4>1, <4>2, <4>3
      <3>7. CASE e[1] = "left"
        <4>1. e[2][2] > 0 /\ edgeflows[e] = FlowsRight(LeftOf(e[2]))
          BY <3>1, <3>7 DEF SeamsOf
        <4>2. /\ LeftOf(e[2]) \in Tiles /\ LeftOf(e[2]) = <<e[2][1], e[2][2] - 1>>
              /\ e[2][2] \in 0 .. LastCol
          BY <2>1, <3>1, <4>1, BesideFacts
        <4>3. LeftOf(e[2])[2] < LastCol
          BY <2>1, <4>2, GridFacts
        <4>. QED BY <3>3, <4>1, <4>2, <4>3
      <3>. QED BY <3>1, <3>4, <3>5, <3>6, <3>7 DEF Sides
    <2>5. \A i \in DOMAIN conncompsizes : conncompsizes[i].tile \in Tiles
      <3>1. conncompsizes \in Seq(AllEntries)
        BY DEF CInv, Listed
      <3>2. \A i \in DOMAIN conncompsizes : conncompsizes[i] \in AllEntries
        BY <3>1, LenProperties, ElementOfSeq
      <3>. QED BY <2>1, <3>2, EntryFacts
    <2>6. files \subseteq FilesOf(run) /\ tiledir \in BOOLEAN
      BY DEF FInv, FilesKept, DirectoryKept
    <2>7. offset \in [Tiles -> Int] /\ nextrowoffset \in Int /\ nextcoloffset \in Int
      BY DEF IInv, Integrated
    <2>8. /\ \A b \in DOMAIN buf : buf[b] \in Tiles \cup {NoTile}
          /\ \A d \in DOMAIN dims : dims[d] \in -1 .. run.ntilerow + run.ntilecol
      BY DEF Ranges
    <2>. QED BY <2>1, <2>2, <2>3, <2>4, <2>5, <2>6, <2>7, <2>8 DEF TypeOK, Position
  <1>. QED BY <1>2, <1>3, Invariance, FilesInvariance, ComponentsInvariance, PTL

=============================================================================
