-------------------------- MODULE TileGeometryProofs --------------------------
(***************************************************************************)
(* Theorems about TileGeometry, for images and grids of any size.          *)
(***************************************************************************)
EXTENDS TileGeometry, TLAPS

Inv == TypeOK /\ Accepted /\ Seamless

\* CeilDiv rounds up.
LEMMA CeilDivBounds ==
  ASSUME NEW a \in Nat, NEW b \in Nat \ {0}
  PROVE  /\ CeilDiv(a, b) \in Int
         /\ b * CeilDiv(a, b) >= a
         /\ b * CeilDiv(a, b) <= a + b - 1
  <1>. DEFINE q == (a + b - 1) \div b
  <1>1. q \in Int /\ b * q <= a + b - 1 /\ a + b - 1 < b * q + b
    BY Z3
  <1>2. b * q \in Int
    BY <1>1
  <1>. HIDE DEF q
  <1>3. b * q >= a
    BY <1>1, <1>2
  <1>. QED BY <1>1, <1>3 DEF CeilDiv, q

\* The two halves of the overlap.
LEMMA Halves ==
  ASSUME NEW o \in Nat
  PROVE  /\ HalfUp(o) \in Nat /\ HalfDown(o) \in Nat
         /\ HalfUp(o) + HalfDown(o) = o
         /\ HalfDown(o) <= HalfUp(o) /\ HalfUp(o) <= HalfDown(o) + 1
  BY DEF HalfUp, HalfDown

\* The step is the lines that are not overlap, divided by the tiles and rounded up.
LEMMA StepBounds ==
  ASSUME TypeOK
  PROVE  /\ Step \in Int /\ TileLines = Step + rowovrlp
         /\ ntilerow * Step >= nlines - rowovrlp
         /\ ntilerow * Step <= nlines - rowovrlp + ntilerow - 1
  <1>1. /\ nlines \in Nat /\ ntilerow \in Nat \ {0} /\ rowovrlp \in Nat
    BY GeometryAssumption DEF TypeOK
  <1>. DEFINE a == nlines + (ntilerow - 1) * rowovrlp
  <1>2. a \in Nat
    <2>1. (ntilerow - 1) * rowovrlp \in Nat
      BY <1>1
    <2>. QED BY <1>1, <2>1
  <1>. HIDE DEF a
  <1>3. /\ CeilDiv(a, ntilerow) \in Int
        /\ ntilerow * CeilDiv(a, ntilerow) >= a
        /\ ntilerow * CeilDiv(a, ntilerow) <= a + ntilerow - 1
    BY <1>1, <1>2, CeilDivBounds
  <1>4. TileLines = CeilDiv(a, ntilerow)
    BY DEF TileLines, a
  <1>5. Step = TileLines - rowovrlp
    BY DEF Step
  <1>6. TileLines \in Int /\ Step \in Int /\ TileLines = Step + rowovrlp
    BY <1>1, <1>3, <1>4, <1>5
  <1>7. ntilerow * Step = ntilerow * TileLines - ntilerow * rowovrlp
    BY <1>1, <1>6, <1>5
  <1>8. a = nlines + ntilerow * rowovrlp - rowovrlp
    BY <1>1 DEF a
  <1>9. /\ ntilerow * TileLines \in Int /\ ntilerow * rowovrlp \in Int
        /\ ntilerow * Step \in Int
    BY <1>1, <1>6
  <1>. QED BY <1>1, <1>3, <1>4, <1>6, <1>7, <1>8, <1>9

\* What acceptance says of the step and of the last tile.
LEMMA AcceptedBounds ==
  ASSUME TypeOK, Accepted
  PROVE  /\ Last \in Nat /\ Last * Step \in Int
         /\ nlines - Last * Step >= rowovrlp - ntilerow + 1 + Step
         /\ nlines - Last * Step <= TileLines
         /\ ntilerow > 1 => /\ Step >= 1 /\ Step >= ntilerow - HalfDown(rowovrlp)
                            /\ nlines - Last * Step >= 2
         /\ ntilerow = 1 => Last * Step = 0 /\ TileLines = nlines
  <1>1. nlines \in Nat \ {0} /\ ntilerow \in Nat \ {0} /\ rowovrlp \in Nat
    BY GeometryAssumption DEF TypeOK
  <1>2. /\ Step \in Int /\ TileLines = Step + rowovrlp
        /\ ntilerow * Step >= nlines - rowovrlp
        /\ ntilerow * Step <= nlines - rowovrlp + ntilerow - 1
    BY StepBounds
  <1>3. Last = ntilerow - 1 /\ Last \in Nat
    BY <1>1 DEF Last
  <1>4. Last * Step = ntilerow * Step - Step /\ ntilerow * Step \in Int
    BY <1>1, <1>2, <1>3
  <1>5. nlines - Last * Step >= rowovrlp - ntilerow + 1 + Step
    BY <1>1, <1>2, <1>4
  <1>6. nlines - Last * Step <= TileLines
    BY <1>1, <1>2, <1>4
  <1>7. ASSUME ntilerow > 1
        PROVE  /\ Step >= 1 /\ Step >= ntilerow - HalfDown(rowovrlp)
               /\ nlines - Last * Step >= 2
    <2>1. ntilerow + rowovrlp <= nlines /\ ntilerow * ntilerow <= nlines
          /\ ntilerow * ntilerow \in Int
      BY <1>1, <1>7 DEF Accepted
    <2>2. ntilerow * Step >= ntilerow
      BY <1>1, <1>2, <1>4, <2>1
    <2>3. Step >= 1
      <3>1. Step <= 0 => ntilerow * Step <= 0
        BY <1>1, <1>2
      <3>. QED BY <1>1, <1>2, <1>4, <2>2, <3>1
    <2>. DEFINE h == HalfDown(rowovrlp)
    <2>4. h \in Nat /\ rowovrlp <= 2 * h + 1
      BY <1>1, Halves
    <2>5. Step >= ntilerow - h
      <3>. HIDE DEF h
      <3>1. SUFFICES ASSUME Step <= ntilerow - h - 1 PROVE FALSE
        BY <1>1, <1>2, <2>4
      <3>2. ntilerow * Step <= ntilerow * (ntilerow - h - 1)
        BY <1>1, <1>2, <2>4, <3>1
      <3>3. ntilerow * (ntilerow - h - 1) = ntilerow * ntilerow - ntilerow * h - ntilerow
        BY <1>1, <2>4
      <3>4. ntilerow * h >= 2 * h /\ ntilerow * h \in Int
        BY <1>1, <1>7, <2>4
      <3>. QED BY <1>1, <1>2, <1>4, <1>7, <2>1, <2>4, <3>2, <3>3, <3>4
    <2>6. nlines - Last * Step >= 2
      <3>1. CASE rowovrlp >= 1
        <4>1. rowovrlp - h >= 1
          BY <1>1, <3>1, Halves
        <4>. HIDE DEF h
        <4>. QED BY <1>1, <1>2, <1>4, <1>5, <2>4, <2>5, <4>1
      <3>2. CASE rowovrlp = 0 /\ Step = ntilerow
        <4>1. Last * Step = ntilerow * ntilerow - ntilerow
          BY <1>1, <1>4, <3>2
        <4>. QED BY <1>1, <1>7, <2>1, <4>1
      <3>3. CASE rowovrlp = 0 /\ Step > ntilerow
        BY <1>1, <1>2, <1>4, <1>5, <3>3
      <3>4. rowovrlp = 0 => Step >= ntilerow
        BY <1>1, <1>2, <2>5, Halves DEF HalfDown
      <3>. QED BY <1>1, <1>2, <3>1, <3>2, <3>3, <3>4
    <2>. QED BY <2>3, <2>5, <2>6
  <1>8. ntilerow = 1 => Last * Step = 0 /\ TileLines = nlines
    BY <1>1, <1>2, <1>3
  <1>. QED BY <1>1, <1>2, <1>3, <1>4, <1>5, <1>6, <1>7, <1>8

\* Where a tile's own lines begin and how many there are.
LEMMA OwnLines ==
  ASSUME TypeOK, Accepted, NEW r \in TileRows
  PROVE  /\ r \in Nat /\ r * Step \in Int
         /\ OwnFirst(r) = r * Step + ReadFirst(r)
         /\ ReadFirst(r) = IF r = 0 THEN 0 ELSE HalfUp(rowovrlp)
         /\ r < Last => ReadNLines(r) = Step + HalfUp(rowovrlp) - ReadFirst(r)
         /\ r = Last => ReadNLines(r) = nlines - Last * Step - ReadFirst(r)
         /\ (r + 1) * Step = r * Step + Step
         /\ HalfUp(rowovrlp) \in Nat /\ ReadFirst(r) \in Nat /\ ReadNLines(r) \in Int
  <1>1. nlines \in Nat \ {0} /\ ntilerow \in Nat \ {0} /\ rowovrlp \in Nat
    BY GeometryAssumption DEF TypeOK
  <1>2. Step \in Int /\ TileLines = Step + rowovrlp
    BY StepBounds
  <1>3. r \in Nat /\ Last \in Nat /\ Last * Step \in Int
    BY <1>1, AcceptedBounds DEF TileRows
  <1>4. r * Step \in Int /\ (r + 1) * Step = r * Step + Step
    BY <1>2, <1>3
  <1>5. /\ HalfUp(rowovrlp) \in Nat /\ HalfDown(rowovrlp) \in Nat
        /\ HalfUp(rowovrlp) + HalfDown(rowovrlp) = rowovrlp
    BY <1>1, Halves
  <1>6. ReadFirst(r) = IF r = 0 THEN 0 ELSE HalfUp(rowovrlp)
    BY DEF ReadFirst
  <1>7. ReadFirst(r) \in Nat
    BY <1>5, <1>6
  <1>8. OwnFirst(r) = r * Step + ReadFirst(r)
    BY DEF OwnFirst, FirstLine
  <1>9. r < Last => ReadNLines(r) = Step + HalfUp(rowovrlp) - ReadFirst(r)
    <2>1. r < Last => ReadNLines(r) = TileLines - HalfDown(rowovrlp) - ReadFirst(r)
      BY <1>3 DEF ReadNLines, NLines
    <2>. QED BY <2>1, <1>1, <1>2, <1>5, <1>7
  <1>10. r = Last => ReadNLines(r) = nlines - Last * Step - ReadFirst(r)
    BY DEF ReadNLines, NLines
  <1>11. ReadNLines(r) \in Int
    <2>1. r < Last \/ r = Last
      BY <1>1, <1>3 DEF TileRows, Last
    <2>. QED BY <2>1, <1>1, <1>2, <1>3, <1>5, <1>7, <1>9, <1>10
  <1>. QED BY <1>3, <1>4, <1>5, <1>6, <1>7, <1>8, <1>9, <1>10, <1>11

\* The lines after a tile's own are the next tile's, or the image's end.
LEMMA Seams ==
  ASSUME TypeOK, Accepted, NEW r \in TileRows
  PROVE  /\ r < Last => OwnFirst(r) + ReadNLines(r) = OwnFirst(r + 1)
         /\ r = Last => OwnFirst(r) + ReadNLines(r) = nlines
  <1>1. nlines \in Int /\ Step \in Int /\ Last \in Nat /\ Last * Step \in Int
    BY GeometryAssumption, StepBounds, AcceptedBounds DEF TypeOK
  <1>2. CASE r < Last
    <2>1. r + 1 \in TileRows /\ r + 1 # 0
      BY <1>1, <1>2 DEF TileRows
    <2>2. OwnFirst(r + 1) = (r + 1) * Step + HalfUp(rowovrlp)
      BY <2>1, OwnLines
    <2>3. /\ r \in Nat /\ r * Step \in Int /\ HalfUp(rowovrlp) \in Nat /\ ReadFirst(r) \in Nat
          /\ OwnFirst(r) = r * Step + ReadFirst(r)
          /\ ReadNLines(r) = Step + HalfUp(rowovrlp) - ReadFirst(r)
          /\ (r + 1) * Step = r * Step + Step
      BY <1>2, OwnLines
    <2>. QED BY <1>1, <1>2, <2>2, <2>3
  <1>3. CASE r = Last
    <2>1. /\ ReadFirst(r) \in Nat /\ OwnFirst(r) = r * Step + ReadFirst(r)
          /\ ReadNLines(r) = nlines - Last * Step - ReadFirst(r)
      BY <1>3, OwnLines
    <2>. QED BY <1>1, <1>3, <2>1
  <1>4. r < Last \/ r = Last
    BY <1>1 DEF TileRows
  <1>. QED BY <1>1, <1>2, <1>3, <1>4 DEF TileRows

\* The parameters stay accepted and the tile rows follow each other without a gap.
THEOREM Invariance == Spec => []Inv
  <1>1. Init => Inv
    <2>. SUFFICES ASSUME Init PROVE Inv
      OBVIOUS
    <2>1. TypeOK /\ Accepted
      BY GeometryAssumption DEF Init, TypeOK
    <2>2. OwnFirst(0) = 0
      <3>1. Step \in Int
        BY <2>1, StepBounds
      <3>. QED BY <3>1 DEF OwnFirst, FirstLine, ReadFirst
    <2>. QED BY <2>1, <2>2, GeometryAssumption DEF Init, Inv, Seamless, TypeOK
  <1>2. Inv /\ [Next]_vars => Inv'
    <2>. SUFFICES ASSUME Inv, [Next]_vars PROVE Inv'
      OBVIOUS
    <2>1. CASE WriteTileRow
      <3>1. TypeOK /\ Accepted /\ UNCHANGED parameters /\ tilerow < ntilerow
        BY <2>1 DEF Inv, WriteTileRow
      <3>2. nlines' = nlines /\ ntilerow' = ntilerow /\ rowovrlp' = rowovrlp
        BY <3>1 DEF parameters
      <3>3. tilerow \in TileRows /\ Last = ntilerow - 1
        BY <3>1, GeometryAssumption DEF TileRows, Last, TypeOK
      <3>4. written = OwnFirst(tilerow)
        BY <3>1 DEF Inv, Seamless
      <3>5. /\ tilerow' = tilerow + 1 /\ written' = written + ReadNLines(tilerow)
            /\ ReadNLines(tilerow) \in Int
        BY <2>1, <3>1, <3>3, OwnLines DEF WriteTileRow
      <3>6. TypeOK' /\ Accepted'
        BY <3>1, <3>2, <3>5, GeometryAssumption DEF TypeOK, Accepted
      <3>7. tilerow' < ntilerow => written' = OwnFirst(tilerow + 1)
        BY <3>1, <3>3, <3>4, <3>5, Seams, GeometryAssumption DEF TypeOK
      <3>8. tilerow' = ntilerow => written' = nlines
        BY <3>1, <3>3, <3>4, <3>5, Seams, GeometryAssumption DEF TypeOK
      <3>9. OwnFirst(tilerow + 1) = OwnFirst(tilerow)'
        BY <3>2, <3>5 DEF OwnFirst, FirstLine, Step, TileLines, ReadFirst
      <3>. QED BY <3>2, <3>6, <3>7, <3>8, <3>9 DEF Inv, Seamless
    <2>2. CASE UNCHANGED vars
      BY <2>2 DEF Inv, TypeOK, Accepted, Seamless, OwnFirst, FirstLine, Step, TileLines,
                  ReadFirst, vars, parameters
    <2>. QED BY <2>1, <2>2 DEF Next
  <1>. QED BY <1>1, <1>2, PTL DEF Spec

\* The tile rows of the result are the lines of the image, each once and in order.
THEOREM ResultIsSeamless == Spec => []Seamless
  <1>1. Inv => Seamless
    BY DEF Inv
  <1>. QED BY <1>1, Invariance, PTL

\* The tests of CheckParams leave every tile lines of its own, inside the tile and
\* the buffers.
THEOREM OwnLinesFit == Spec => []OwnLinesInTile
  <1>1. Inv => OwnLinesInTile
    <2>. SUFFICES ASSUME TypeOK, Accepted, NEW r \in TileRows
                  PROVE  /\ ReadNLines(r) >= 1 /\ ReadNLines(r) <= TileLines
                         /\ ReadFirst(r) + ReadNLines(r) <= NLines(r)
                         /\ ntilerow > 1 => NLines(r) >= 2
      BY DEF Inv, OwnLinesInTile
    <2>1. /\ nlines \in Nat \ {0} /\ ntilerow \in Nat \ {0} /\ rowovrlp \in Nat
          /\ Last = ntilerow - 1 /\ r \in 0 .. Last
      BY GeometryAssumption DEF TypeOK, Last, TileRows
    <2>2. Step \in Int /\ TileLines = Step + rowovrlp
      BY StepBounds
    <2>3. /\ Last * Step \in Int
          /\ nlines - Last * Step >= rowovrlp - ntilerow + 1 + Step
          /\ nlines - Last * Step <= TileLines
          /\ ntilerow > 1 => /\ Step >= 1 /\ Step >= ntilerow - HalfDown(rowovrlp)
                             /\ nlines - Last * Step >= 2
          /\ ntilerow = 1 => Last * Step = 0 /\ TileLines = nlines
      BY AcceptedBounds
    <2>4. /\ ReadFirst(r) \in Nat /\ ReadFirst(r) = IF r = 0 THEN 0 ELSE HalfUp(rowovrlp)
          /\ r < Last => ReadNLines(r) = Step + HalfUp(rowovrlp) - ReadFirst(r)
          /\ r = Last => ReadNLines(r) = nlines - Last * Step - ReadFirst(r)
      BY OwnLines
    <2>5. /\ HalfUp(rowovrlp) \in Nat /\ HalfDown(rowovrlp) \in Nat
          /\ HalfUp(rowovrlp) + HalfDown(rowovrlp) = rowovrlp
          /\ HalfDown(rowovrlp) <= HalfUp(rowovrlp)
      BY <2>1, Halves
    <2>6. NLines(r) = IF r = Last THEN nlines - Last * Step ELSE TileLines
      BY DEF NLines
    <2>7. CASE ntilerow = 1
      <3>1. r = 0 /\ r = Last
        BY <2>1, <2>7
      <3>. QED BY <2>1, <2>2, <2>3, <2>4, <2>6, <2>7, <3>1
    <2>8. CASE ntilerow > 1 /\ r < Last
      <3>1. ntilerow = 1 \/ Step >= 1
        BY <2>3, <2>8
      <3>2. TileLines >= 2
        <4>1. TileLines >= nlines - Last * Step
          BY <2>1, <2>2, <2>3
        <4>. QED BY <4>1, <2>1, <2>2, <2>3, <2>8
      <3>. QED BY <2>1, <2>2, <2>3, <2>4, <2>5, <2>6, <2>8, <3>2
    <2>9. CASE ntilerow > 1 /\ r = Last
      <3>1. r # 0 /\ ReadFirst(r) = HalfUp(rowovrlp)
        BY <2>1, <2>4, <2>9
      <3>2. ReadNLines(r) >= 1
        BY <2>1, <2>2, <2>3, <2>4, <2>5, <2>9, <3>1
      <3>. QED BY <2>1, <2>2, <2>3, <2>4, <2>5, <2>6, <2>9, <3>1, <3>2
    <2>. QED BY <2>1, <2>7, <2>8, <2>9
  <1>. QED BY <1>1, Invariance, PTL

\* The lines read from the neighbours are those next to the tile's own.
THEOREM EdgesAreNeighbours == Spec => []EdgesMeet
  <1>1. Inv => EdgesMeet
    <2>. SUFFICES ASSUME TypeOK, Accepted, NEW r \in TileRows
                  PROVE  /\ r > 0 => FirstLine(r - 1) + EdgeAbove(r) = OwnFirst(r) - 1
                         /\ r < Last => FirstLine(r + 1) + EdgeBelow(r)
                                          = OwnFirst(r) + ReadNLines(r)
      BY DEF Inv, EdgesMeet
    <2>1. rowovrlp \in Nat /\ Step \in Int /\ TileLines = Step + rowovrlp /\ Last \in Nat
      BY GeometryAssumption, StepBounds, AcceptedBounds DEF TypeOK
    <2>2. /\ HalfUp(rowovrlp) \in Nat /\ HalfDown(rowovrlp) \in Nat
          /\ HalfUp(rowovrlp) + HalfDown(rowovrlp) = rowovrlp
      BY <2>1, Halves
    <2>3. /\ r \in Nat /\ r * Step \in Int /\ OwnFirst(r) = r * Step + ReadFirst(r)
          /\ ReadFirst(r) = IF r = 0 THEN 0 ELSE HalfUp(rowovrlp)
      BY OwnLines
    <2>4. ASSUME r > 0 PROVE FirstLine(r - 1) + EdgeAbove(r) = OwnFirst(r) - 1
      <3>1. (r - 1) * Step = r * Step - Step
        BY <2>1, <2>3
      <3>. QED BY <2>1, <2>2, <2>3, <2>4, <3>1 DEF FirstLine, EdgeAbove
    <2>5. ASSUME r < Last
          PROVE  FirstLine(r + 1) + EdgeBelow(r) = OwnFirst(r) + ReadNLines(r)
      <3>1. r + 1 \in TileRows /\ r + 1 # 0
        BY <2>1, <2>3, <2>5 DEF TileRows
      <3>2. OwnFirst(r + 1) = (r + 1) * Step + HalfUp(rowovrlp)
        BY <3>1, OwnLines
      <3>. QED BY <2>5, <3>2, Seams DEF FirstLine, EdgeBelow
    <2>. QED BY <2>4, <2>5
  <1>. QED BY <1>1, Invariance, PTL
================================================================================
