----------------------------- MODULE TileGeometry -----------------------------
(***************************************************************************)
(* How snaphu cuts an image into overlapping tiles and puts it together    *)
(* again, in one dimension (rows; columns are computed alike).  SetupTile  *)
(* gives each tile its lines, SetTileReadParams the lines of a tile file   *)
(* that are used in the result, IntegrateSecondaryFlows writes these, tile *)
(* row by tile row, and ReadEdgesAboveAndBelow reads the lines at which    *)
(* neighbouring tiles meet.  Lines are counted from 0.                     *)
(***************************************************************************)
EXTENDS Integers

CONSTANTS MaxLines, MaxTileRows   \* bounds: the image's lines, its tile rows

ASSUME GeometryAssumption == MaxLines \in Nat \ {0} /\ MaxTileRows \in Nat \ {0}

VARIABLES
  nlines, ntilerow, rowovrlp,     \* the image, and the parameters of --tile
  tilerow,                        \* next tile row of the result
  written                         \* lines of the result written so far

parameters == <<nlines, ntilerow, rowovrlp>>
vars       == <<parameters, tilerow, written>>

TypeOK ==
  /\ nlines \in 1 .. MaxLines /\ ntilerow \in 1 .. MaxTileRows /\ rowovrlp \in 0 .. MaxLines
  /\ tilerow \in 0 .. ntilerow /\ written \in Int

CeilDiv(a, b)  == (a + b - 1) \div b

\* Mutant of HalfUp: the half overlap is rounded down on both sides of a seam.
HalfUpDown(a) == a \div 2

HalfUp(a)   == (a + 1) \div 2
HalfDown(a) == a \div 2

\* Mutant of Accepted: no relation of the number of tiles to the lines.
AcceptedAnyGrid == ntilerow + rowovrlp <= nlines

\* CheckParams: "tiles too small or overlap too large for given input".
Accepted ==
  ntilerow > 1 => ntilerow + rowovrlp <= nlines /\ ntilerow * ntilerow <= nlines

--------------------------------------------------------------------------------
(* A tile.                                                                      *)

Last == ntilerow - 1

\* ni, the lines of every tile but the last, and the step from one to the next.
TileLines == CeilDiv(nlines + (ntilerow - 1) * rowovrlp, ntilerow)
Step      == TileLines - rowovrlp

FirstLine(r) == r * Step

NLines(r) == IF r = Last THEN nlines - Last * Step ELSE TileLines

\* The part of the tile that is read for the result.
ReadFirst(r) == IF r = 0 THEN 0 ELSE HalfUp(rowovrlp)

ReadNLines(r) == (IF r = Last THEN NLines(r) ELSE NLines(r) - HalfDown(rowovrlp))
                   - ReadFirst(r)

OwnFirst(r) == FirstLine(r) + ReadFirst(r)       \* in the image

\* The neighbours' lines next to tile r: the last the tile above owns, the first
\* the tile below owns, as lines of those tiles.
\* Mutant of EdgeAbove: the half overlap is rounded up.
EdgeAboveUp(r) == TileLines - HalfUp(rowovrlp) - 1

EdgeAbove(r) == TileLines - HalfDown(rowovrlp) - 1
EdgeBelow(r) == HalfUp(rowovrlp)

--------------------------------------------------------------------------------
Init ==
  /\ nlines \in 1 .. MaxLines /\ ntilerow \in 1 .. MaxTileRows /\ rowovrlp \in 0 .. MaxLines
  /\ Accepted
  /\ tilerow = 0 /\ written = 0

WriteTileRow ==
  /\ tilerow < ntilerow
  /\ written' = written + ReadNLines(tilerow)
  /\ tilerow' = tilerow + 1
  /\ UNCHANGED parameters

Next == WriteTileRow
Spec == Init /\ [][Next]_vars

--------------------------------------------------------------------------------
TileRows == 0 .. Last

\* Each tile row of the result starts at the line of the image where the previous
\* one ended, and the last one ends with the image.
Seamless ==
  /\ tilerow < ntilerow => written = OwnFirst(tilerow)
  /\ tilerow = ntilerow => written = nlines

\* Every tile of a grid CheckParams accepts has lines of its own, all of them in
\* the tile and few enough for the buffers of TileLines lines they are read into,
\* and the two lines ReadInputFile asks for.
OwnLinesInTile ==
  \A r \in TileRows : /\ ReadNLines(r) >= 1 /\ ReadNLines(r) <= TileLines
                      /\ ReadFirst(r) + ReadNLines(r) <= NLines(r)
                      /\ ntilerow > 1 => NLines(r) >= 2

\* The edges of the neighbours are the lines next to the tile's own lines.
EdgesMeet ==
  \A r \in TileRows :
    /\ r > 0 => FirstLine(r - 1) + EdgeAbove(r) = OwnFirst(r) - 1
    /\ r < Last => FirstLine(r + 1) + EdgeBelow(r) = OwnFirst(r) + ReadNLines(r)
================================================================================
