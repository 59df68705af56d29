\* Every accepted grid of an image of up to 40 lines.
SPECIFICATION Spec
CONSTANTS
  MaxLines = 40
  MaxTileRows = 6
INVARIANTS
  Seamless
  OwnLinesInTile
  EdgesMeet
CHECK_DEADLOCK FALSE
