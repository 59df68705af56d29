\* Phase, components and files on grids of up to 3 x 3 tiles.
SPECIFICATION Spec
CONSTANTS
  Runs <- AllRuns
  NArcs = 3
  Uninit = 7
INVARIANTS
  TypeOK
  TilesAtHand
  SeamsAgree
  FlowsDescribeResult
  OffsetsSmooth
  ComponentsNumbered
  FilesLast
CHECK_DEADLOCK FALSE
