\* One invocation on 2 x 2 tiles, alone or with two worker slots, every mask.
SPECIFICATION FairSpec
CONSTANTS
  NTileRow = 2
  NTileCol = 2
  MaxThreads = 2
  Masks <- AllMasks
  Options <- OneRun
  Pids = {1}
  MaxRuns = 1
  MaxFaults = 1
  Uncatchable = FALSE
INVARIANTS
  TypeOK
  AtMostNThreads
  CountIsExact
  AssembleAfterTiles
PROPERTIES
  ImplementsTileMode
  RunEnds
  ChildrenFollowParent
CHECK_DEADLOCK FALSE
