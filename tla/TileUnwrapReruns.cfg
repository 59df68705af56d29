\* Two invocations on one tile directory, with process ids that may recur.
SPECIFICATION Spec
CONSTANTS
  NTileRow = 1
  NTileCol = 2
  MaxThreads = 2
  Masks <- SomeTile
  Options <- TwoThreads
  Pids = {1, 2}
  MaxRuns = 2
  MaxFaults = 1
  Uncatchable = TRUE
INVARIANTS
  NormalExitHasOutput
PROPERTIES
  TileInitOutlived
  SkippedTilesUntouched
CHECK_DEADLOCK FALSE
