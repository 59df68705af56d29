\* A tile mask that selects no tile, with more than one process.
SPECIFICATION FairSpec
CONSTANTS
  NTileRow = 2
  NTileCol = 2
  MaxThreads = 2
  Masks <- NoneSelected
  Options <- PlainOptions
  Pids = {1}
  MaxRuns = 1
  MaxFaults = 0
  Uncatchable = FALSE
PROPERTY
  EveryRunEnds
CHECK_DEADLOCK FALSE
