SPECIFICATION UnwrapSpec
CONSTANTS
  NRow = 4
  NCol = 5
  NConnNodeMin = 0
  MinBoundarySize = 2
  NShortCycle = 4
  LayFalloff = 2
  LargeShort = 32000
  Problems <- MCProblems
  Increments = {1, 2}
  NewNodesPer = 5
  NMajorPrune = 2
  PruneCostThresh = 6
  MaxGroupBase = 12
  MinInd <- MCMinInd
  MaxInd = 8
  VeryFar = 1000000
  MSTInputs = {}
  Unreached = 1000000
  Ineligible = 32000
  MaxScalarCost = 1000
  MaxFlow = 9999
  CostIncrement = 200
  MinRes <- MCMinRes
  MaxRes = 127
  MaxRounds = 2
  ConnCompThresh = 1
  MinConnCompSize = 3
  MaxNComps = 2
  TileCostThresh = 4
  MinRegionSize = 4
  NotReached = 1000000
INVARIANTS
  TypeOK
  TreeIsThreaded
  PotentialsFit
  ApexesRight
  FringeQueued
  NoViolationLeft
  FlowsBalance
  RegionsApart
  ConnectsResidues
  RegionsSound
  ComponentsLargest
PROPERTIES
  CostFalls
  TileFinished
