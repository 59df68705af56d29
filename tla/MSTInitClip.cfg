SPECIFICATION MSTSpec
CONSTANTS
  NRow = 3
  NCol = 4
  NConnNodeMin = 0
  MinBoundarySize = 2
  MSTInputs <- MCInputs
  Unreached = 1000000
  Ineligible = 32000
  MaxFlow = 2
  CostIncrement = 200
  MinRes <- MCMinRes
  MaxRes = 127
  MaxRounds = 40
INVARIANTS
  ResiduesMakeUp
