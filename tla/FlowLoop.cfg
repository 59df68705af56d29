\* Both loops, costs that fall at every augmentation and costs that may rise.
SPECIFICATION FairSpec
CONSTANTS
  Loops <- BothLoops
  MaxFlow = 3
  InitialDone <- Garbage
  MaxIgnored = 1
  TopFlow = 4
  TopCost = 3
  MaxStalled = 8
INVARIANTS
  SettledFromZero
  GridGivesUpOnlyIfStalled
PROPERTIES
  Ends
CHECK_DEADLOCK FALSE
