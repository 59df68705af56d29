\* The loop of AssembleTiles on flows whose cost falls at every iteration.
SPECIFICATION Spec
CONSTANTS
  Loops <- SecondaryLoop
  MaxFlow = 2
  InitialDone = {0}
  MaxIgnored = 0
  TopFlow = 0
  TopCost = 5
  MaxStalled = 8
INVARIANTS
  GivesUpOnlyIfStalled
CHECK_DEADLOCK FALSE
