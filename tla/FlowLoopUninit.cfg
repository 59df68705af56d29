\* The loop of AssembleTiles, nflowdone starting anywhere.
SPECIFICATION Spec
CONSTANTS
  Loops <- SecondaryLoop
  MaxFlow = 3
  InitialDone <- Garbage
  MaxIgnored = 0
  TopFlow = 0
  TopCost = 5
  MaxStalled = 8
INVARIANTS
  DoneMeansSettled
CHECK_DEADLOCK FALSE
