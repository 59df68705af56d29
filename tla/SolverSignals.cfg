\* Signals at every step of a single-tile run of three passes.
SPECIFICATION Spec
CONSTANTS
  MaxPasses = 3
  MaxSignals = 4
INVARIANTS
  TypeOK
  CostsHeldWhenUsed
  HangupDumped
  ExitLeavesOutput
CHECK_DEADLOCK FALSE
