\* An interrupt while a dump is being written.
SPECIFICATION Spec
CONSTANTS
  MaxPasses = 3
  MaxSignals = 4
INVARIANTS
  InterruptHonoured
CHECK_DEADLOCK FALSE
