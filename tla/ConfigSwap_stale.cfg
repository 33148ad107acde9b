SPECIFICATION Spec
CONSTANTS
  MaxRuns = 3
  MaxFaults = 3
INVARIANTS
  RollbackRestoresStart
CHECK_DEADLOCK FALSE
