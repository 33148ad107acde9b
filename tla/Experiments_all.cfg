SPECIFICATION FairSpec
CONSTANTS
  MaxSignals = 2
  MaxFailures = 1
  MaxRuns = 3
  MaxFaults = 3
INVARIANTS
  RestoredAtEnd
  RestoresAlone
  SwapIsRecoverable
PROPERTIES
  DialsOnIdleLine
  Ends
CHECK_DEADLOCK FALSE
