CONSTANTS
  MaxTokens = 4
  MaxArgs = 3
  ArgLimit = 2
SPECIFICATION Spec
INVARIANT IntegersAreExact
CHECK_DEADLOCK FALSE
