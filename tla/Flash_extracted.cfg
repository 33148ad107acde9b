SPECIFICATION Spec
CONSTANTS
  Addresses = {a1, a2}
  NoAddress = NoAddress
  MaxFaults = 1
  MaxKills = 0
INVARIANTS
  RefusesUnlessExtracted
CHECK_DEADLOCK FALSE
