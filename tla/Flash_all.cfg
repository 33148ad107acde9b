SPECIFICATION FairSpec
CONSTANTS
  Addresses = {a1, a2}
  NoAddress = NoAddress
  MaxFaults = 3
  MaxKills = 1
INVARIANTS
  OkIsReadBack
  FaultFreeRunSucceeds
  IInv
PROPERTIES
  OrderSpec
  RetriesInstall
CHECK_DEADLOCK FALSE
