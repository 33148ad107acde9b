SPECIFICATION Spec
CONSTANTS
  MaxMinor = 3
  Top = 2
  ItemCount = 3
  ItemCountDisturbed = 2
  Configs = {"c1", "c2", "c3"}
  MaxRecords = 3
INVARIANTS
  TypeOK
  RestoreAfterRebootPicksRow
  WrittenIsAsked
  LatestOutranks
  Reversible
  ReportsDisagreement
PROPERTIES
  KeepsRecords
CHECK_DEADLOCK FALSE
