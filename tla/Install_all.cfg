SPECIFICATION Spec
CONSTANTS
  MaxRevision = 3
  MaxRevisionByHand = 2
  MaxHandFaults = 2
  MaxZipFaults = 4
  MaxSetupRuns = 2
  MaxSetupFaults = 2
  MaxLines = 5
INVARIANTS
  ImageIsFromThisBuild
  EndMeansAll
  FirstRunKeepsImages
PROPERTIES
  OrderSpec
  InstalledIsTaken
CHECK_DEADLOCK FALSE
