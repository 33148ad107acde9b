CONSTANTS
  Modes = {"xdg", "wl", "info"}
  MaxConfigures = 2
  MaxPings = 1
  MaxTouches = 2
  Taps = 3
  X = 540
  Y = 960
  Lengths = {1, 2}
  MaxBatches = 3
  Limit = 1
  MaxTime = 2
  MaxFrames = 3
SPECIFICATION FairSpec
INVARIANTS
  NoProtocolError
  NothingIsLost
  CapturesAreWhole
  FramesDecode
  CodeIsFound
  PlaintextIsSeen
PROPERTIES
  Progresses
CHECK_DEADLOCK FALSE
