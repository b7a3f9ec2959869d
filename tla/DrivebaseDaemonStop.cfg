\* One motor; the daemon ends by itself and is started again.
CONSTANTS
  Sides = {"left"}
  StallLimit = 2
  MaxStarts = 2
  MaxMisses = 2
SPECIFICATION FairSpec
PROPERTY StopIsClean
CHECK_DEADLOCK FALSE
