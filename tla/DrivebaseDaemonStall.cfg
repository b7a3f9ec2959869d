\* The stall limit of the code; one motor, one start.
CONSTANTS
  Sides = {"left"}
  StallLimit = 3
  MaxStarts = 1
  MaxMisses = 4
SPECIFICATION FairSpec
PROPERTY StallsAreConsecutive
CHECK_DEADLOCK FALSE
