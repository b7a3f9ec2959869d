\* One port whose descriptor drives the bridge.
CONSTANTS
  Match = 1
  Streak = 2
  MaxBackoff = 1
  MaxPlugs = 2
  MaxFaults = 1
  MaxStalls = 1
  Scenes <- DriveScene
  MaxModes = 2
  ModeCounts = {1}
  MaxBad = 1
  MaxRounds = 3
SPECIFICATION SessionSpec
INVARIANT SupplyEndsWithSession
CHECK_DEADLOCK FALSE
