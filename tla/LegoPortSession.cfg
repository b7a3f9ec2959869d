\* The plug moves twice, one fault, one stall; devices of one to three modes for an
\* engine that holds two.
CONSTANTS
  Match = 1
  Streak = 2
  MaxBackoff = 1
  MaxPlugs = 2
  MaxFaults = 1
  MaxStalls = 1
  Scenes <- TheScenes
  MaxModes = 2
  ModeCounts = {1, 2, 3}
  MaxBad = 1
  MaxRounds = 3
SPECIFICATION SessionSpec
INVARIANTS TypeOK PinsOwned NoMissedEdge SupplyHeld DefaultModeDescribed
PROPERTY MovingPortSettles
CHECK_DEADLOCK FALSE
