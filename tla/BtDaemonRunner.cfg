\* One action dispatched to a daemon that is started once; nobody comes near the hub.
CONSTANTS
  Requests = {"imu_on"}
  MaxStarts = 1
  MaxActions = 1
  MaxLinks = 0
SPECIFICATION Spec
INVARIANT RunnerNotDangling
CHECK_DEADLOCK FALSE
