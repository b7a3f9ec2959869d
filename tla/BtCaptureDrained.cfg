\* One record is written whole into a ring that holds it.
CONSTANTS
  RespRoom = 1
  FrameRoom = 1
  Payload = 1
  RingRoom = 1
  MaxSessions = 1
SPECIFICATION Spec
INVARIANT ZeroIsCleanDrain
CHECK_DEADLOCK FALSE
