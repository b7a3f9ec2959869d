\* The daemon: two lives, a channel and a pairing, one action dispatched.
\* Captures: two sessions of two records, a ring of one.
\* The shell: two sessions, room for two chunks in the FIFO and in the buffer.
CONSTANTS
  Requests = {"imu_on", "imu_cap_start", "set_odr"}
  MaxStarts = 2
  MaxActions = 1
  MaxLinks = 2
  RespRoom = 1
  FrameRoom = 2
  Payload = 2
  RingRoom = 1
  MaxCaptures = 2
  OutRoom = 2
  PipeRoom = 2
  MaxShells = 2
SPECIFICATION BtSpec
INVARIANTS AllTypesOK VisibilityHonest StoppedStaysQuiet ActionFreedOnce OutputMoves EndIsOwed NoLostWakeup
PROPERTIES  CompletedIsDrained SwitchAfterReply OwnExitOnly UnderwayEnds
CHECK_DEADLOCK FALSE
