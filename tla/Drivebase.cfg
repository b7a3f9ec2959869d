\* The ring: three cells, two epochs.
\* The snapshots: two lives of a daemon, two publications.
\* The daemon: two motors, started twice.  One late tick ends it: how late ticks
\* are counted is the question of DrivebaseDaemonStall.cfg.
\* The sensors: two ports that contend for two classes, devices exchanged between
\* sessions, two descriptors.
CONSTANTS
  Verbs = {drive}
  Epochs = {0, 1}
  Depth = 4
  MaxSeq = 6
  MaxPublish = 2
  Sides = {"left", "right"}
  StallLimit = 1
  MaxStarts = 2
  MaxMisses = 1
  Ports = {0, 2}
  Sensors = {"medium", "large"}
  Fds = {"fd1", "fd2"}
  MaxSyncs = 3
  MaxOpens = 2
SPECIFICATION DriveSpec
INVARIANTS TypeOK SeqOrdered DepthReported StopCanLand
INVARIANTS DaemonTypeOK ReclaimExclusive DrivesOnFreshBaseline RtContained
INVARIANTS SensorTypeOK BoundIsSynced ClaimExclusive WritesHitClaimedPort
PROPERTIES RefinesQueue SnapshotsWhole FreezeEnds StopCompletes TopicSettles
CHECK_DEADLOCK FALSE
