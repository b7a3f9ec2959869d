\* One caller drives and stops, another only drives; a ring of two; a daemon
\* that is started twice.
CONSTANTS
  Users = {u1, u2}
  Stoppers = {u1}
  Verbs = {"DRIVE"}
  Policies = {"coast", "hold"}
  Capacity = 2
  Drain = 2
  MaxCalls = 3
  MaxGen = 2
  u1 = u1
  u2 = u2
SPECIFICATION FairSpec
INVARIANTS TypeOK WatchdogCovers StopSupersedes
PROPERTIES StaleDetached StopReachesDaemon
CHECK_DEADLOCK FALSE
