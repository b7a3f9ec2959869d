\* Two tasks issue STOP: their epochs may reach the ring in the other order.
CONSTANTS
  Users = {u1, u2}
  Stoppers = {u1, u2}
  Verbs = {"DRIVE"}
  Policies = {"coast"}
  Capacity = 2
  Drain = 2
  MaxCalls = 3
  MaxGen = 1
  u1 = u1
  u2 = u2
SPECIFICATION FairSpec
PROPERTY SeenNeverFalls
CHECK_DEADLOCK FALSE
