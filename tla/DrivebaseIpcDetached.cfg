\* One caller that only drives.
CONSTANTS
  Users = {u1}
  Stoppers = {}
  Verbs = {"DRIVE"}
  Policies = {"coast"}
  Capacity = 2
  Drain = 2
  MaxCalls = 2
  MaxGen = 1
  u1 = u1
SPECIFICATION FairSpec
INVARIANT DetachedAtRest
CHECK_DEADLOCK FALSE
