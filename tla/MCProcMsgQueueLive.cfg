SPECIFICATION FairSpec
CONSTANTS
  Proc = {p1, p2}
  Types = {1, 2}
  Filters = {2}
  Calls = {"start", "stop", "wait"}
  Inodes = {i1}
  Capacity = 1
  MaxSends = 2
  MaxQueues = 1
  MaxClock = 2
INVARIANTS
  
  NothingVanishes
PROPERTIES
  SendReturns
CHECK_DEADLOCK FALSE
