SPECIFICATION Spec
CONSTANTS
  Proc = {p1, p2}
  Types = {1, 2}
  Filters = {0, 2}
  Calls = {"close", "start"}
  Inodes = {i1, i2}
  Capacity = 2
  MaxSends = 2
  MaxQueues = 2
  MaxClock = 0
INVARIANTS
  TypeOK
  OnceInOrder
  OneQueue
SYMMETRY Symmetry
CHECK_DEADLOCK FALSE
