\* The main thread and callbacks start and stop up to three timers.
SPECIFICATION Spec
CONSTANTS
  Node = {n1, n2, n3}
  NoNode = NoNode
  NoFd = NoFd
  Fd = {f1, f2, f3}
  MainMoves = {"start", "stop"}
  CallbackMoves = {"start", "stop"}
  StartAs = {"armed", "disarmed"}
  MaxTimers = 3
  MaxStarts = 3
INVARIANTS
  TypeOK
  CallbackDue
  ListExact
CHECK_DEADLOCK FALSE
CONSTRAINT Promised
SYMMETRY Symmetry
