\* The main thread starts timers and finalizes beside the loop and its callbacks.
SPECIFICATION FairSpec
CONSTANTS
  Node = {n1, n2}
  NoNode = NoNode
  NoFd = NoFd
  Fd = {f1, f2}
  MainMoves = {"start", "finalize"}
  CallbackMoves = {"start", "stop"}
  StartAs = {"armed", "disarmed"}
  MaxTimers = 3
  MaxStarts = 3
INVARIANTS
  FreedOnlyRacing
  NothingLeft
PROPERTIES
  DueCalled
  FinalizeReturns
CHECK_DEADLOCK FALSE
CONSTRAINT Promised
