\* Two objects, either of which may be a server, a client, or one after the other.
SPECIFICATION Spec
CONSTANTS
  Obj = {o1, o2}
  Port = {1}
  Fd = {3, 4}
  Garbage = {1}
  MaxSockets = 3
  MaxSends = 3
INVARIANTS
  AnswersReachAsker
  ClientKeepsServer
  OwnSocket
SYMMETRY Symmetry
CHECK_DEADLOCK FALSE
CONSTRAINT Promised
ACTION_CONSTRAINT StrayFirst
