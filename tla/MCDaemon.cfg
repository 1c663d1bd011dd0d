\* Two processes, of which one may be the child of the other.
SPECIFICATION Spec
CONSTANTS
  p1 = p1
  p2 = p2
  Proc = {p1, p2}
  NoProc = NoProc
  MaxFd = 5
  MaxCalls = 4
  MaxClock = 2
  Blocks = 2
  Lengths = {1, 2}
INVARIANTS
  LinesExact
  DaemonDetached
  PidFileNames
  CopyWhole
  DescriptorsKept
VIEW View
SYMMETRY Symmetry
CONSTRAINT Promised
CHECK_DEADLOCK FALSE
