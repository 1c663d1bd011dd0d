\* execvp may fail.
SPECIFICATION Spec
CONSTANTS
  p1 = p1
  p2 = p2
  Proc = {p1, p2}
  NoProc = NoProc
  Options <- Lines
  Mortal = {}
  Codes = {0, 7}
INVARIANTS
  SuccessMeansRan
CHECK_DEADLOCK FALSE
