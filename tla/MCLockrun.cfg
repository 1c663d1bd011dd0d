\* Two instances with every command line.
SPECIFICATION FairSpec
CONSTANTS
  p1 = p1
  p2 = p2
  Proc = {p1, p2}
  NoProc = NoProc
  Options <- Lines
  Mortal = {p1, p2}
  Codes = {0, 7}
INVARIANTS
  OneAtATimeUnlessKilled
  RetriesBounded
PROPERTIES
  EveryRunEnds
CHECK_DEADLOCK FALSE
