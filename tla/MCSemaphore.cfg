\* Two waiters, three posters, anyone may be killed; the counter is 3 bits wide.
SPECIFICATION FairSpec
CONSTANTS
  p1 = p1
  p2 = p2
  p3 = p3
  Proc = {p1, p2, p3}
  Waiters = {p1, p2}
  Mortal = {p1, p2, p3}
  NoProc = NoProc
  UintMod = 8
  MaxPosts = 3
INVARIANTS
  LockExclusion
  NoLostWakeup
PROPERTIES
  ImplementsContract
  WaitReturns
CHECK_DEADLOCK FALSE
