\* Two waiters: two posts in a row send one signal.
SPECIFICATION FairSpec
CONSTANTS
  p1 = p1
  p2 = p2
  p3 = p3
  Proc = {p1, p2, p3}
  Waiters = {p1, p2}
  Mortal = {}
  NoProc = NoProc
  UintMod = 8
  MaxPosts = 3
PROPERTIES
  WakeupForEveryToken
CHECK_DEADLOCK FALSE
