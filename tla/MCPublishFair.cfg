\* A first run; snapshots may leave the 24 h window: what still comes about.
CONSTANTS
  s1 = s1  s2 = s2  w1 = w1  p1 = p1  p2 = p2
  Sessions = {s1}
  Watchers = {w1}
  Setters = {p1}
  MayAge = TRUE
  FirstRun = TRUE
SPECIFICATION FairSpec
PROPERTIES
  StartDecides
  LockIsDropped
CHECK_DEADLOCK FALSE
