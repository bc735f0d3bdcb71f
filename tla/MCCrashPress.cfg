\* A session is killed and the next one is a press of a waiting watcher.
CONSTANTS
  s1 = s1  s2 = s2  s3 = s3  w1 = w1
  Sessions = {s1}
  Watchers = {w1}
  Muters = {s1, w1}
  Focusers = {}
  OneAtATime = FALSE
  MayKill = TRUE
  MayFail = FALSE
  MayRecycle = FALSE
  MayAge = FALSE
SPECIFICATION Spec
INVARIANTS
  RestoredWhenIdle
CHECK_DEADLOCK FALSE
