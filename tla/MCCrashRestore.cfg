\* One launch after another, each of which may be killed at any step.
CONSTANTS
  s1 = s1  s2 = s2  s3 = s3  w1 = w1
  Sessions = {s1, s2, s3}
  Watchers = {w1}
  Muters = {s1, s2, w1}
  Focusers = {s2, w1}
  OneAtATime = TRUE
  MayKill = TRUE
  MayFail = FALSE
  MayRecycle = TRUE
  MayAge = TRUE
SPECIFICATION Spec
INVARIANTS
  RestoredWhenIdle
CHECK_DEADLOCK FALSE
