\* A shield is up for more than a day, or the clock is set, while a second
\* launch waits between Step 5c and its recovery.
CONSTANTS
  s1 = s1  s2 = s2  s3 = s3  w1 = w1
  Sessions = {s1, s2}
  Watchers = {w1}
  Muters = {s1, w1}
  Focusers = {s2, w1}
  OneAtATime = FALSE
  MayKill = FALSE
  MayFail = FALSE
  MayRecycle = FALSE
  MayAge = TRUE
SPECIFICATION Spec
PROPERTIES
  SilenceLasts
CHECK_DEADLOCK FALSE
