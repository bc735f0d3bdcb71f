\* Launches side by side and beside a watcher, each of which may be killed; no
\* live owner's snapshot leaves the 24 h window (MCCrashLongSession has one).
CONSTANTS
  s1 = s1  s2 = s2  s3 = s3  w1 = w1
  Sessions = {s1, s2}
  Watchers = {w1}
  Muters = {s1, w1}
  Focusers = {s2, w1}
  OneAtATime = FALSE
  MayKill = TRUE
  MayFail = TRUE
  MayRecycle = TRUE
  MayAge = FALSE
SPECIFICATION Spec
PROPERTIES
  SilenceLasts
CHECK_DEADLOCK FALSE
