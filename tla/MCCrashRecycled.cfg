\* The PID of a killed session names another program a day later.
CONSTANTS
  s1 = s1  s2 = s2  s3 = s3  w1 = w1
  Sessions = {s1, s2}
  Watchers = {}
  Muters = {s1, s2}
  Focusers = {}
  OneAtATime = TRUE
  MayKill = TRUE
  MayFail = FALSE
  MayRecycle = TRUE
  MayAge = FALSE
SPECIFICATION Spec
PROPERTIES
  StaleSnapshotNeverRefuses
CHECK_DEADLOCK FALSE
