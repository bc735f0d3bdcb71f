\* The rebuild after a change of displays fails once.
CONSTANTS
  d1 = d1  d2 = d2
  Modes = {FALSE}
  Displays = {d1, d2}
  Sessions = 1
  MaxChanges = 1
  MaxFails = 1
  MaxEvents = 3
SPECIFICATION OverlayFairSpec
PROPERTIES
  FailedRebuildIsRetried
CHECK_DEADLOCK FALSE
