\* A display is plugged in during the second session of a watcher.
CONSTANTS
  d1 = d1  d2 = d2
  Modes = {TRUE}
  Displays = {d1, d2}
  Sessions = 2
  MaxChanges = 1
  MaxFails = 0
  MaxEvents = 3
SPECIFICATION OverlayFairSpec
PROPERTIES
  DisplaysGetCovered
CHECK_DEADLOCK FALSE
