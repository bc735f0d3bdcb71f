\* A watcher's session fails on its windows, then a display is plugged in.
CONSTANTS
  d1 = d1  d2 = d2
  Modes = {TRUE}
  Displays = {d1, d2}
  Sessions = 1
  MaxChanges = 1
  MaxFails = 1
  MaxEvents = 3
SPECIFICATION OverlayFairSpec
INVARIANTS
  FailedStartRaisesNothing
CHECK_DEADLOCK FALSE
