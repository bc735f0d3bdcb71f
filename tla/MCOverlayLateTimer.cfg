\* A display is plugged in just before the session of a watcher ends.
CONSTANTS
  d1 = d1  d2 = d2
  Modes = {TRUE}
  Displays = {d1, d2}
  Sessions = 1
  MaxChanges = 2
  MaxFails = 0
  MaxEvents = 3
SPECIFICATION OverlayFairSpec
INVARIANTS
  NoShieldBetweenSessions
CHECK_DEADLOCK FALSE
