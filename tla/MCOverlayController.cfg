\* One session of a one-shot run or two of a watcher; the displays change
\* twice, or once with a window that cannot be built.
CONSTANTS
  d1 = d1  d2 = d2
  Modes = {TRUE, FALSE}
  Displays = {d1, d2}
  Sessions = 2
  MaxChanges = 2
  MaxFails = 1
  MaxEvents = 2
SPECIFICATION OverlayFairSpec
INVARIANTS
  OneShotLeavesNoShield
  CursorFollowsShield
  LeadingEdgeRecovers
PROPERTIES
  OneShotCoversDisplays
CHECK_DEADLOCK FALSE
