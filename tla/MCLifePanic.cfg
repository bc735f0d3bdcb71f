\* The session of a watcher panics.
CONSTANTS
  Modes = {TRUE}
  MaxPresses = 1
  MayStopEarly = {}
  MayQuit = {}
  MayPanic = {TRUE}
SPECIFICATION FairSpec
INVARIANTS
  NothingLeftBehind
CHECK_DEADLOCK FALSE
