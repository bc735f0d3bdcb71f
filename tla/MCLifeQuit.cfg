\* The run loop of a watcher ends on its own.
CONSTANTS
  Modes = {TRUE}
  MaxPresses = 1
  MayStopEarly = {}
  MayQuit = {TRUE}
  MayPanic = {}
SPECIFICATION FairSpec
PROPERTIES
  ShutdownCompletes
CHECK_DEADLOCK FALSE
