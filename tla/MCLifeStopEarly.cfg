\* SIGTERM reaches a watcher whose session is starting.
CONSTANTS
  Modes = {TRUE}
  MaxPresses = 1
  MayStopEarly = {TRUE}
  MayQuit = {}
  MayPanic = {}
SPECIFICATION FairSpec
PROPERTIES
  ShutdownCompletes
CHECK_DEADLOCK FALSE
