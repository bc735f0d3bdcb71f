\* A one-shot run is told to stop between Step 12 and its entry of [NSApp run].
CONSTANTS
  Modes = {FALSE}
  MaxPresses = 0
  MayStopEarly = {FALSE}
  MayQuit = {}
  MayPanic = {}
SPECIFICATION FairSpec
PROPERTIES
  CancelledRunsEnd
CHECK_DEADLOCK FALSE
