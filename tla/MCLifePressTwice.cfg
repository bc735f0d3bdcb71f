\* The hot key is pressed twice before the shield is up.
CONSTANTS
  Modes = {TRUE}
  MaxPresses = 2
  MayStopEarly = {}
  MayQuit = {}
  MayPanic = {}
SPECIFICATION FairSpec
PROPERTIES
  AskingTwiceIsAskingOnce
CHECK_DEADLOCK FALSE
