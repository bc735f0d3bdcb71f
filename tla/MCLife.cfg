\* A one-shot run, and three sessions of a watcher, stopped at any step.
CONSTANTS
  Modes = {TRUE, FALSE}
  MaxPresses = 3
  MayStopEarly = {TRUE, FALSE}
  MayQuit = {TRUE, FALSE}
  MayPanic = {FALSE}
SPECIFICATION FairSpec
INVARIANTS
  NothingLeftBehind
  TapIsInnermost
  WaitingHoldsNothing
  WatchdogTripIsReported
PROPERTIES
  TriggerFreesInput
  StopIsObeyed
CHECK_DEADLOCK FALSE
