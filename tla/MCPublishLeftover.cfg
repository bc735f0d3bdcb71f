\* A watcher whose runtime.json could not be removed is pressed again.
CONSTANTS
  s1 = s1  s2 = s2  w1 = w1  p1 = p1
  Sessions = {}
  Watchers = {w1}
  Setters = {}
  MayAge = FALSE
  FirstRun = FALSE
SPECIFICATION Spec
PROPERTIES
  OnlyPeersRefuse
CHECK_DEADLOCK FALSE
