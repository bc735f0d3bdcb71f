\* A start-up stalls between finding no config and writing the default one.
CONSTANTS
  s1 = s1  s2 = s2  w1 = w1  p1 = p1
  Sessions = {s1}
  Watchers = {}
  Setters = {p1}
  MayAge = FALSE
  FirstRun = TRUE
SPECIFICATION Spec
PROPERTIES
  OnlySetPasswordChangesSecret
CHECK_DEADLOCK FALSE
