\* Two watchers with hot keys of their own; the probe of a live PID may fail.
CONSTANTS
  a = a  b = b  k = k  n1 = n1  n2 = n2  c1 = c1  c2 = c2
  Watchers = {a, b}
  Killers = {}
  Pids = {n1, n2}
  Combos = {c1, c2}
  Blind = {}
  MayRace = FALSE
  MayMisread = TRUE
SPECIFICATION Spec
INVARIANTS
  WatcherIsReachable
CHECK_DEADLOCK FALSE
