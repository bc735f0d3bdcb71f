\* One watcher starts while a --kill is on its way.
CONSTANTS
  a = a  b = b  k = k  n1 = n1  n2 = n2  c1 = c1  c2 = c2
  Watchers = {a}
  Killers = {k}
  Pids = {n1, n2}
  Combos = {c1}
  Blind = {}
  MayRace = TRUE
  MayMisread = FALSE
SPECIFICATION Spec
INVARIANTS
  WatcherIsReachable
CHECK_DEADLOCK FALSE
