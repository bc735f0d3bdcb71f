\* Two watchers with their launchers and a --kill that does not run while
\* one of them is starting; the probe of a PID does not fail.
CONSTANTS
  a = a  b = b  k = k  n1 = n1  n2 = n2  c1 = c1  c2 = c2
  Watchers = {a, b}
  Killers = {k}
  Pids = {n1, n2}
  Combos = {c1, c2}
  Blind = {b}
  MayRace = FALSE
  MayMisread = FALSE
SPECIFICATION FairSpec
INVARIANTS
  WatcherIsReachable
  LauncherTellsTheTruth
PROPERTIES
  OnlyWatchersRefuse
  KilledMeansNotWatching
  LauncherReturns
CHECK_DEADLOCK FALSE
