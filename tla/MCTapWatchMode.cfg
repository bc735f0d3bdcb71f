\* A watcher: sessions run on a goroutine, the wake block on the main thread.
CONSTANTS
    MaxInstalls = 1
    MaxKicks = 0
    FailThreshold = 2
    Regimes = {FALSE}
SPECIFICATION Spec
INVARIANTS
    WakeBlockIsSafe
CHECK_DEADLOCK FALSE
