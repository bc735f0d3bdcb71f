\* Three runs on two PIDs, one of another user; the scan is cut off at one entry.
CONSTANTS
    a = a
    b = b
    d = d
    one = one
    two = two
    p1 = p1
    p2 = p2
    Procs = {a, b, d}
    Foreign = {d}
    Pids = {p1, p2}
    Callers = {one, two}
    MaxSessions = 2
    Cap = 1
SPECIFICATION Spec
INVARIANTS
    SeenHoldersAreGone
    ReturnedMeansReleased
PROPERTIES
    LiveAssertionsStay
SYMMETRY Symmetry
CHECK_DEADLOCK FALSE
