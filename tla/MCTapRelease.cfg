\* A one-shot run with the taps of its session, and a watcher with two.
CONSTANTS
    MaxInstalls = 2
    MaxKicks = 3
    FailThreshold = 2
    Regimes = {TRUE, FALSE}
SPECIFICATION Spec
INVARIANTS
    NoFreedPortIsUsed
    DetachedTapsAreOff
    NothingIsLeft
    SessionsDoNotMix
PROPERTIES
    DeadTapIsNoticed
CHECK_DEADLOCK FALSE
