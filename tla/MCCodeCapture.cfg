CHECK_DEADLOCK FALSE
SPECIFICATION FairSpec
CONSTANTS
    a = a
    b = b
    ret = ret
    esc = esc
    old = old
    Plain = {a, b}
    Return = ret
    Esc = esc
    Cap = 4
    MinSteps = 1
    MaxSteps = 2
    Old = old
    MaxPress = 6
    MaxSignals = 1
    EarlySignal = FALSE
INVARIANTS
    SavedIsConfirmed
    ToldTheTruth
    TerminalIsRestored
PROPERTIES
    AbortIsFinal
    SignalEndsIt
