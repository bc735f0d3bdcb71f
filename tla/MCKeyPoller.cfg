\* Ring of 4 slots, codes of 1 or 2 presses, 5 presses between wipes.
CONSTANTS
    Cap = 4
    Flags <- MCFlags
    Codes <- MCCodes
    Keys <- MCKeys
    Zero <- MCZero
    MaxPress = 5
    MaxDuringCopy = 1
    Secret <- MCSecret
    MinL = 1
    MaxL = 2
SPECIFICATION Spec
INVARIANTS
    CodeIsNotMissed
PROPERTIES
    ImplementsCodeWatch
    CodeIsSignalled
CHECK_DEADLOCK FALSE
