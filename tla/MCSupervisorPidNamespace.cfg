CONSTANTS
    x1 = x1
    Desc <- OneDesc
    Rounds = 1
    StdinIsTty = TRUE
    UnsharePid = TRUE
    MaxSignals = 0
    MaxStops = 0
    MaxFaults = 0
SPECIFICATION Spec
INVARIANTS
    UndisturbedDelegationSucceeds
