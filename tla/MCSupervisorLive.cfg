CONSTANTS
    x1 = x1
    Desc <- OneDesc
    Rounds = 1
    StdinIsTty = TRUE
    UnsharePid = FALSE
    MaxSignals = 1
    MaxStops = 1
    MaxFaults = 0
SPECIFICATION FairSpec
PROPERTIES
    TerminationHonoured
    StopPropagates
