CONSTANTS
    x1 = x1
    Desc <- OneDesc
    Rounds = 1
    StdinIsTty = TRUE
    UnsharePid = FALSE
    MaxSignals = 2
    MaxStops = 1
    MaxFaults = 1
SPECIFICATION Spec
INVARIANTS
    ExitStatusFaithful
    NoSignalLost
    StopNeverMissed
    NoSurvivorAfterOk
    FailedDelegationReported
    NoUnsupervisedCommand
    ReturnRestoresProcessState
    UndisturbedDelegationSucceeds
