CONSTANTS
    apt = apt
    vim = vim
    b1 = b1
    b2 = b2
    u1 = u1
    u2 = u2
    p1 = p1
    NoFile = NoFile
    Tool <- TwoTools
    Build <- TwoBuilds
    Program <- TwoPrograms
    Proc <- OneProc
    PathOrder <- Sorted
    MaxFaults = 2
SYMMETRY Alike
SPECIFICATION Spec
INVARIANTS
    NamedAreGatekeepers
    Sealed
    InstallOkComplete
    UnlockOkFrees
    ReinstallSucceeds
    DropInWhole
PROPERTIES
    UserFileKept
