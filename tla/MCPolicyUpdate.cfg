CONSTANTS
    v0 = v0
    v1 = v1
    v2 = v2
    v1b = v1b
    u1 = u1
    u2 = u2
    l1 = l1
    Versions <- FourVersions
    Serial <- Serials
    Valid <- ThreeVersions
    First = v1
    Updaters <- OneUpdater
    Loaders <- OneLoader
    MaxOverlaps = 1
    MaxCommands = 2
    MaxLocal = 2
    MaxFaults = 1
    MaxCrashes = 1
    MaxPublished = 1
SPECIFICATION Spec
INVARIANTS
    SecuredStays
    PairIntact
    LoadNotStale
    LoadedWasSigned
PROPERTIES
    UpdateAllOrNothing
    NoDowngrade
