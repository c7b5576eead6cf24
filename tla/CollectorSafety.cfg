CONSTANTS
    f1 = f1
    f2 = f2
    File <- OneFile
    Delay = 1
    MaxNow = 5
    MaxOps = 3
    MaxTerms = 1
    MaxCrashes = 1
    MaxFaults = 1
    Failing = {"open", "list", "mtime", "copy", "read", "stat", "save"}
    Crc <- PositionSum
    AppendOnly = FALSE
    Debug = FALSE
    IgnoreOld = {TRUE, FALSE}
SPECIFICATION Spec
INVARIANTS
    TypeOK
    CopyIntact
    NothingMissed
    PersistedIsHanded
    OldIsLeftAlone
    IInv
PROPERTY StaleStays
