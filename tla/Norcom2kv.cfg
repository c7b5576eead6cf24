CONSTANTS
    f1 = f1
    File <- OneFile
    Delay = 1
    ResendDelay = 2
    MaxNow = 4
    MaxOps = 2
    MaxTerms = 1
    MaxCrashes = 1
    MaxFaults = 1
    Failing = {"copy", "stat", "save"}
    Crc <- PositionSum
    AppendOnly = TRUE
    Debug = FALSE
    IgnoreOld = {FALSE}
    NServers = 1
    MaxFiles = 2
    MaxBad = 2
    SendFailing = {"read", "write"}
    Slashed = {}
SPECIFICATION AllFairSpec
INVARIANTS
    SkippedIsSafe
    CollectedIsSafe
    NInv
PROPERTIES
    ImplementsAtLeastOnce
    EventuallySettled
    EventuallyEmpty
