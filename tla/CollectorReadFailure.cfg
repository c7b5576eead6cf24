CONSTANTS
    f1 = f1
    f2 = f2
    File <- OneFile
    Delay = 1
    MaxNow = 5
    MaxOps = 2
    MaxTerms = 0
    MaxCrashes = 0
    MaxFaults = 1
    Failing = {"read"}
    Crc <- PositionSum
    AppendOnly = FALSE
    Debug = FALSE
    IgnoreOld = {FALSE}
SPECIFICATION Spec
INVARIANT AnnouncedHasCopy
