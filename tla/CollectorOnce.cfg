CONSTANTS
    f1 = f1
    f2 = f2
    File <- TwoFiles
    Delay = 1
    MaxNow = 4
    MaxOps = 2
    MaxTerms = 1
    MaxCrashes = 1
    MaxFaults = 2
    Failing = {"open", "list", "mtime", "copy", "read", "stat", "save"}
    Crc <- PositionSum
    AppendOnly = TRUE
    Debug = FALSE
    IgnoreOld = {FALSE}
SPECIFICATION Spec
INVARIANTS
    RepeatsAreBounded
    RInv
SYMMETRY FileSymmetry
