CONSTANTS
    m1 = m1
    m2 = m2
    m3 = m3
    Msg <- ThreeMessages
    Stubborn = {}
    Slashed <- TheSecond
    NServers = 1
    MaxFiles = 4
    MaxBad = 2
    MaxFaults = 2
    Failing = {"read", "write", "close", "save"}
    MaxTerms = 1
    MaxCrashes = 2
    IgnoreOld = TRUE
SPECIFICATION Spec
INVARIANTS
    LossIsBounded
    BInv
