CONSTANTS
    m1 = m1
    m2 = m2
    m3 = m3
    Msg <- TwoMessages
    Stubborn <- TheSecond
    Slashed = {}
    NServers = 2
    MaxFiles = 4
    MaxBad = 3
    MaxFaults = 1
    Failing = {"read"}
    MaxTerms = 1
    MaxCrashes = 1
    IgnoreOld = FALSE
SPECIFICATION FairSpec
INVARIANTS
    TypeOK
    NothingLost
    DInv
PROPERTIES
    ImplementsAtLeastOnce
    EventuallyDrained
