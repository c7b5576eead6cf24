CONSTANTS
    p1 = p1
    p2 = p2
    Proc <- Processes
    DELAY = 1
    RESEND_DELAY = 2
    Confs <- SomeConfs
    Entries <- SomeEntries
    Serialized = TRUE
    MaxBack = 1
    MaxKills = 1
SPECIFICATION FairSpec
INVARIANTS
    OneDaemon
    MInv
    CollectedHaveDecoders
PROPERTIES
    BothTimersGoOff
    SigTermEnds
