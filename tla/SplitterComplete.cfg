CONSTANTS
    Files <- CompleteFiles
    RaportsToCollect = {"SYNOP", "METAR", "TEMP", "BUFR_SURFACE"}
SPECIFICATION Spec
INVARIANTS
    AllReports
    NoneGlued
    PInv
