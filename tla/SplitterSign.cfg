CONSTANTS
    Files <- WithSign
    RaportsToCollect = {"SYNOP", "METAR", "TEMP", "BUFR_SURFACE"}
SPECIFICATION Spec
INVARIANT
    AllReports
