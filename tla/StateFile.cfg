CONSTANTS
    Names <- TwoNames
    Contents <- Reports
    Checksum <- TabledChecksum
    MaxHanded = 3
SPECIFICATION Spec
INVARIANTS
    FInv
    SkipsOnlyHanded
    WholeLinesComeBack
    AbortsForACutOnly
    TablesAreCcitt
    AdjacentChangesShow
