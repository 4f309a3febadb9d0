CONSTANTS
    Rows = {1, 2, 3, 4}
    Families = 2
    FamilyOf <- OddRowsAreTombstones
    PageSize = 1
    MaxPages = 2
    BandFloor = 1
    MaxPosition = 2
SPECIFICATION PushFairSpec
INVARIANTS
    PushTypeOK
    NothingLeftBehind
PROPERTIES
    RereadIsWhole
    RereadEnds
    MarkCatchesUp
