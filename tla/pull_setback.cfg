CONSTANTS
    w1 = w1
    Rows = {1, 2}
    Writers = {w1}
    BandFloor = 0
    MaxBlock = 2
    MaxPosition = 2
    MaxStepBacks = 1
    MaxCrashes = 0
    Families = 2
    FamilyOf <- OddRowsAreTombstones
    PageSize = 1
    MaxPages = 2
SPECIFICATION PullSpec
INVARIANTS
    RereadIsWhole
    UnlandedIsHeld
    StampsAreDistinct
