CONSTANTS
    w1 = w1
    Rows = {1, 3}
    Writers = {w1}
    BandFloor = 1
    MaxBlock = 1
    MaxPosition = 2
    MaxStepBacks = 0
    MaxCrashes = 1
    Families = 2
    FamilyOf <- OddRowsAreTombstones
    PageSize = 1
    MaxPages = 2
SPECIFICATION PullFairSpec
PROPERTIES
    NothingLandsBelowACap
    PullIsComplete
    EveryRowArrives
INVARIANTS
    StampsStayAboveCaps
    PullTypeOK
    NothingSkipped
    PrunableIsApplied
    HonestHeadIsReached
