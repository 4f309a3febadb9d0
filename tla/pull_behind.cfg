CONSTANTS
    w1 = w1
    Rows = {1, 2}
    Writers = {w1}
    BandFloor = 1
    MaxBlock = 1
    MaxPosition = 3
    MaxStepBacks = 1
    MaxCrashes = 0
    Families = 2
    FamilyOf <- OddRowsAreTombstones
    PageSize = 1
    MaxPages = 2
SPECIFICATION PullSpec
INVARIANT ForgottenMarkIsRebuilt
