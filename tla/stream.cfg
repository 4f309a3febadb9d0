CONSTANTS
    r1 = r1
    w1 = w1
    w2 = w2
    Rows = {r1}
    Writers = {w1, w2}
    BandFloor = 1
    MaxBlock = 1
    MaxPosition = 3
    MaxStepBacks = 1
    MaxCrashes = 1
SPECIFICATION FairSpec
INVARIANTS
    TypeOK
    StampsAreDistinct
    OwnMarkIsCapped
PROPERTY EveryRowBecomesReadable
