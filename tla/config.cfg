CONSTANTS
    w1 = w1
    w2 = w2
    Writers = {w1, w2}
    Step = 1
    MarkLimit = 4
    MaxSettings = 1
    MaxEdits = 1
    MaxStamps = 2
    MaxFaults = 2
SPECIFICATION FairSpec
CHECK_DEADLOCK FALSE
INVARIANTS
    ConfigTypeOK
    NoVersionIsReused
PROPERTIES
    DurableSavesStay
    SavesReachTheDisk
