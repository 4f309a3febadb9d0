CONSTANTS
    w1 = w1
    w2 = w2
    Writers = {w1}
    Step = 1
    MarkLimit = 4
    MaxSettings = 1
    MaxEdits = 2
    MaxStamps = 0
    MaxFaults = 0
SPECIFICATION FairSpec
CHECK_DEADLOCK FALSE
PROPERTY
    EditsTakeEffect
