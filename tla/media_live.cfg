CONSTANTS
    r1 = r1
    r2 = r2
    u1 = u1
    A = A
    B = B
    None = None
    Runs = {r1, r2}
    Doors = {u1}
    Contents = {A, B}
    MaxAttempts = 2
    MaxDeferrals = 1
    MaxActs = 2
    MaxFaults = 2
SPECIFICATION FairSpec
CHECK_DEADLOCK FALSE
INVARIANTS
    MediaTypeOK
    OneContentsRows
    NoOrphanRows
    RowAwaitsItsJob
PROPERTY EveryJobEnds
