CONSTANTS
    r1 = r1
    u1 = u1
    A = A
    B = B
    None = None
    Runs = {r1}
    Doors = {u1}
    Contents = {A, B}
    MaxAttempts = 2
    MaxDeferrals = 0
    MaxActs = 2
    MaxFaults = 1
SPECIFICATION Spec
CHECK_DEADLOCK FALSE
INVARIANT StampNamesItsBytes
