CONSTANTS
    a = a
    b = b
    Nodes = {a, b}
    Author = a
    Bodies = {1, 2, 3}
    First = 2
    Pulls <- TwoPulls
    Pushes <- OnePush
    MaxActs = 2
    MaxFailures = 0
SPECIFICATION Spec
CHECK_DEADLOCK FALSE
INVARIANT NothingLandsUnderATombstone
