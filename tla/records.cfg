CONSTANTS
    a = a
    b = b
    Nodes = {a, b}
    Author = a
    Bodies = {1, 2, 3}
    First = 2
    Pulls <- TwoPulls
    Pushes <- OnePush
    MaxActs = 2
    MaxFailures = 1
SPECIFICATION FairSpec
CHECK_DEADLOCK FALSE
INVARIANT VersionsTypeOK
PROPERTIES
    CopiesOnlyRise
    DisplacedTextIsKept
    HoldersAgree
    RemovalTakesEffect
