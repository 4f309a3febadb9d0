CONSTANTS
    a = a
    b = b
    c = c
    Members = {a, b, c}
    Proposer = a
    Rules = {"democratic"}
    Doubters = {c}
    MaxCycles = 1
SPECIFICATION FairSpec
INVARIANTS
    RoundsTypeOK
    PassedIsAuthorised
    WipedStaysWiped
PROPERTIES
    DecidedOnce
    DecisionReachesAll
    HoldsEnd
