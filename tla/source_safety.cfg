SPECIFICATION Spec
CONSTANTS
    MaxRow = 4
    Verdict <- MCVerdict
    Limit = 2
    Passes = {p1}
    MaxFaults = 3
    MaxCrashes = 1
    MaxReconnects = 0
    MaxAdmin = 2
    SlowReplies = FALSE
    p1 = p1
INVARIANTS
    TypeOK
    CursorCovered
    TakenOrGivenUp
    ShownInOrder
PROPERTIES
    SettledForGood
CHECK_DEADLOCK FALSE
