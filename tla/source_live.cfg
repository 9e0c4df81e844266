SPECIFICATION FairSpec
CONSTANTS
    MaxRow = 3
    Verdict <- MCVerdict
    Limit = 2
    Passes = {p1, p2}
    MaxFaults = 2
    MaxCrashes = 1
    MaxReconnects = 1
    MaxAdmin = 0
    SlowReplies = TRUE
    p1 = p1
    p2 = p2
PROPERTIES
    CatchesUp
CHECK_DEADLOCK FALSE
