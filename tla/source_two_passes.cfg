SPECIFICATION Spec
CONSTANTS
    MaxRow = 3
    Verdict <- AllEmit
    Limit = 2
    Passes = {p1, p2}
    MaxFaults = 2
    MaxCrashes = 0
    MaxReconnects = 1
    MaxAdmin = 0
    SlowReplies = FALSE
    p1 = p1
    p2 = p2
PROPERTIES
    CursorMonotone
CHECK_DEADLOCK FALSE
