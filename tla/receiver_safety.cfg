SPECIFICATION Spec
CONSTANTS
    Events = {r1, r2, f1, x1}
    Routine = {r1, r2}
    Priority = {f1}
    Terminal = {f1}
    Admitted = {r1, r2, f1}
    Handlers = {h1, h2, h3}
    TimerTask = TimerTask
    None = None
    MaxAttempts = 2
    MaxRequests = 4
    MaxCrashes = 0
    MaxStops = 1
    DbFaults = FALSE
    GraceExpires = FALSE
    r1 = r1
    r2 = r2
    f1 = f1
    x1 = x1
    h1 = h1
    h2 = h2
    h3 = h3
SYMMETRY Symmetry
INVARIANTS
    NoSilentLoss
    RoutineInOrder
    RetiredAfterDelivery
CHECK_DEADLOCK FALSE
