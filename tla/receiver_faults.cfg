SPECIFICATION Spec
CONSTANTS
    Events = {r1, r2, f1}
    Routine = {r1, r2}
    Priority = {f1}
    Terminal = {f1}
    Admitted = {r1, r2, f1}
    Handlers = {h1, h2}
    TimerTask = TimerTask
    None = None
    MaxAttempts = 1
    MaxRequests = 4
    MaxCrashes = 1
    MaxStops = 0
    DbFaults = TRUE
    GraceExpires = FALSE
    r1 = r1
    r2 = r2
    f1 = f1
    h1 = h1
    h2 = h2
SYMMETRY Symmetry
INVARIANTS
    AtMostOnce
PROPERTIES
    ImplementsContract
CHECK_DEADLOCK FALSE
