SPECIFICATION FairSpec
CONSTANTS
    Events = {r1}
    Routine = {r1}
    Priority = {}
    Terminal = {}
    Admitted = {r1}
    Handlers = {h1}
    TimerTask = TimerTask
    None = None
    MaxAttempts = 1
    MaxRequests = 2
    MaxCrashes = 0
    MaxStops = 0
    DbFaults = TRUE
    GraceExpires = FALSE
    r1 = r1
    h1 = h1
PROPERTIES
    BufferedIsSettled
CHECK_DEADLOCK FALSE
