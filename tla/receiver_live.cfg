SPECIFICATION FairSpec
CONSTANTS
    Events = {r1, r2, f1}
    Routine = {r1, r2}
    Priority = {f1}
    Terminal = {f1}
    Admitted = {r1, r2, f1}
    Handlers = {h1, h2}
    TimerTask = TimerTask
    None = None
    MaxAttempts = 1
    MaxRequests = 4
    MaxCrashes = 0
    MaxStops = 0
    DbFaults = FALSE
    GraceExpires = FALSE
    r1 = r1
    r2 = r2
    f1 = f1
    h1 = h1
    h2 = h2
PROPERTIES
    ContractSettles
    TerminalRetires
CHECK_DEADLOCK FALSE
