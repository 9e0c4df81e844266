SPECIFICATION Spec
CONSTANTS
    Kinds = {review, qa}
    Artifacts = {A, B}
    Stages = {"progress", "canceled"}
    Ordered = {review}
    Rank <- Ranks
    Serial = TRUE
    Staleable = {review}
    NeedsCandidate = {qa}
    NoArtifact = NoArtifact
    Events = {q1, q2, k1, d1}
    Listeners = {quiet, acked, chat}
    ListenerOf <- Listening
    Acked = {acked}
    Direct = {chat}
    FailClosed = {}
    Debounced = {quiet}
    Declared = {acked, chat}
    EndsOn <- TerminalOf
    AutoRetire = {quiet, chat}
    Shared = {chat}
    Payloads <- SomePayloads
    Handlers = {h1, h2}
    None = None
    MaxRequests = 3
    MaxUserTurns = 1
    MaxCrashes = 1
    q1 = q1
    q2 = q2
    k1 = k1
    d1 = d1
    quiet = quiet
    acked = acked
    chat = chat
    review = review
    qa = qa
    A = A
    B = B
    h1 = h1
    h2 = h2
SYMMETRY Symmetry
INVARIANTS
    TypeOK
    ReachesOnce
    UnackedHasATurn
    NothingOverwritten
    RecordedReached
    PassedIsCurrent
    SerialGates
    RetiredIsOver
    KeptIsListed
PROPERTIES
    TerminalSticks
CHECK_DEADLOCK FALSE
