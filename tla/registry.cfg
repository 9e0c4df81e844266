SPECIFICATION Spec
CONSTANTS
    Types = {completed, blocked}
    Aliases = {completed, blocked, dotted}
    TypeOfAlias <- AliasTypes
    NoType = NoType
    DefaultTypes = {completed, blocked}
    MaterialKinds = {completed, blocked}
    NoisyKinds = {heartbeat}
    TypeOfKind <- SentAs
    RedactedFor = 2
    RawFor = 1
    Owners = {o1, o2}
    Listeners = {l1, l2}
    Bindings = {b1}
    Ids = {e1}
    Handlers = {h1, h2}
    None = None
    OwnerOf <- OwnerOfListener
    Home <- HomeOfBinding
    Configs <- AllConfigs
    SeenDays = 1
    LogDays = 0
    MaxFlight = 1
    MaxTime = 2
    MaxRequests = 3
    MaxChanges = 1
    l1 = l1
    l2 = l2
    o1 = o1
    o2 = o2
    completed = completed
    blocked = blocked
    dotted = dotted
    heartbeat = heartbeat
    e1 = e1
    b1 = b1
    h1 = h1
    h2 = h2
SYMMETRY Symmetry
INVARIANTS
    TypeOK
    AcceptedOnceInWindow
    PointerResolves
    MostSpecificWins
    ReadyIsAccepted
PROPERTIES
    OthersKeep
CHECK_DEADLOCK FALSE
