SPECIFICATION Spec
CONSTANTS
    channel = channel
    thread = thread
    terminal = terminal
    u1 = u1
    kc = kc
    kt = kt
    kl = kl
    s1 = s1
    s2 = s2
    c1 = c1
    c2 = c2
    Sources <- MCSources
    Keys <- MCKeys
    KeyOf <- MCKeyOf
    Contexts <- MCContexts
    Offers = {"keys"}
    Local = {terminal}
    Threads = {thread}
    Sids = {s1, s2}
    Calls = {c1, c2}
    None = None
    Unavailable = Unavailable
    MaxCalls = 2
    MaxResolving = 1
    MaxCommands = 1
    MaxRestarts = 1
SYMMETRY Symmetry
INVARIANTS
    TypeOK
    NamedSession
    AnsweredIsHere
PROPERTIES
    OnePerConversation
CHECK_DEADLOCK FALSE
