SPECIFICATION MCSpec
CONSTANTS
    p1 = p1
    p2 = p2
    x = x
    u1 = u1
    None = None
    Calls = {p1, p2}
    Ids = {x}
    IdOf <- PairIdOf
    MaxExtra = 1
    AuthCalls = {c1, c2, c3}
    MaxChallenge = 2
    Urls = {u1}
    LockOf <- mcLockOf
    EnsureCalls = {c1, c2}
    ManualSeconds = 60
    MaxConns = 2
    MaxManual = 1
    MaxFailures = 1
INVARIANTS
    CallbackNeverBlocks
    EveryOkAnswers
    AuthOnce
    OneConnection
PROPERTIES
    CallsReturn
CHECK_DEADLOCK FALSE
