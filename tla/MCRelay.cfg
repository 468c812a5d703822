SPECIFICATION MCSpec
CONSTANTS
    a1 = a1
    a2 = a2
    c1 = c1
    c2 = c2
    s1 = s1
    s2 = s2
    r1 = r1
    r2 = r2
    p1 = p1
    p2 = p2
    Nil = Nil
    Conns = {c1, c2}
    SubIds = {s1}
    Authors = {a1, a2}
    Kinds = {1, 2}
    EphemeralKinds = {2}
    Filters <- MCFilters
    Events <- MCEvents
    Reqs = {r1, r2}
    ReqOf <- TwoConnReqOf
    Pubs = {p1}
    PubOf <- EphemeralPubOf
    Prevented <- OnePrevented
    MaxSerial = 3
    e1 = e1
    e2 = e2
    NoEvent = NoEvent
    SubEvents = {e1, e2}
    SubInWindow = {e1}
    HasTimer = TRUE
    MaxClosed = 1
PROPERTIES
    DispatcherIsSequential
    LeavesNothing
    EoseComes
INVARIANTS
    OnlyRequestedEvents
    EoseAfterStored
CHECK_DEADLOCK FALSE
