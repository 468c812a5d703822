SPECIFICATION RelaySpec
CONSTANTS
    a1 = a1
    a2 = a2
    c1 = c1
    c2 = c2
    s1 = s1
    s2 = s2
    r1 = r1
    r2 = r2
    p1 = p1
    p2 = p2
    Nil = Nil
    Conns = {c1}
    SubIds = {s1}
    Authors = {a1, a2}
    Kinds = {1, 2}
    EphemeralKinds = {2}
    Filters <- MCFilters
    Events <- MCEvents
    Reqs = {r1}
    ReqOf <- OneReqOf
    Pubs = {p1, p2}
    PubOf <- TwicePubOf
    Prevented = {}
    MaxSerial = 2
PROPERTIES
    ListenersRemoved
    MessagesAnswered
INVARIANTS
    EachEventOnce
CHECK_DEADLOCK FALSE
