SPECIFICATION Spec
CONSTANTS
    alice = alice
    bob = bob
    p1 = p1
    p2 = p2
    p3 = p3
    None = None
    NoD = NoD
    NotSet = NotSet
    Events <- MCEvents
    CreatedAt <- MCCreatedAt
    Kind <- MCKind
    Author <- MCAuthor
    D <- MCD
    Pubs = {p1, p2, p3}
    PubEvent <- MCPubEvent
    Tags <- MCTags
    Expiration <- MCExpiration
    Old = {1, 2, 3, 6}
    MaxQueryLimit = 3
    MaxNow = 1
INVARIANTS
    ExpiringIsTracked
PROPERTIES
    OnlyByRight
    ManagerKeepsUp
CHECK_DEADLOCK FALSE
