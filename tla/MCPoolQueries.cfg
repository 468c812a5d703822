SPECIFICATION Spec
CONSTANTS
    u1 = u1
    u2 = u2
    PoolUrls <- mcPoolUrls
    KeyOf <- mcKeyOf
    RelayHolds <- mcRelayHolds
    BadAt <- mcBadAt
    PoolEvents = {1, 2}
    MaxTries = 2
    MaxFaults = 1
    PoolOps = {"sub", "fetch", "single", "latest", "publish", "count", "batchQuery"}
INVARIANTS
    DeliveredOnce
    FetchComplete
    EoseWhenAll
PROPERTIES
    PoolCallsEnd
CHECK_DEADLOCK FALSE
