SPECIFICATION Spec
CONSTANTS
 r1 = r1
 r2 = r2
 AppWriters = {w1}
 QueueMax = 1
 MaxAnswers = 1
 PingMax = 1
 PgRelays = {r1, r2}
 PgTime <- mcTime
 PgWorlds <- mcWorlds
 PageSize = 3
 PgLimits = {0, 2, 4}
 StartUntil = 9
 NgItems <- mcItems
 NgModes = {"both", "down", "blind"}
 Buckets = 2
 FrameLimit = 5
 SyncBatch = 2
 MaxRounds = 4
 NgMaxFaults = 1
 LdLoads = {"l1", "l2"}
 LdKeys = {"ann", "bob"}
 BatchCap = 2
 LdRelays = {"r1", "r2"}
 LdHolds <- mcHolds
 LdOutbox <- mcOutbox
 LdFallback = {"r2"}
 RelaysPerKey = 2
 MaxContextsEnd = 2
 SfCalls = {"f1", "f2"}
 SfStyles = {"list", "sets", "profile"}
 SfTime <- mcSfTime
 SfD <- mcSfD
 SfStores = {{}, {1}, {1, 3}}
 RefreshAfter = 1
 SfMaxNow = 3
INVARIANTS NobodyStuck WalksOneRelay SyncConverges LoadsAreAnswered FetchKeepsNewest
CHECK_DEADLOCK FALSE
