SPECIFICATION Spec
CONSTANTS
 ModerationEvents <- mcModerations
 GroupWatches = {{"metadata"}, {"admins", "members", "roles"}, {"participants", "pinned"}}
 MaxModerations = 2
 MaxMerges = 2
 WMints = {"A", "B"}
 WTokens <- mcTokens
 WDeleted = {}
 WVersions <- mcVersions
 FeePpk <- mcFee
 WCalls = {"send", "pay", "receive", "zap", "drop", "edit", "close"}
 SendAmounts = {3, 12}
 Invoices = {3}
 ReceiveAmounts = {8}
 IntoMints <- mcInto
 AcceptSource = TRUE
 MaxReserve = 2
 MaxCalls = 2
 WMaxFaults = 1
 RsClients = {"c1"}
 RsRelays = {"r1", "r2"}
 RsRequests <- mcRequests
 SignerKinds = {"static", "external"}
 Ways = {"plain", "bunker", "nip05", "nostrconnect"}
 RingSize = 2
 HandlerThreads = 1
 MaxRpcs = 2
 RsMaxFaults = 1
INVARIANTS SnapshotIsWhole MirrorConverges MoneyKept HistoryExplains  RpcsAreAnswered
CHECK_DEADLOCK FALSE
