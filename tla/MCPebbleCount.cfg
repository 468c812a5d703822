SPECIFICATION Spec
CONSTANTS
 Events <- mcEvents
 CreatedAt <- mcCreatedAt
 Kind <- mcKind
 Author <- mcAuthor
 D <- mcD
 NoD = NoD
 NotSet = NotSet
 a1 = a1
 a2 = a2
 Tags <- mcTags
 Form <- mcForm
 Cut <- mcCut
 Unindexed <- mcUnindexed
 NoTag = NoTag
 Lower <- mcLower
 ToLower <- mcToLower
 BitsOf <- mcBitsOf
 MaxSearchGrams = 2
 Backends = {"pebble2"}
 QueryFilters <- mcCountFilters
 Content <- mcContent
 CallerLimit = 4
 PullShare = 2
 FewResults = 4
 MinBatch = 1
 PrefetchSize = 2
 MaxScanKeys = 4
 SearchShards = 2
 HourLength = 2
 DayLength = 6
 Snapshots <- mcSnapshots
 OverlapEvents = {2, 4}
 MaxOverlaps = 1
 WriteBackends = {"bolt", "badger", "pebble"}
 Writers = {w1, w2}
 StoreEvents <- mcStoreEvents
 MaxWrites = 3
 HLLKinds = {7}
 HLLOnly = {}
 References <- mcReferences
 Callers = {c1, c2}
 QueueSize = 1
 WriteGroupMax = 2
 MaxRequests = 3
 PipelineEvents <- mcPipelineEvents
 CounterHour = 2
 CounterDay = 6
 Targets <- mcReferences
INVARIANTS CountIsExact
CHECK_DEADLOCK FALSE
