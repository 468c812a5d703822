# A verification project for the nostr library

This directory holds TLA+ models of the parts of the library where goroutines,
messages, timeouts and shared state meet, TLC configurations that check them on
small instances, and TLAPS proofs of their main invariants for instances of any
size. The models are written from the Go source; `PROJECT.json` maps every
definition to the lines it stands for.

## 1. The system

The repository is a client library, a relay framework and a collection of
protocol helpers (NIPs) for nostr.

| Part | State it keeps | Operations | Talks to |
|---|---|---|---|
| Relay server (`relay/`) | `clients` (connection -> listener specs), the `dispatcher` (subscriptions and three indexes), both under `clientsMutex`; the event store behind hooks | connect, `kill`, REQ, CLOSE, EVENT, COUNT, AUTH, NEG-*; `addListener`, `removeListenerId`, `removeClientAndListeners`, `notifyListeners` | one goroutine per message; store hooks; websockets |
| Client connection (`relay.go`) | `Subscriptions`, `okCallbacks`, `challenge`, `authed`, `performAuth`, write queue | `Connect`, `Close`, `Publish`, `Auth`, `Subscribe`, `Count`; the main loop and `handleMessage` | the relay; the subscriptions and callers of the same connection |
| Client subscription (`subscription.go`) | `live`, `eosed`, `closed`, `storedwg`, `match`, the channels `Events`, `EndOfStoredEvents`, `ClosedReason` | `Fire`, `Unsub`, `dispatchEvent`, `dispatchEose`, `handleClosed`; timer, watcher and cleanup goroutines | main loop of its connection; the application |
| Pool (`pool.go`) | map of relays, per-URL locks, penalty box, duplicate maps | `EnsureRelay`, `SubscribeMany`, `FetchMany`, `FetchManyReplaceable`, `PublishMany`, `CountMany`, batched variants | subscriptions and publishes on many relays |
| Event stores (`eventstore/`) | a sorted slice, or index keys in bolt, badger or pebble | `SaveEvent`, `ReplaceEvent`, `DeleteEvent`, `QueryEvents`, `CountEvents` | relay, SDK |
| Expiration and deletion (`relay/expiration.go`, `deleting.go`) | heap of deadlines | scan, track, remove; deletion requests | store |
| Negentropy (`nip77`) | sessions, ranges | reconcile | client and relay |
| SDK (`sdk/`) | loaders, caches, hints | batched loads, feeds, lists | pool, stores |
| Signers, wallet, groups (`nip46`, `nip60`, `nip29`) | pending requests, tokens, group state | request and answer, swap, moderation actions | pool, mint |
| Codecs, cryptography, helpers | none | pure functions | everything |

What is hard here, and what correctness means:

* **Relay server.** Messages of one connection run in parallel; broadcasts read
  the indexes without the mutex that writers hold. Correct: the indexes say what
  the open filters say, listeners belong to connections that are there and leave
  with them, an event goes once to everyone who asked for it and to nobody else,
  and every message is answered.
* **Subscription.** A main loop, one goroutine per event, a timer, a watcher and
  a cleanup share four flags, a WaitGroup and three channels. Correct: EOSE comes
  once, after the stored events, and ends of all kinds leave nothing behind.
* **Publish.** Callbacks for one event id are chained and called by the main loop
  or by a caller that timed out. Correct: no callback runs twice (it would stop
  the connection), nil means accepted, nobody waits forever.
* **Auth.** Several callers, one AUTH per challenge.
* **Connection.** A dial, a closer, a reader, a main loop and every caller wait for
  each other over channels. Correct: whoever closes, fails or falls silent first,
  nobody waits for ever.
* **Pool.** A goroutine per URL and call; duplicate maps, wait groups and an output
  channel shared by them; connections shared by all calls. Correct: one connection to
  a URL, an event once, none lost that a relay sent, EOSE after that of every relay,
  calls that end.
* **Stores and the relay's use of them.** Writers of the slice store hold a mutex
  and its readers do not; the persistent stores choose among plans over index keys
  and merge several walks; transactions overlap and pebbledb2 commits groups;
  handlers, deletion requests and the expiration manager change one store. Correct:
  queries and counts are what the filter says, indexes and counters are those of the
  events, one version of a replaceable event and the newest one, events that leave
  the store for a reason and leave it when their time has come.
* **Paginator, negentropy, loaders, SDK fetches.** Pages, ranges, batches and caches
  that overlap. Correct: everything once, both sides alike at the end, an answer for
  every caller, nothing older than what was known.
* **Groups, wallet, remote signing.** Events that come late, twice and out of order,
  among them the echoes of one's own. Correct: the mirror has what the group has, no
  money is lost and the history explains the balance, an RPC gets its own answer.

`hazards` in `PROJECT.json` has the lines where each of them bites.

## 2. Modules

| Module | Models | State and actions |
|---|---|---|
| `Dispatcher` | `relay/listener.go`: `addSubscription`, `removeSubscription`, `candidates` | `serial`, `subscriptions`, `byAuthor`, `byKind`, `fallback`; `AddSubscription`, `RemoveSubscription`; `Yields` is one turn of the three loops of `candidates` |
| `RelayServer` | `relay/handlers.go`, `responding.go`, `adding.go`, `listener.go` | adds connections, client specs, the holder of `clientsMutex`, a goroutine per REQ and per EVENT, the database and what was written; extends `Dispatcher` |
| `Subscription` | `subscription.go`, `PrepareSubscription` and the subscription cases of `handleMessage` in `relay.go` | one variable per field, channel or goroutine |
| `Publish` | `publish`, `WriteWithError`, the OK case of `handleMessage` | `okCallbacks`, each call's program counter, the callback it put aside (`previous`) and its channel (`gotOk`) |
| `ClientAuth` | `Auth`, the AUTH case of `handleMessage` | the challenge, `performAuth` with the flag and mutex of a `sync.Once`, `authed` |
| `EventData` | `kinds.go`, `filter.go`, `tags.go`, `utils.go`: kinds, filters, which of two versions is older, `GetTheoreticalLimit` | operators only |
| `EventStore` | `eventstore/store.go`: what the interface promises | `stored`; `SaveEvent`, `DeleteEvent`, `ReplaceEvent` |
| `SliceStore` | `eventstore/slicestore/lib.go` | the backing array, `len`, what the holder of the mutex is about to do, one reader and what it copies; the steps of `save`, `delete`, `ReplaceEvent`, `QueryEvents`, `CountEvents`; implements `EventStore` |
| `RelayStorage` | `relay/adding.go`, `deleting.go`, `expiration.go`, the deletion case of `handlers.go` | handlers of EVENTs, the heap and the goroutine of the expiration manager; extends `EventStore` |
| `KVIndex` | the key layouts and query planners of bolt, badger, pebble and pebbledb2 | operators: the prefixes of an event, the scans of a filter and what is left to be checked |
| `KVSearch` | `eventstore/searcher`, `pebbledb2/bloom.go` | operators: Horspool's search with its two ways to lower a letter, signatures of trigrams |
| `KVQuery` | `QueryEvents` and `CountEvents` of the four stores | what is stored, a filter and the walks of its plan; writes in between where the live database is read; a round of pulls and emissions of bolt and badger, a step of pebble's cursors, a batch of pebbledb2, the rollups of a count |
| `KVStore` | `SaveEvent`, `ReplaceEvent`, `DeleteEvent` of bolt, badger and pebble | raw events, index keys, sketches; a write is begun on a snapshot and committed, or fails, later |
| `PebblePipeline` | the write path of `pebbledb2/store.go` | callers, `writeCh`, the group, the batch with its ledger, the counters, `Close` |
| `RelayConnection` | `relay.go`: `Connect`, `Close`, the loops, `WriteWithError`, COUNT | one variable per goroutine, flag or queue |
| `Pool` | `pool.go`: `EnsureRelay`, `AddToPenaltyBox`, `startPenaltyBox` | the map of relays, the named locks, the penalty box and its sleeper |
| `PoolQueries` | `pool.go`: `subMany`, `subManyEose`, `FetchManyReplaceable`, `QuerySingle`, `PublishMany`, `CountMany`, the batched forms | a worker per URL with its subscription, the shared maps and channel |
| `Paginator` | `paginator.go` | what is left of the pages, the two caches over one array |
| `Negentropy` | `nip77/`, the NEG-* cases of `relay/handlers.go` | both vectors, the messages under way, the ids handed over, the relay's session |
| `Groups` | `nip29/` | the group, its published events and a mirror |
| `Wallet` | `nip60/`, `nip61/` | `Tokens` and the array behind it, pending deletions, the mutexes, one program counter per call, what mints and relays hold |
| `RemoteSigner` | `nip46/` | clients with their calls and response loop, relays, sessions of the signers |
| `Dataloader` | `sdk/dataloader`, `replaceable_loader.go`, `addressable_loader.go` | calls, batches with their timer, query and contexts |
| `SdkFetch` | `sdk/list.go`, `set.go`, `metadata.go` | calls, cache with its buffer, a store that may lose what is written, date of the last fetch |
| `MC*` | the instances for TLC | constants; where several components are checked in one run, a variable `part` says which of them runs, and the others rest in one initial state |
| `*Proofs` | theorems | no definitions of behaviour |

### Correspondence worth knowing

* *Dispatcher.* Lists of authors and kinds keep their order and repetitions:
  `removeSubscription` returns at the first author whose set has left the map,
  and `MissingAt` / `WalkReaches` / `WalkCompletes` say when that happens. An
  absent map key is the empty set, as the code deletes sets that become empty.
* *RelayServer.* A goroutine under `clientsMutex` changes `subscriptions` and the
  indexes in two steps, between which broadcasts look. `set.SliceSet` and the Go
  maps are read atomically; the data race on them is a hazard without a property.
  A broadcast looks the author's and kind's sets up once (`BroadcastStart`), walks
  a set as it was when its loop began, and loads every subscription when it visits
  it; one that is gone loads as the zero value. The kind set is read when the kind
  loop starts, which allows a little more than the pointer the code keeps. The
  query of a filter is one step that may send any part of what it found, because
  a query or a write may fail half-way. Hooks (`OnRequest`, `OnEvent`, the store)
  answer nondeterministically; `PreventBroadcast` is the constant `Prevented`. A
  CLOSE without a matching listener changes nothing and is not a step. Specs leave
  `clients` together with their subscription; the code writes the remaining slice
  back at the end, under the same mutex, which nobody can tell apart.
* *Subscription.* The main loop handles one message at a time, so `HandleEvent`,
  `LoadEosed` and `Spawn` are three steps of it between which the timer may run.
  `strict` is `sub.match`: it is `Filter.Matches` until EOSE and ignores
  timestamps afterwards. A send on the closed `Events` channel is the goroutine
  state `panic`.
* *Publish.* Registration, and the lookup and the call of a callback, happen under
  `okCallbacksMutex`; the replacement of the map when the connection is gone does
  not, and the model follows. A failed write is `ConnectionLost` followed by
  `WriteFails`, as the main loop closes the connection then. A call whose context
  ends while it waits for the write queue goes on waiting, as in the code.
* *ClientAuth.* What happens to the AUTH on its way is `Publish`; here it is
  accepted or fails. `sync.Once` is modelled by its published algorithm and marked
  external: load the flag, lock, look again, run, set the flag, unlock. Assigning
  a fresh `sync.Once` under a call is one step.
* *EventData.* An event is its id and its fields are constant functions of it. Of
  the tags a store can be asked for, "d" is kept. Ids are numbers because their
  order decides between two versions of one second.
* *SliceStore.* `append` followed by `copy` are two steps, and so are `copy` and the
  cut of a deletion: a reader, which takes a slice header and then reads cell by cell,
  sees what lies between. An event is many words, so the copy of a cell has two steps,
  the last of which takes each part (`Parts`: the id, the public key, the rest) from
  what the cell had at the first or has by now (`ReadNext`, `ReadHalf`); a `copy`
  moves cells one after the other, so a cell under it may show either neighbour
  (`Cell`). The array is not reallocated: the slice starts with a capacity of 5000,
  and `Capacity` stands for it. In the refinement mapping (`Contents`) a replacement
  takes effect when the new event is appended. `SliceStore` is checked with the
  assumption its interface makes, that regular events are saved and all others
  replaced, as `handleNormal` does.
* *RelayStorage.* The store is `EventStore`, so a handler's call of it is one step;
  one call in a behaviour may fail, or a query of a deletion request may. The heap
  is a multiset of deadlines. `em.mu` is held for the whole of
  `checkExpiredEvents`, deletions included, and handlers wait for it. The check of
  the manager's pointer and the call that follows are one step. `OnEvent` accepts
  or refuses; `OnEventSaved` and `OnEventDeleted` are the application's.

* *KVIndex, KVQuery.* A key is a prefix, a date and an event; bytes are not kept, but
  what they lose is: bolt cuts hex values to eight bytes, addresses lose the end of
  their "d", empty and long values are not indexed. The planners choose by the same
  goodness of tags, and a plan is the set of its scans with what the events found have
  to be checked for. A query of bolt and badger runs on a transaction, one of pebble
  on a snapshot, except when it is asked for ids. That, and all of pebbledb2, reads
  the live database: an iterator shows what was there when it was opened, a body or a
  counter what is there when it is read, and `Overlap` saves or deletes an event in
  between. `kvSeen` and `kvSteady` are history: what was stored at some time, and all
  the time. A count of pebbledb2 reads its counters and scans one after the other
  (`ScanCount`). The searcher lowers its pattern with `strings.ToLower` (`ToLower`,
  which may change the length) and the texts with a table of bytes (`Lower`), and
  keeps the length of the pattern as it was given: one that is too long ends the
  process (`kvPc = "panic"`), one that is lowered otherwise is not found.
  `SearchIsPlain` says which patterns are free of this. The batch sizes of the code
  are constants (`PullShare`, `FewResults`, `MinBatch`, `PrefetchSize`,
  `MaxScanKeys`), small enough for several rounds.
* *KVStore.* bolt's transactions are serial. badger is opened with `DetectConflicts`
  off and pebble reads before it commits a batch, so two writers may both start from
  the old state; a commit may fail as a whole.
* *PebblePipeline.* A caller holds the read side of the lock while it sends; the
  writer collects up to `WriteGroupMax` requests, decides each against the database
  and the ledger of the group, and commits once. Counters change in the same batch.
  `ppSpared` is history: the versions that were kept beside the one that replaced them
  (section 6).
* *RelayConnection.* A COUNT answered by the main loop is two steps, lookup and send.
  Ping failures, a broken socket, `Close` and a late dial may come between any two.
* *PoolQueries.* `Subscription` is used by its promises: events wait in goroutines,
  EOSE follows the stored ones, cancelling closes `Events`. `pqHist` is history for
  the properties. `spoiled` are ids whose first copy was forged or lost with its
  subscription.
* *Paginator.* Every event of a page has a goroutine of its own that hands it on
  (`subscription.go:94`), so a page is read in any order; `pgInOrder` is history, that
  none was out of order. A new event is written to the array that both caches share,
  where it may overwrite an id of the last page that was not compared yet.
* *Negentropy.* A move may lose events without a word: `Publish` errors are dropped
  (`nip77.go:167`) and a query that ends with a CLOSED looks complete
  (`relay.go:710`). `lost` is history; `NgMaxFaults` bounds how often. An item is a
  date and a short sequence of bytes, so that the shortest prefix that tells two items
  apart is computed as in `getMinimalBound`. The limit of a frame counts ranges and
  ids. A message that is full ends with the fingerprint of the rest, as in the code.
  Fingerprints do not collide.
* *Groups.* All of `moderation_actions.go` and the six `MergeIn...Event` functions; what
  does not parse is a value of its own. A pin is parsed from its tag and written to one
  (`PointerFromTag`, `AsTag`): a relay or an author that does not parse is passed over,
  and an author without a relay is not written. Addresses and keys are written as they
  were read, that is, in canonical form.
* *Wallet.* Tokens are found by their place in the slice, as the code does, and places
  shift when an echo removes a token. The choice, the quote and the reserving of a
  payment are steps of their own, with every request to a mint between them. A loop
  over `Tokens` ranges over the array as it was: `wlBehind` has the tokens that were
  cut off its end meanwhile. `SaveDeletes` locks and publishes once per place, and
  reads the token before it locks. A token that is in `Tokens` twice gives its notes
  twice, which the mint refuses. An index behind the end (`pay.go:99`, `:115`) sets
  `wlPanic`, and the program stops. A note that is to be minted knows what its quote
  was for and what is asked for it (`Overasked`). `DropToken`, which takes no lock,
  runs only while no other call does. A mint is an external set of spent and issued
  notes that checks sums, fees and repetitions; its answer may be lost.
* *RemoteSigner.* Every relay carries a copy of every request and response. The lookup
  of a listener and the send to its channel are two steps of the loop. `external`
  stands for another implementation of the signer, which may answer "auth_url" or an
  error first.
* *Dataloader.* A batcher is a record in a sequence, the last one being `curBatcher`. A
  closed channel without a value holds the empty result.
* *SdkFetch.* Every write to the store may fail and nobody hears of it (`list.go:76`,
  `:97`, `:124`, `set.go`, `metadata.go`); the `NullStore` of a new system
  (`system.go:214`) is the case in which all do. `sfLost` is history: the versions
  that were lost so. The cache commits later than `Set` returns, or drops the value,
  as ristretto does (external). A `Load` gives nothing or any version a relay may
  have.

## 3. Runs

| Run | Instance | Shows |
|---|---|---|
| `relay` | both ends of a REQ. Server: 2 connections, 3 filters, an ephemeral event, a `PreventBroadcast` hook. Client: an event inside and one outside the window, timer, one CLOSED | `DispatcherIsSequential` (refinement), `OnlyRequestedEvents` in all interleavings of REQ, CLOSE, disconnection and broadcast; `EoseAfterStored`, `LeavesNothing`, `EoseComes` |
| `relay_liveness` | 1 connection, 2 publications of one event, 2 filters | `EachEventOnce`; `ListenersRemoved`, `MessagesAnswered` under fairness |
| `client` | 2 calls of `publish` for one event with one OK too many; 3 calls of `Auth` and 2 challenges; 2 calls of `EnsureRelay` at a time for one URL, 2 connections, a failed dial, a manual penalty | `CallbackNeverBlocks`, `EveryOkAnswers`, `AuthOnce`, `OneConnection`, `CallsReturn` |
| `pool_queries` | 2 relays that hold the same events, one of them with a forged copy; 7 operations, 1 fault, 2 attempts | `DeliveredOnce`, `FetchComplete`, `EoseWhenAll`, `PoolCallsEnd` |
| `slice_store` | 5 events: a note, two profiles of one second, two addressable events with an empty and without a "d" tag; 8 filters; one reader | `ImplementsEventStore` (refinement), `NewestWins`, `ReadsAreSound` |
| `relay_storage` | 6 events of which 3 expire, 4 in the store at the start; 3 handlers, two of them with deletion requests, one of which is stored already | `ExpiringIsTracked`, `OnlyByRight`, `ManagerKeepsUp` |
| `stores` | queries and counts of 19 filters over all sets of 5 events in 4 stores, with one write of 2 events under a query of the live database; 2 writers with 3 writes in 3 stores; 2 callers with 3 requests, a queue of one and groups of two in pebbledb2 | `QueryExact`, `CountExact`, `IndexesAgree`, `ReplacementsAreSafe`, `PipelineIsSafe`, `PipelineDrains` |
| `applications` | groups: all actions, 2 applied, 2 events merged, 3 choices of what a mirror follows; wallet: 2 mints of which one has a fee, 3 tokens, amounts of 3 and 12, 2 of 7 calls, 1 fault; signing: 1 client, 2 relays, 2 RPCs, 1 fault, 4 ways to connect | `SnapshotIsWhole`, `MirrorConverges`, `MoneyKept`, `HistoryExplains`, `ReservedIsReleased`, `RpcsAreAnswered` |
| `network` | connection: 1 writer, 1 COUNT with its retry, queues of one; paginator: pages of 3 over any 6 events of one relay and some worlds of two, each page in any order; negentropy: 5 items, any two sides, 3 modes, a frame that overflows, one fault; loader: 2 calls, batches of two, 2 relays; fetches: 2 calls, 3 versions, 3 styles, any write lost | `NobodyStuck`, `WalksOneRelay`, `SyncConverges`, `LoadsAreAnswered`, `FetchKeepsNewest` |
| `subscription_panic` | 2 events | *violation* of `NoSendOnClosed` |
| `negentropy_upload` | 2 items, upload only, no faults | *violation* of `UploadEnds` |
| `pebble_count` | the counts of `stores` in pebbledb2 | *violation* of `CountIsExact` |

Deadlock is not an error in any of them: every component stops when its messages
are used up, its connection is gone or its calls have returned. What that could hide
is checked as a property: `MessagesAnswered`, `CallsReturn`, `PoolCallsEnd`,
`PipelineDrains`, `ManagerKeepsUp` and `NobodyStuck`.

Properties that are conjunctions, with the named parts their modules comment on:
`EachEventOnce` (not missed, not sent twice), `QueryExact` (sound and complete),
`ReplacementsAreSafe`, `PipelineIsSafe` (counters, one version, no send after close),
`RpcsAreAnswered` (served once, own answer, answered at rest), `SyncConverges`,
`LoadsAreAnswered`. Several carry a condition where the code does not do more; the
condition is in the comment and the case it excludes in section 6.

**Bounds.** Named in the modules, as "bound" where they cut behaviour off:
`MaxSerial` (listeners over the life of the relay), `MaxClosed` (CLOSED messages),
`MaxExtra` (OKs that answer nothing), `MaxChallenge`, `Capacity` and `MaxRaces`
(writer's steps that overlap one query: enough for a whole replacement), `MaxNow`,
`MaxConns`, `MaxManual`, `MaxFailures`, `MaxTries`, `MaxFaults`, `MaxWrites`,
`MaxRequests`, `MaxAnswers`, `MaxModerations`, `MaxMerges`, `MaxReserve`, `MaxCalls`,
`WMaxFaults`, `MaxRpcs`, `RsMaxFaults`, `NgMaxFaults`, `MaxOverlaps`, `MaxContextsEnd`, `SfMaxNow`.
`MaxRounds` only stops a counter: the sync goes on. Sizes of the code that are made
small so that they are reached: `QueueMax`, `PingMax`, `QueueSize`, `WriteGroupMax`,
`PageSize`, `Buckets`, `FrameLimit`, `SyncBatch`, `RingSize`, `BatchCap`,
`HourLength`, `DayLength` and the batch sizes of `KVQuery`.

Two or three of each are enough for the races in the code, which are between two
goroutines over one piece of state: two listeners that share an index entry, an
addition and a removal around a broadcast, a timer and an EOSE, two calls on one id,
a call inside the Once and one outside, two replacements over one snapshot, a payment
and an echo, a timer and the load that fills the batch. Queries depend on how many
batches a walk takes, hence five events with batches of one or two. What is proved
(section 5) does not depend on any bound.

## 4. Fairness

* `RelaySpec`: a goroutine that can run does (weak fairness). Acquiring
  `clientsMutex` is strongly fair: it is a channel of capacity one, which serves
  its waiters in order. Messages, disconnections and CLOSEs are not fair.
* `SubscriptionFairness`: weak fairness for the library's goroutines and for time;
  strong fairness for the cleanup, whose write competes with incoming messages in
  a `select` that chooses at random. Nothing is assumed of the relay, nor of the
  application, which may stop reading any channel.
* `Publish!Spec`: time passes for every call, because `publish` adds a deadline
  of seven seconds when the context has none; calls that keep asking for the main
  loop or the mutex are served. The relay owes no OK.
* `ClientAuth!Spec`: `publish` returns (`PublishReturns`), and Go's mutexes do not
  starve a waiter.
* `RelayStorage!Spec`: the ticker ticks and its goroutine runs, time passes, and a
  handler that keeps asking for `em.mu` gets it, since Go's mutexes do not starve a
  waiter. A failure, a refusal and `DisableExpirationManager` are not fair.

* `PoolQueriesFairness`: the goroutines of a call and of its subscriptions run, a timer
  that was set fires. Relays owe nothing, and nobody has to cancel a context.
* `PipelineFairness`: the writer, `Close` once called, and every caller go on. A commit
  may fail every time.
* `NegentropyFairness`, in `negentropy_upload` only: both ends and the readers of ids go
  on. The violation is a loop under it, not a standstill.

## 5. Proofs

All constants are arbitrary; the assumptions are the named `ASSUME`s (types of
filters, events and messages, model values that differ) plus `DistinctFilters`
where it is written. Those that were added for a proof say what the code's types
say: the relays of a call are a list (`PoolQueries!UrlsAssumption`), the fields of a filter
are finite lists and integers (`SliceStore!FilterAssumption`), there are
finitely many publications (`RelayStorage!StorageAssumption`), the "d" of an event
is among its tags (`KVIndex!TagAssumption`), and dates are integers
(`Dataloader!LoaderAssumption`, `SdkFetch!FetchAssumption`), and a request of an application has one of the signers'
methods, without an argument where the method has no parameters
(`RemoteSigner!RequestsAssumption`), and a wallet's calls are those of the API and the
tokens it is loaded from are a list with positive amounts, and what their events delete is
in it (`Wallet!WalletAssumption`).

* **`DispatcherProofs`.** `DispatcherIndexExact`: `IndexInv`, the type invariant
  with `IndexExact`, is inductive if no filter repeats an author or a kind: then
  every early return of `removeSubscription` comes too late to skip anything, as
  the sets of an open listener contain it. `DispatcherCandidatesExact` follows
  from exactness, loop by loop. Without `DistinctFilters` both are false
  (section 6).
* **`RelayServerProofs`.** `OwnershipInv` is the conjunction of the types,
  `ConnInv` (which connections are in the map), `LockInv` (what the holder of the
  mutex has done so far), `Owned` (subscriptions have specs, except the one being
  added) and `Owns` (specs have subscriptions, except the one being removed).
  `OwnedWhenUnlocked` alone is not inductive because it says nothing while the
  mutex is held. From it: `RelayTypesHold`, `ListenersAreOwned`, and
  `RelayImplementsDispatcher`: with `Indexed`, which hides a subscription until it
  is indexed and keeps one until it is unindexed, `AddListenerIndex` is an
  `AddSubscription`, `RemoveUnindex` a `RemoveSubscription`, and all else
  stutters. `RelayIndexExact` carries the dispatcher's exactness over.
  `RelayOnlyRequested`: a broadcast walks a set as it was some time ago, so what has
  to be inductive (`BroadcastInv`) is about what is left of the walk: a listener that is
  still there belongs to the loop that is about to visit it (`TodoOk`) or that wrote to
  it (`WroteOk`), and it was asked for by a REQ (`RequestedInv`). Unlike exactness
  this needs no `DistinctFilters`, since `Placed` says nothing of listeners that left.
  `RelayDeliversOnce`: a REQ is followed from its query to its listener. In between,
  what is stored was sent or is excused (`WindowInv`); from then on there is a listener
  (`HasListener`) and what is stored was sent, is excused, or some broadcast has still
  to come to that listener (`DeliveryInv`, `Coming`). The other half, not sent twice, is
  that one loop only writes to a listener (`WroteOk`).
* **`ReaderProofs`.** What a client reads. Of a subscription, one inductive invariant: types, `FiredInv` (nothing
  arrives before the REQ is out), `WindowInv` (`strict` is dropped only after
  `eosed` is set), `OnceInv` (one EOSE, in the timer's hands or the goroutine's),
  `WaitGroupExact` by cardinality, `DropInv` (why an event is dropped) and
  `EoseInv` (when EOSE is out, the stored events are done unless the timer ran).
  It gives `SubscriptionTypes`, `WaitGroupCounts`, `EoseComesAfterStored`,
  `EoseIsOnce` and `StoredAreInWindow`.
  `LoaderAnswersLoads`: a call is in one batch from when it joins (`PlaceInv`), and only the
  last batch is open (`OpenInv`), whichever of the timer and the threshold comes first.
  What a batch has collected is at any time the newest of what came for each key
  (`ResultsInv`, by `KeepReplaceableIsNewest` and `KeepAddressableIsNewest`), so this holds of what
  the channels are sent (`AnswerInv`). A context that is not watched any more has
  ended (`ContextInv`), so the query is cancelled only for all.
  `FetchIsNewest`: a write that fails adds its version to `sfLost`, and what is claimed of
  the store is claimed of the versions that are not there; for a store that keeps nothing it
  says nothing, while what a call returns against what it found and fetched does not
  depend on the store. Versions are compared slot by slot (`AsNew`, an order). Replacing in the store and
  saving to it only make it newer (`ReplacedIsAsNew`, which needs that a Load returns one
  version for a slot), so what a call knows of the store (`CallOk`) and what the cache has or
  will commit (`CacheOk`) survive the steps of the other calls, whatever the mutex does.
* **`ClientProofs`.** The chain of callbacks: the one on top and every callback
  that some unfinished one will put back have not been called (`TopInv`,
  `PrevInv`, `TopFresh`), and no callback is put back by two (`Unique`). It gives
  `PublishTypes`, `PublishNeverBlocks`, and with the history of OKs
  `NilIsAccepted`. `PublishAnswersEveryOk` needs the converse, that nothing is cut off
  the chain: `Reachable` says it without recursion, as membership in every set of calls
  that has the callback on top and is closed under `previous` (`AllReachable`); OKs are
  then counted against answered calls (`OksCounted`).
  `AuthIsOnce`: one call is inside the Once, the holder of its mutex (`OneInside`), and
  the flag divides those before the AUTH from those behind it (`DoneDivides`).
  `PoolKeepsOneConnection`: `HoldsLock` says that a call between its lock and its unlock
  holds the mutex of its URL, so no two calls work on one URL (`OneHolder`), whatever
  hash selects the mutex and even if URLs share one. `LookInv`, `DialInv` and
  `StoreInv` say what a call knows at each step: it loaded the live connection if
  there is one, there is none when it dials, and what it stores is the only one.
  With `KnownInv`, a live connection is in the map or in such a call. `OneConnection`
  alone is not inductive: nothing in it stops a second dial. `ManualMark` and
  `CleanerDeletes` write the map without the mutex; they keep the invariant because
  the URL then counts as raced (`TakesNotes`).
  The operations over many relays (`PoolQueries`) have some forty actions; they are
  first shown to be one of twelve (`WorkerMoves`, `QueryMoves`: an event arrives, is
  taken, handed over, delivered, ...), and each invariant is proved over the twelve.
  `PoolDeliversOnce`: of a claimed event there is one copy, with one goroutine or with the
  consumer (`OnceInv`). `PoolEoseIsOfAll`: the wait group is the number of relays that
  have not told EOSE (`EoseInv`). `PoolFetchesAll`: what a relay sent is claimed, and
  what is claimed is on its way, delivered, or spoiled (`FetchInv`, `NoneLost`).
* **`ApplicationProofs`.** Remote signing and the wallet.
  `SignerAnswersRpcs`: clients meet only in the signer's lock and threads, so the invariant
  is one conversation per client (`Talk`), stated of values and not of variables: a
  lemma per kind of step (a call begins, an answer is read, a request is served, ...)
  keeps it, and one more lemma says that all other conversations stay. In a conversation a
  request that a relay has taken is in hands or served (`PublishOk`); a served one of a pending call has its
  answer in the inbox or in the loop (`ServedOk`), which follows from the listener that RPC
  stores before any relay has the request (`LoopOk`). The ring has the last `RingSize` ids at
  their numbers modulo `RingSize` (`RingOk`), so an id that is not in it was not served lately,
  and one that is was served and may be dropped. The hypothesis is `HandlerThreads = 1`:
  between a lookup in the ring and the entry of the id a second goroutine of a
  `StaticKeySigner` could do the same.
  `WalletReleasesTokens` and `WalletKeepsMoney` follow from one inductive invariant,
  `WalletInv`. A call remembers the tokens it chose by their places in `Tokens`, and holds
  `tokensMu` from the choice to the history entry (`LockInv`), but the echoes of deletions
  take tokens away under it, and a loop goes on in the array behind the new end (`Arr`).
  `TypesInv` ties numbers to notes: a note has a number of its own, which is the id of its
  token, and a deletion names a token that was published. `SafeInv` is the argument: a place
  that a call counts on (`PlacesIn`) leads to the token that was chosen there, or past the
  end, or the notes in hand are spent already and the mint will refuse them; what a call has
  yet to delete is spent, and nobody else deletes it; what a deletion names is spent
  (`DoomedAreSpent`). `ReservedInv`: a reserved token is spent, or the payment at
  its melt has its place, or that payment will find a place past the end and end the
  program. `MoneyInv`: every note is spent, given, kept in an event, in the hands of a call
  (`Held`, which is less than the property allows: notes that were chosen but not yet
  swapped do not count as held), or asked beyond its quote in a swap by lightning. Neither
  property is inductive alone, since it says nothing of places. Both theorems exclude
  `DropToken`, with which both properties are false in longer behaviours (section 6,
  *Wallet*); `WalletKeepsMoney` also takes `AcceptSource`, without which `Receive` gives up
  what no target mint takes over (`receive.go:112`).
* **`SliceStoreProofs`.** `SortedWhenFree` is not inductive: a writer leaves the slice
  out of order between its steps. `OrderInv` says what each step finds: after the
  append all but the last cell is sorted and the place of the event is known, after
  the copy all but the last cell is. `PendingInv` remembers that a replacement
  deleted the only older version, which follows from the third part, one version
  of every event in `Contents`. The three are inductive together and give
  `SliceIsSorted`, `SliceImplementsStore` and `SliceKeepsOneVersion`. The abstract
  step of each concrete one is in `RefineStep`. `SliceNewestWins`: every version that
  was offered is in the store, lost to one that is, or is the one that the writer has in
  hand (`WinInv`). `SliceReadsAreSound`: every part of what a reader
  copies is of an event that was stored while it ran, the leftovers behind the slice too
  (`RaceInv`), and the filter was asked of the copy itself; of a reader that nobody disturbs
  `QuietInv` says that its copies are whole and are what is wanted in front of its next cell,
  in order, which leaves out the second of `since`.
  Where it starts and ends is `SearchTime`, whose CHOOSE is a least place (`HasLeast`).
* **`RelayStorageProofs`.** The types; what the program counters know (a target in
  hand was found by a tag and has the author of the request; an entry in the hands
  of the manager was due); and that the heap holds no event without an expiration.
  It gives `StorageTypes` and `EventsLeaveByRight`. `StorageTracksExpiring` needs that an
  event which is published once does not come back after it was removed (`OnceInv`).

* **`KVStoreProofs`.** `StoresKeepIndexes`: `IndexesAgree` is inductive as it stands,
  because a key that is deleted names the event it belongs to. For replacements in
  pebble, `TxnIsSafe` says of a writer between its snapshot and its commit that what it
  will delete was asked for or is superseded by an event committed before or with it;
  later commits of others only add to those. With it `NewestSurvives` is inductive
  (`PebbleReplacementsAreSafe`, for `WriteBackends = {"pebble"}`). bolt and badger find
  versions by index prefixes, which are cut; they stay with TLC, on values whose cuts
  do not collide.
  `PipelineKeepsSafe`: for pebbledb2 the batch under construction is the state that
  counts. `PipelineInv` says what is true of it while a group is being decided: its keys
  and counters are exact for the events it leaves (`BatchIsExact`), one version of each is
  left (`OneIn`), and the ledger of a key knows the newest version and everything it
  replaced (`LedgersInv`). The step that matters is a version that wins against the
  ledger: it is then neither in the database nor in the batch (`WinnerIsNew`), so nothing
  is counted twice. That a set of versions has a newest one is a least counterexample
  over Nat (`HasNewest`, by `WFMin`). `RequestsInv` follows a request from its caller
  through the channel and the group to its answer, which shows that nobody sends after
  the channel is closed.

Twenty-four of the theorems state a property that a run checks on its instance
(`DispatcherIsSequential`, `OnlyRequestedEvents`, `EachEventOnce`, `EoseAfterStored`,
`CallbackNeverBlocks`, `EveryOkAnswers`, `AuthOnce`, `OneConnection`, `DeliveredOnce`,
`EoseWhenAll`, `FetchComplete`, `LoadsAreAnswered`, `RpcsAreAnswered`,
`ReservedIsReleased`, `MoneyKept`,
`FetchKeepsNewest`, `ImplementsEventStore`, `NewestWins`, `ReadsAreSound`,
`OnlyByRight`, `ExpiringIsTracked`, `IndexesAgree`, `ReplacementsAreSafe` for pebble,
`PipelineIsSafe`); the others are invariants and types that no run repeats, since
they hold for every instance.

Only model-checked:

* everything temporal under fairness, and `NobodyStuck`, which says ENABLED: both are out
  of the prover's reach;
* what queries, counts and searches of the persistent stores compute (`QueryExact`,
  `CountExact`): they are recursive functions and folds over scans, and a proof needs
  induction over data;
* `SyncConverges` and `WalksOneRelay`, for the same reason: an answer of a negentropy
  round is computed range by range, a page of the paginator event by event;
* `ReplacementsAreSafe` of bolt and badger, see above;
* `SnapshotIsWhole` and `MirrorConverges`: what a mirror of a group shows is a fold over
  the tags of events, which needs induction over data;
* `HistoryExplains` of the wallet: a balance is a sum over a set of notes, a fold of the
  community modules, whose theorems take the summand as an operator parameter.

## 6. Disagreements between code and comments

Shown by a run:

* `subscription_panic`: a lock is taken around `close(sub.Events)` so that nobody
  sends to it afterwards; `dispatchEvent` does not take it.
* `negentropy_upload`: without a target the sync is to be "upload-only"; the client
  then answers a list of ids as a server does, the relay answers again, and the two
  exchange their lists for ever.
* `pebble_count`: "CountEvents returns the exact NIP-45 count" (`pebbledb2/query.go:93`); the
  map that skips a repeated kind is shared by the first and the last partial hour of a day
  (`:333`), so a kind counted in the first is left out of the last. `CountExact`, which
  `stores` checks, excludes these ranges.

Stated by a definition of a module that no run checks, because TLC finds it violated:

* `Dispatcher!EmptyWhenClosed`: after every subscription was removed the fuzz test
  (`relay/dispatcher_test.go:120`) requires no candidates; with an author listed twice
  `removeSubscription` (`relay/listener.go:103`) returns early and its number stays in
  `byKind` for good.
* `RelayServer!RejectedReqHasNoListener`: "fail everything if any filter is rejected"
  (`relay/handlers.go:289`), but the listeners of the filters before it stay and keep
  sending under the closed id.
* `ClientAuth!AuthNilMeansAccepted`: after a failed AUTH, the next `Auth` finds the Once
  done and returns nil (`relay.go:512`).
* `SliceStore!QueryReturnsMatching`: "QueryEvents returns events that match the filter"
  (`eventstore/store.go:19`); those of the second of `since` match and are left out.
* `KVQuery!SignaturesNeverHide`: a signature "never returns false for content that actually
  contains the pattern" (`pebbledb2/bloom.go:119`); the trigrams of a pattern are of bytes
  that `strings.ToLower` may change in another way than the table of the contents.
* `PebblePipeline!EveryPriorVersionRemoved`: without the ledger the replacements of one
  group "would all see an empty DB and all survive" (`pebbledb2/store.go:527`), and of
  a replacement it is said that it "caused every prior version to be removed" (`:635`). A deletion that
  finds nothing marks its id all the same (`:740`); a version with that id that is written
  later in the group is then passed over by the newer one that replaces it (`:642`), and
  both stay. It takes three requests in one group. `PipelineIsSafe` excludes these versions.
* `Pool!NotDuplicated`: relays are "not duplicated" (`pool.go:22`); `AddToPenaltyBox` and
  the goroutine of an earlier connection remove an entry without the URL's lock, and
  the next `EnsureRelay` dials again beside the live connection.
* `PoolQueries!NewestReturned`: `FetchManyReplaceable` "returns only the latest"
  (`pool.go:330`); the comparison and the store (`:417`) are two steps, and an older
  version may be stored last.
* `Wallet!NewestMetadata`, `Wallet!DropsOnlyTheToken`: "if this metadata is newer than
  what we had, update" (`nip60/wallet.go:175`), but it was taken over a few lines above
  whatever its date, and a token that is dropped by its place while
  another call moves tokens may be another one (`nip60/drop.go:9`).
* `SdkFetch!FetchesOnce`: "if we do the same exact call that will do it only once"
  (`sdk/list.go:39`), but the mutex is given back before the fetch.
* `SdkFetch!RefreshNeverPanics`: a refresh of sets that finds nothing dereferences nil
  (`sdk/set.go:65`), although "we still have the previous event in our local store"
  (`:71`).

Stated in the same way, but of what a caller would expect and no comment promises:

* `SliceStore!YieldsEvents`: what a query without the lock yields is an event, and not made
  of the parts of two.
* `KVQuery!SearchNeverFails`: the searcher takes the length of the pattern before it is
  lowered (`searcher.go:25`) and indexes with it (`:35`).
* `Paginator!NothingTwice`, `Paginator!WalkIsWhole`: with a page that is read out of order an
  event comes twice, or `Until` is taken from a newer event and the walk ends early
  (`paginator.go:51`).
* `Negentropy!SyncIsWhole`: a sync that returns nil has lost nothing.
* `SdkFetch!StoreKeepsUp`: what is returned is in the store, or something newer.
* `Wallet!SwapsKeepMoney`: a swap by lightning out of a mint with fees quotes the amount
  less the fee (`lightning-swap.go:43`) and asks for the amount (`:99`): the target has been paid
  and signs nothing.
* `Wallet!PaymentsNeverPanic`: the places a payment reserves, or releases, are still in
  `Tokens` (`pay.go:99`, `:115`, `:121`, `:131`, `:138`).

Also met while modelling, and visible in the same models.

*Relay and client.* A CLOSE that gets the mutex between two filters of its REQ leaves
the later ones open; the count `notifyListeners` returns includes listeners that left
since the lookup, so an ephemeral event nobody received may be answered with OK true; a
context that ends between `PrepareSubscription` and `Fire` leaves the REQ open at the
relay without a CLOSE; a call of `publish` that times out answers the callback on top of
the chain, which may belong to a call that still has time; a challenge that comes during
an AUTH replaces the locked Once, whose unlock is then fatal, and one that comes after a
success is not answered. A second answer to a COUNT stops the main loop or panics
(`relay.go:432`). An invalid copy of an event marks its id as seen and hides the valid
ones (`relay.go:348`). In the pool, a CLOSED makes `ClosedReason` and the closed `Events`
ready together, and the AUTH that a reason asks for may be passed over (`pool.go:572`);
an entry may leave the penalty box early (`pool.go:102`); `CountMany` merges registers of
several relays without a lock (`pool.go:757`). The paginator with several relays may skip
events or repeat them, in whatever order they come.

*Stores.* `QueryEvents` and `CountEvents` of the slice store read without the lock and may skip
or repeat events. An addressable event without a "d" tag is never found again by
`ReplaceEvent`, so its versions pile up, and it replaces one whose tag is empty. The
comment of `GetTheoreticalLimit` says that the filter's limit is ignored; the code
returns it when there is no other, and forgets it when ids or addresses are named. bolt,
badger and pebble count an event as often as their scans meet it, take a shortened tag
value for another, check at most two tag names, and look only at the ids of a filter that
has some. Replacements that overlap in badger or pebble may leave two versions.
`CountEventsHLL` of bolt does not advance past an event that it counts
(`boltdb/count.go:142`).

*Expiration and deletion.* A deletion request is said to answer "blocked: " whenever it
fails, which an "e" tag that is no id and an error of the store do not; one that is
published again is carried out again; an "a" tag for a replaceable event that is not
addressable matches only one with an empty "d" tag. An older version that the store
refused is tracked and broadcast like one it kept. The scan that is to "query all events"
stops at the relay's query limit, and what it misses expires only if it is published
again. The event is looked up for `OnEventDeleted` after it was deleted, so the callback
is not called for events that expire. An expiry that fails is not tried again.
`removeEvent` may take the entry of an event that was published again while it was being
deleted, which then does not expire.

*Negentropy.* `nip77/envelopes.go` writes "NEG-ERROR" and reads "NEG-ERR"; NEG-OPEN is
answered before its session is stored (`relay/handlers.go:360`), so a quick NEG-MSG finds
none; on an error the channels of ids are not closed.

*SDK.* The keys of a batch are "guaranteed to be unique" (`dataloader.go:14`) and are not;
two first fetches of a list may leave two versions in the store, since `SaveEvent` looks
for none; a profile is cached before it is compared with the stored one; the outbox
relays that are cached for two minutes ignore the number asked for.

*Groups.* A demotion is not dated as a change of the admins; dates are not compared when
actions are applied; `DeleteGroup` keeps parent, children, kinds, roles and codes; a
mirror never forgets members, roles or flags, and repeats children and roles; the author
of a pinned event that has no relay is not published (`pointers.go:103`).

*Wallet.* The loader takes `tokensMu` under the wallet's mutex and `saveChange...` the
mutex under `tokensMu`: the two may block each other (`wallet.go:189`, `send.go:110`).
`Close` does not wait. A send without change leaves spent tokens in place; a change
token names nothing it replaces; `Receive` may append a token whose echo came first, and
gives up after a swap that succeeded; a payment gives back by stale places; pending
deletions race with the loading of what they delete. `DropToken` takes no lock: a token that
is received, dropped, appended again by its own late echo and then chosen by a send
loses its place to another token when the echo of the drop's deletion comes, and the send deletes
that one unspent. This needs four calls, more than the two of the run, in which `MoneyKept` holds.
In the same way, with a payment in the place of the send, a token that was reserved by mistake
is deleted and another is left marked, against `ReservedIsReleased`: three calls.

*Remote signing.* The channel of a caller has no room: one that gives up between
the loop's lookup and its send leaves the loop blocked for ever (`client.go:179`); `SwitchRelays` always returns nil; an empty result is answered without
an id and an unknown method not at all, so the caller waits for its context;
`StaticKeySigner` parses requests without a lock.

## 7. Plan

Done: every component with state of its own except the ones below. Next:

1. Proofs: sums over finite sets as recursive functions, for `HistoryExplains`.
2. AUTH with its list of keys and COUNT in the relay's handler, and
   `ForceBroadcastEvent`.
3. Hints, outbox cache and feeds of the SDK.
4. `Pool.Close`, pebbledb2's rebuilding of indexes.

Not modelled: JSON and binary codecs, cryptography, bech32 and URL handling, the parsing
of notes (`sdk/note.go`), HTTP (NIP-05, NIP-11, NIP-86, Blossom, GRASP) and command-line
tools: byte-level or I/O code without state of its own that a model checker could
explore. Hint scores are floating-point numbers.
