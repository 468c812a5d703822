------------------------------- MODULE KVQuery -------------------------------
(***************************************************************************)
(* QueryEvents and CountEvents of the persistent stores.  A query walks    *)
(* one index prefix per scan of its plan and merges the walks: bolt and    *)
(* badger pull batches and emit what is not older than a threshold, pebble *)
(* takes the newest head, pebbledb2 pops a heap, loads bodies by batches   *)
(* and stops at a budget of keys.                                          *)
(*                                                                         *)
(* bolt, badger and pebble read from a transaction or a snapshot.          *)
(* pebbledb2, and pebble when it is asked for ids, read the live database: *)
(* each iterator shows what was there when it was opened, each body and    *)
(* each counter what is there when it is read.                             *)
(***************************************************************************)
EXTENDS KVIndex, KVSearch, SequencesExt

CONSTANTS
    Backends,       \* subset of {"bolt", "badger", "pebble", "pebble2"}
    QueryFilters,
    Snapshots,      \* the sets of events that may be stored when the request comes
    OverlapEvents,  \* the events that are saved or deleted while it runs
    MaxOverlaps,    \* bound: how often
    Content,        \* event -> its content
    CallerLimit,    \* maxLimit of the caller
    PullShare,      \* one in so many iterators is pulled in a round (12)
    FewResults,     \* below this product the batch is the limit (50)
    MinBatch,       \* the smallest batch otherwise (4)
    PrefetchSize,   \* bodies that pebbledb2 loads at once (32)
    MaxScanKeys,    \* the budget of keys of pebbledb2
    SearchShards,   \* pieces of a search of pebbledb2 (8)
    HourLength, DayLength   \* in units of time (3600, 86400)

ASSUME QueryAssumption ==
    /\ {CallerLimit, PullShare, FewResults, MinBatch, PrefetchSize, MaxScanKeys,
        SearchShards, HourLength, DayLength} \subseteq Nat \ {0}
    /\ DayLength % HourLength = 0 /\ MaxOverlaps \in Nat

VARIABLES
    kvBackend, kvStored, kvFilter,  \* the store, its events and the request
    kvPlan,     \* the plan of the query
    kvIts,      \* the walks, each with what it has left and holds
    kvPos,      \* the walk to be pulled next
    kvOut,      \* the events yielded
    kvCount,    \* the answer of CountEvents
    kvRun,      \* limit, batch size, keys scanned and the like
    kvPc,
    kvSeen,     \* history: the events that were stored at some time since the request came
    kvSteady,   \* history: those that were stored all the time
    kvOverlaps  \* history: the writes in between

kvHistory == <<kvSeen, kvSteady, kvOverlaps>>
kvqVars == <<kvBackend, kvStored, kvFilter, kvPlan, kvIts, kvPos, kvOut, kvCount, kvRun, kvPc, kvHistory>>

-----------------------------------------------------------------------------
(* Orders and walks *)

\* Nobody is before the first, one is before the second, and so on.
Sorted(S, Before(_, _)) ==
    [i \in 1..Cardinality(S) |-> CHOOSE x \in S : Cardinality({y \in S : Before(y, x)}) = i - 1]

\* Newest first; of one second the highest id.
CompareEventReverse(a, b) ==
    CreatedAt[a] > CreatedAt[b] \/ (CreatedAt[a] = CreatedAt[b] /\ a > b)

\* The keys of pebble hold the timestamp inverted, so its ids go upwards.
PebbleKeyOrder(a, b) ==
    CreatedAt[a] > CreatedAt[b] \/ (CreatedAt[a] = CreatedAt[b] /\ a < b)

InWindow(f, e) ==
    (f.since = 0 \/ CreatedAt[e] >= f.since) /\ (f.until = 0 \/ CreatedAt[e] <= f.until)

Under(p) == {e \in kvStored : p \in IndexKeys(kvBackend, e)}

Before(f, S) == {e \in S : f.until = 0 \/ CreatedAt[e] <= f.until}

Searched(f, e) == f.search = NotSet \/ SearcherContains(Content[e], f.search)

\* theoretical limit and caller's limit, whichever is smaller
QueryLimit(f) == LET t == GetTheoreticalLimit(f) IN IF t < CallerLimit THEN t ELSE CallerLimit

KVQueryInit ==
    /\ kvBackend \in Backends /\ kvStored \in Snapshots /\ kvFilter \in QueryFilters
    /\ kvPlan = Plan({}, NotSet, NotSet, NoTag, FALSE)
    /\ kvIts = <<>> /\ kvPos = 0 /\ kvOut = <<>> /\ kvCount = 0
    /\ kvRun = [limit |-> 0, batch |-> 0, round |-> 1, counting |-> FALSE, scanned |-> 0, last |-> 0,
                heap |-> <<>>, raw |-> <<>>, buf |-> <<>>, tasks |-> {}, pieces |-> {}, bodies |-> {},
                kept |-> {}, parts |-> <<>>, failed |-> FALSE]
    /\ kvPc = "start"
    /\ kvSeen = kvStored /\ kvSteady = kvStored /\ kvOverlaps = 0

Request == UNCHANGED <<kvBackend, kvStored, kvFilter, kvHistory>>

\* An event is saved or deleted while the live database is read.
Overlap ==
    /\ kvBackend = "pebble2" \/ (kvBackend = "pebble" /\ kvFilter.ids # NotSet)
    /\ kvPc \notin {"start", "done", "counted", "panic"} /\ kvOverlaps < MaxOverlaps
    /\ \E e \in OverlapEvents :
         kvStored' = IF e \in kvStored THEN kvStored \ {e} ELSE kvStored \cup {e}
    /\ kvSeen' = kvSeen \cup kvStored' /\ kvSteady' = kvSteady \cap kvStored'
    /\ kvOverlaps' = kvOverlaps + 1
    /\ UNCHANGED <<kvBackend, kvFilter, kvPlan, kvIts, kvPos, kvOut, kvCount, kvRun, kvPc>>

\* An index out of range, with the pattern or in one of the texts that are searched, ends the process.
SearcherFails(S) ==
    kvFilter.search # NotSet /\ (NewSearcherPanics(kvFilter.search) \/
                                 \E e \in S : ContainsPanics(Content[e], kvFilter.search))

Searching(S, step) ==
    IF ~SearcherFails(S) THEN step
    ELSE kvPc' = "panic" /\ Request /\ UNCHANGED <<kvPlan, kvIts, kvPos, kvOut, kvCount, kvRun>>

Finish(out) ==
    /\ kvOut' = out /\ kvPc' = "done"
    /\ Request /\ UNCHANGED <<kvPlan, kvIts, kvPos, kvCount, kvRun>>

-----------------------------------------------------------------------------
(* Queries by id *)

\* The ids as they are listed, whatever else the filter says.
ById(f) == SelectSeq(SetToSeq(f.ids), LAMBDA e : e \in kvStored)

BoltQueryByIds ==
    /\ kvBackend = "bolt" /\ kvPc = "start" /\ kvFilter.ids # NotSet
    /\ Finish(ById(kvFilter))

BadgerQueryByIds ==
    /\ kvBackend = "badger" /\ kvPc = "start" /\ kvFilter.ids # NotSet
    /\ Finish(ById(kvFilter))

\* pebble looks them up one after the other, without a snapshot.
PebbleQueryByIDs ==
    LET ids == SetToSeq(kvFilter.ids)
    IN  /\ kvBackend = "pebble" /\ kvFilter.ids # NotSet /\ kvPc \in {"start", "ids"}
        /\ kvOut' = IF kvPos < Len(ids) /\ ids[kvPos + 1] \in kvStored THEN Append(kvOut, ids[kvPos + 1]) ELSE kvOut
        /\ kvPos' = kvPos + 1
        /\ kvPc' = IF kvPos + 1 < Len(ids) THEN "ids" ELSE "done"
        /\ Request /\ UNCHANGED <<kvPlan, kvIts, kvCount, kvRun>>

\* newFilterRun: the theoretical limit is not used; a limit of zero is answered
\* before it with nothing.
Pebble2Limit(f) == IF f.limit = 0 \/ f.limit > CallerLimit THEN CallerLimit ELSE f.limit

Take(seq, n) == SubSeq(seq, 1, IF Len(seq) < n THEN Len(seq) ELSE n)

\* The start of a query or a count; a count has no limit.
Pebble2Starts(counting, run, pc) ==
    /\ kvBackend = "pebble2" /\ kvPc = "start" /\ (counting \/ ~kvFilter.limitZero)
    /\ Searching({}, /\ kvRun' = [run EXCEPT !.counting = counting,
                                            !.limit = IF counting THEN 0 ELSE Pebble2Limit(kvFilter)]
                     /\ kvPc' = pc
                     /\ Request /\ UNCHANGED <<kvPlan, kvIts, kvPos, kvOut, kvCount>>)

Counted(n, failed) ==
    /\ kvCount' = n /\ kvPc' = "counted" /\ kvRun' = [kvRun EXCEPT !.failed = failed]
    /\ Request /\ UNCHANGED <<kvPlan, kvIts, kvPos, kvOut>>

\* pebbledb2 looks the ids up in any order ...
Pebble2RunIDs(counting) ==
    /\ kvFilter.ids \notin {NotSet, {}}
    /\ Pebble2Starts(counting, [kvRun EXCEPT !.tasks = kvFilter.ids], "ids")

Pebble2LookUp ==
    /\ kvBackend = "pebble2" /\ kvPc = "ids"
    /\ \E e \in kvRun.tasks :
         kvRun' = [kvRun EXCEPT !.tasks = @ \ {e}, !.kept = IF e \in kvStored THEN @ \cup {e} ELSE @]
    /\ Request /\ UNCHANGED <<kvPlan, kvIts, kvPos, kvOut, kvCount, kvPc>>

\* ... and applies the whole filter, the order and the limit to what it has found.
Pebble2SortIDs ==
    LET matching == {e \in kvRun.kept : KVMatches(kvFilter, e)}
        found == {e \in matching : Searched(kvFilter, e)}
    IN  /\ kvBackend = "pebble2" /\ kvPc = "ids" /\ kvRun.tasks = {}
        /\ Searching(matching, IF kvRun.counting THEN Counted(Cardinality(found), FALSE)
                               ELSE Finish(Take(Sorted(found, CompareEventReverse), kvRun.limit)))

\* Queries that nobody asks anything of; bolt cannot search.
NothingAsked ==
    /\ kvPc = "start"
    /\ IF kvBackend = "pebble2" THEN kvFilter.limitZero
       ELSE /\ kvFilter.ids = NotSet
            /\ GetTheoreticalLimit(kvFilter) = 0 \/ (kvBackend = "bolt" /\ kvFilter.search # NotSet)
    /\ Finish(<<>>)

-----------------------------------------------------------------------------
(* bolt and badger: rounds over iterators *)

\* A guess between the bounds: a power of the limit over one of their number.
BatchSizePerNumberOfQueries(limit, n) ==
    IF n = 1 \/ limit * n < FewResults THEN {limit} ELSE MinBatch..limit

Iterator(f, p) ==
    [left |-> Sorted({e \in Under(p) : InWindow(f, e)}, CompareEventReverse),
     held |-> {}, last |-> 0, exhausted |-> FALSE]

\* The end of the prefix is seen when the batch asks for more than there is; if
\* it asks for exactly that, only when the walk is at the end of the bucket.
Pull(it, n, atEnd) ==
    LET taken == Take(it.left, n)
    IN  [left |-> SubSeq(it.left, Len(taken) + 1, Len(it.left)),
         held |-> it.held \cup ToSet(taken),
         last |-> IF taken = <<>> THEN it.last ELSE CreatedAt[Last(taken)],
         exhausted |-> Len(it.left) < n \/ (Len(it.left) = n /\ atEnd)]

\* badger sees the end of the prefix only when it is asked for more.
BadgerPull(it, n) == Pull(it, n, FALSE)

Ceil(n, share) == (n + share - 1) \div share

StartRounds(f, its, batch) ==
    /\ kvIts' = its
    /\ kvRun' = [kvRun EXCEPT !.limit = QueryLimit(f), !.batch = batch,
                              !.round = IF its = <<>> THEN 1 ELSE Ceil(Len(its), PullShare)]
    /\ kvPc' = IF its = <<>> THEN "done" ELSE IF SearcherFails({}) THEN "panic" ELSE "round"
    /\ Request /\ UNCHANGED <<kvPos, kvOut, kvCount>>

\* seek drops an iterator only if nothing at all is before its starting point in
\* the bucket, whatever prefix it has.
BoltPrepare ==
    /\ kvBackend = "bolt" /\ kvPc = "start" /\ kvFilter.ids = NotSet /\ kvFilter.search = NotSet
    /\ GetTheoreticalLimit(kvFilter) # 0
    /\ \E plan \in BoltPlans(kvFilter) :
         \E dropped \in SUBSET {p \in plan.scans : Before(kvFilter, Under(p)) = {}},
            batch \in BatchSizePerNumberOfQueries(QueryLimit(kvFilter), Cardinality(plan.scans)),
            atEnd \in BOOLEAN :
           /\ kvPlan' = plan
           /\ LET scans == SetToSeq(plan.scans \ dropped)
              IN  StartRounds(kvFilter,
                              [i \in DOMAIN scans |-> Pull(Iterator(kvFilter, scans[i]), batch, atEnd)],
                              batch)

BadgerPrepare ==
    /\ kvBackend = "badger" /\ kvPc = "start" /\ kvFilter.ids = NotSet
    /\ GetTheoreticalLimit(kvFilter) # 0
    /\ \E plan \in BadgerPlans(kvFilter) :
         \E batch \in BatchSizePerNumberOfQueries(QueryLimit(kvFilter), Cardinality(plan.scans)) :
           /\ kvPlan' = plan
           /\ LET scans == SetToSeq({p \in plan.scans : Before(kvFilter, Under(p)) # {}})
              IN  StartRounds(kvFilter,
                              [i \in DOMAIN scans |-> BadgerPull(Iterator(kvFilter, scans[i]), batch)],
                              batch)

BoltQuickselectOldest(its, k) ==
    IF k >= Len(its) THEN its ELSE SortSeq(its, LAMBDA a, b : a.last < b.last)

\* Few iterators are simply sorted; k is never more than there are.
BoltQuickselect(its, k) ==
    IF k >= Len(its) THEN its ELSE SortSeq(its, LAMBDA a, b : a.last > b.last)

BadgerQuickselect(its, k) ==
    IF k >= Len(its) THEN its ELSE SortSeq(its, LAMBDA a, b : a.last > b.last)

Smaller(a, b) == IF a < b THEN a ELSE b

Threshold(its, k) == CHOOSE t \in {its[i].last : i \in 1..k} : \A i \in 1..k : its[i].last <= t

\* What is not older than the threshold leaves its iterator, accepted or not.
Round(Quickselect(_, _)) ==
    LET k == Smaller(kvRun.round, Len(kvIts))
        its == Quickselect(kvIts, k)
        due(i) == {e \in its[i].held : CreatedAt[e] >= Threshold(its, k)}
        read(i) == {e \in due(i) : Accepts(kvPlan, kvFilter, e)}
        found == UNION {{<<e, i>> : e \in {x \in read(i) : Searched(kvFilter, x)}} : i \in DOMAIN its}
        results == Sorted(found, LAMBDA a, b : CompareEventReverse(a[1], b[1]) \/ (a[1] = b[1] /\ a[2] < b[2]))
        out == Take(kvOut \o [n \in DOMAIN results |-> results[n][1]], kvRun.limit)
    IN  Searching(UNION {read(i) : i \in DOMAIN its},
            /\ kvOut' = out
            /\ kvIts' = [i \in DOMAIN its |-> [its[i] EXCEPT !.held = @ \ due(i)]]
            /\ kvPos' = 1
            /\ kvPc' = IF Len(out) = kvRun.limit THEN "done" ELSE "pull"
            /\ Request /\ UNCHANGED <<kvPlan, kvCount, kvRun>>)

BoltRound ==
    /\ kvBackend = "bolt" /\ kvPc = "round"
    /\ Round(BoltQuickselect)

BadgerRound ==
    /\ kvBackend = "badger" /\ kvPc = "round"
    /\ Round(BadgerQuickselect)

SwapDelete(arr, i) == [j \in 1..(Len(arr) - 1) |-> IF j = i THEN Last(arr) ELSE arr[j]]

\* An empty, exhausted iterator is replaced by the last one, which is looked at
\* in its place; an exhausted one that still holds events waits.
PullRound(pull(_)) ==
    LET k == Smaller(kvRun.round, Len(kvIts))
    IN  /\ IF kvPos > k
           THEN kvIts' = kvIts /\ kvPos' = 0
           ELSE IF kvIts[kvPos].exhausted
           THEN IF kvIts[kvPos].held = {}
                THEN kvIts' = SwapDelete(kvIts, kvPos) /\ kvPos' = kvPos
                ELSE kvIts' = kvIts /\ kvPos' = kvPos + 1
           ELSE kvIts' = [kvIts EXCEPT ![kvPos] = pull(@)] /\ kvPos' = kvPos + 1
        /\ kvPc' = IF kvPos <= k THEN "pull" ELSE IF kvIts = <<>> THEN "done" ELSE "round"
        /\ Request /\ UNCHANGED <<kvPlan, kvOut, kvCount, kvRun>>

BoltPullRound ==
    /\ kvBackend = "bolt" /\ kvPc = "pull"
    /\ \E atEnd \in BOOLEAN : PullRound(LAMBDA it : Pull(it, kvRun.batch, atEnd))

BadgerPullRound ==
    /\ kvBackend = "badger" /\ kvPc = "pull"
    /\ PullRound(LAMBDA it : BadgerPull(it, kvRun.batch))

-----------------------------------------------------------------------------
(* pebble: the newest head of all iterators *)

PebblePrepare ==
    /\ kvBackend = "pebble" /\ kvPc = "start" /\ kvFilter.ids = NotSet
    /\ GetTheoreticalLimit(kvFilter) # 0
    /\ \E plan \in PebblePlans(kvFilter) :
         LET walk(p) == Sorted({e \in Under(p) : InWindow(kvFilter, e)}, PebbleKeyOrder)
             scans == SetToSeq({p \in plan.scans : walk(p) # <<>>})
         IN  Searching({}, /\ kvPlan' = plan
                           /\ kvIts' = [i \in DOMAIN scans |-> walk(scans[i])]
                           /\ kvPc' = IF scans = <<>> THEN "done" ELSE "merge"
                           /\ kvRun' = [kvRun EXCEPT !.limit = QueryLimit(kvFilter)]
                           /\ Request /\ UNCHANGED <<kvPos, kvOut, kvCount>>)

\* The first of the iterators whose head is newest is advanced, and removed if
\* it was its last; then the event is checked.
PebbleMerge ==
    LET ts(i) == CreatedAt[Head(kvIts[i])]
        best == CHOOSE i \in DOMAIN kvIts : \A j \in DOMAIN kvIts : ts(j) < ts(i) \/ (ts(j) = ts(i) /\ i <= j)
        e == Head(kvIts[best])
        its == IF Len(kvIts[best]) = 1 THEN SwapDelete(kvIts, best) ELSE [kvIts EXCEPT ![best] = Tail(@)]
        read == IF Accepts(kvPlan, kvFilter, e) THEN {e} ELSE {}
        out == IF e \in read /\ Searched(kvFilter, e) THEN Append(kvOut, e) ELSE kvOut
    IN  /\ kvBackend = "pebble" /\ kvPc = "merge"
        /\ Searching(read, /\ kvIts' = its /\ kvOut' = out
                           /\ kvPc' = IF its = <<>> \/ Len(out) = kvRun.limit THEN "done" ELSE "merge"
                           /\ Request /\ UNCHANGED <<kvPlan, kvPos, kvCount, kvRun>>)

-----------------------------------------------------------------------------
(* pebbledb2: a heap of sources, bodies loaded by batches, a budget of keys *)

ModeTime(f) ==
    f.ids \in {NotSet, {}} /\ f.authors = NotSet /\ f.kinds = NotSet /\ DOMAIN f.tags = {}

BySignature(f) == f.search # NotSet /\ ModeTime(f) /\ BuildSearchGrams(f.search) # {}

\* Counts that are answered from counters of hours, days, kinds and authors.
HourOf(t) == t \div HourLength
DayOf(t) == t \div DayLength
Later(a, b) == IF a > b THEN a ELSE b

\* math.MaxInt64 is in a day after all others.
EndOfTime == DayLength * (2 + Max({0} \cup {CreatedAt[e] : e \in Events}))

NarrowRange(since, until) == DayOf(since) = DayOf(until) /\ HourOf(until) < HourOf(since) + 2

Until(f) == IF f.until = 0 THEN EndOfTime ELSE f.until

UsesRollup(f) ==
    /\ f.search = NotSet /\ f.ids \in {NotSet, {}} /\ f.authors = NotSet /\ DOMAIN f.tags = {}
    /\ f.since > Until(f) \/ ~NarrowRange(f.since, Until(f))

UsesCounters(f) ==
    /\ f.search = NotSet /\ f.ids \in {NotSet, {}} /\ f.authors # NotSet /\ f.kinds # NotSet
    /\ DOMAIN f.tags = {} /\ f.since = 0 /\ f.until = 0

\* The signature that is found before the body is read: one that was written or deleted meanwhile
\* may be missing.
SignaturesOf(e) == {ContentBloom(Content[e])} \cup (IF e \in kvSteady THEN {} ELSE {NoBloom})

UsesCursor(f) == f.ids \in {NotSet, {}} /\ ~BySignature(f)

Pebble2OpenCursor(counting) ==
    /\ UsesCursor(kvFilter) /\ ~(counting /\ (UsesCounters(kvFilter) \/ UsesRollup(kvFilter)))
    /\ \E plan \in Pebble2Plans(kvFilter) :
         /\ kvBackend = "pebble2" /\ kvPc = "start" /\ (counting \/ ~kvFilter.limitZero)
         /\ Searching({}, /\ kvPlan' = plan
                          /\ kvRun' = [kvRun EXCEPT !.counting = counting, !.tasks = plan.scans,
                                                    !.limit = IF counting THEN 0 ELSE Pebble2Limit(kvFilter)]
                          /\ kvPc' = IF plan.scans = {} THEN "collect" ELSE "open"
                          /\ Request /\ UNCHANGED <<kvIts, kvPos, kvOut, kvCount>>)

Cursor == Request /\ UNCHANGED <<kvPlan, kvIts, kvPos>>

\* One iterator after the other is opened; the heap pops the newest of all, and an event that
\* several have as often.
Pebble2OpenSource ==
    /\ kvPc = "open"
    /\ \E p \in kvRun.tasks :
         /\ kvRun' = [kvRun EXCEPT
                !.tasks = @ \ {p},
                !.heap = SortSeq(@ \o Sorted({e \in Under(p) : InWindow(kvFilter, e)}, CompareEventReverse),
                                 CompareEventReverse)]
         /\ kvPc' = IF kvRun.tasks = {p} THEN "collect" ELSE "open"
    /\ Cursor /\ UNCHANGED <<kvOut, kvCount>>

Ends == IF kvRun.counting THEN "counted" ELSE "done"

\* A count that has nothing to check reads no bodies.
CountsKeys == kvRun.counting /\ ~kvPlan.post

\* Repetitions are adjacent, so the last one is enough to know them.  When the
\* budget is used up, what was collected is lost with it.
Pebble2Collect ==
    /\ kvPc = "collect" /\ kvRun.heap # <<>> /\ Len(kvRun.raw) < PrefetchSize
    /\ IF kvRun.scanned >= MaxScanKeys
       THEN kvPc' = Ends /\ kvRun' = [kvRun EXCEPT !.failed = TRUE] /\ UNCHANGED kvCount
       ELSE LET e == Head(kvRun.heap)
                fresh == e # kvRun.last
            IN  /\ kvRun' = [kvRun EXCEPT !.heap = Tail(@), !.scanned = @ + 1, !.last = e,
                                          !.raw = IF fresh /\ ~CountsKeys THEN Append(@, e) ELSE @]
                /\ kvCount' = IF fresh /\ CountsKeys THEN kvCount + 1 ELSE kvCount
                /\ kvPc' = kvPc
    /\ Cursor /\ UNCHANGED kvOut

\* The workers get a batch ...
Pebble2Dispatch ==
    /\ kvPc = "collect"
    /\ kvRun.heap = <<>> \/ Len(kvRun.raw) = PrefetchSize
    /\ kvRun' = [kvRun EXCEPT !.bodies = ToSet(kvRun.raw), !.kept = {}]
    /\ kvPc' = IF kvRun.raw = <<>> THEN Ends ELSE "load"
    /\ Cursor /\ UNCHANGED <<kvOut, kvCount>>

\* ... load its bodies in any order, those that are still there ...
Pebble2Load ==
    /\ kvPc = "load"
    /\ \E e \in kvRun.bodies : \E bloom \in SignaturesOf(e) :
         LET read == {x \in {e} \cap kvStored :
                        /\ kvFilter.search # NotSet => BloomMaybeContains(bloom, BuildSearchGrams(kvFilter.search))
                        /\ kvPlan.post => KVMatches(kvFilter, x)}
         IN  Searching(read,
                /\ kvRun' = [kvRun EXCEPT !.bodies = @ \ {e},
                                          !.kept = @ \cup {x \in read : Searched(kvFilter, x)}]
                /\ Cursor /\ UNCHANGED <<kvOut, kvCount, kvPc>>)

\* ... and what passes keeps its order.
Pebble2Gather ==
    /\ kvPc = "load" /\ kvRun.bodies = {}
    /\ LET buf == SelectSeq(kvRun.raw, LAMBDA e : e \in kvRun.kept)
       IN  /\ kvRun' = [kvRun EXCEPT !.raw = <<>>, !.buf = buf, !.kept = {}]
           /\ kvPc' = IF buf = <<>> THEN "collect" ELSE "serve"
    /\ Cursor /\ UNCHANGED <<kvOut, kvCount>>

Pebble2Serve ==
    /\ kvPc = "serve"
    /\ IF kvRun.limit > 0 /\ Len(kvOut) >= kvRun.limit
       THEN kvPc' = Ends /\ UNCHANGED <<kvRun, kvOut, kvCount>>
       ELSE /\ kvOut' = IF kvRun.counting THEN kvOut ELSE Append(kvOut, Head(kvRun.buf))
            /\ kvCount' = IF kvRun.counting THEN kvCount + 1 ELSE kvCount
            /\ kvRun' = [kvRun EXCEPT !.buf = Tail(@)]
            /\ kvPc' = IF Len(kvRun.buf) = 1 THEN "collect" ELSE "serve"
    /\ Cursor

\* The last piece takes what the division leaves.
SplitRange(dMin, dMax, pieces) ==
    LET width == dMax - dMin + 1
        n == Smaller(width, pieces)
        w == width \div n
    IN  IF dMax < dMin THEN {}
        ELSE {<<dMin + i * w, IF i = n - 1 THEN dMax ELSE dMin + i * w + w - 1>> : i \in 0..(n - 1)}

DataTimes == {CreatedAt[e] : e \in kvStored}

SearchTasks(f) ==
    IF DataTimes = {} THEN {}
    ELSE SplitRange(IF f.since > Min(DataTimes) THEN f.since ELSE Min(DataTimes),
                    IF f.until # 0 THEN Smaller(f.until, Max(DataTimes)) ELSE Max(DataTimes),
                    SearchShards)

Pebble2SearchRun(counting) ==
    LET tasks == SearchTasks(kvFilter)
    IN  BySignature(kvFilter) /\ Pebble2Starts(counting, [kvRun EXCEPT !.tasks = tasks, !.pieces = tasks], "search")

InPiece(S, t) == {e \in S : CreatedAt[e] \in t[1]..t[2]}

\* A worker opens its iterators on a piece ...
Pebble2SearchTask ==
    /\ kvPc = "search"
    /\ \E t \in kvRun.tasks :
         kvRun' = [kvRun EXCEPT !.tasks = @ \ {t}, !.bodies = @ \cup InPiece(kvStored, t)]
    /\ Cursor /\ UNCHANGED <<kvOut, kvCount, kvPc>>

\* ... and goes through it, oldest first; all share the budget, and the one that
\* exceeds it gives its piece up.
Pebble2SearchBody ==
    /\ kvPc = "search"
    /\ \E t \in kvRun.pieces : \E e \in InPiece(kvRun.bodies, t) : \E bloom \in SignaturesOf(e) :
         LET within == kvRun.scanned < MaxScanKeys
             read == {x \in {e} \cap kvStored : BloomMaybeContains(bloom, BuildSearchGrams(kvFilter.search))}
             found == {x \in read : Searched(kvFilter, x) /\ KVMatches(kvFilter, x)}
         IN  /\ \A x \in InPiece(kvRun.bodies, t) : ~CompareEventReverse(e, x)
             /\ IF within
                THEN Searching(read, /\ kvRun' = [kvRun EXCEPT !.scanned = @ + 1, !.bodies = @ \ {e},
                                                               !.kept = @ \cup found]
                                     /\ Cursor /\ UNCHANGED <<kvOut, kvCount, kvPc>>)
                ELSE /\ kvRun' = [kvRun EXCEPT !.failed = TRUE, !.bodies = @ \ InPiece(@, t)]
                     /\ Cursor /\ UNCHANGED <<kvOut, kvCount, kvPc>>

\* Each piece brings as many as the limit allows; one that failed fails all.
Pebble2SearchEnd ==
    LET best(S) == Take(Sorted(S, CompareEventReverse), kvRun.limit)
        found == UNION {ToSet(best(InPiece(kvRun.kept, t))) : t \in kvRun.pieces}
    IN  /\ kvPc = "search" /\ kvRun.tasks = {} /\ kvRun.bodies = {}
        /\ IF kvRun.counting THEN Counted(Cardinality(kvRun.kept), kvRun.failed)
           ELSE Finish(IF kvRun.failed THEN <<>> ELSE best(found))

-----------------------------------------------------------------------------
(* CountEvents *)

\* How many of the events read a scan counts.
ScanRead(plan, f, p) == {e \in Under(p) : InWindow(f, e) /\ Accepts(plan, f, e)}
ScanCount(plan, f, p) == Cardinality({e \in ScanRead(plan, f, p) : Searched(f, e)})

\* (A count that its limit ends may not get to a text that would end the process.)
CountScans(plan, n) ==
    Searching(UNION {ScanRead(plan, kvFilter, p) : p \in plan.scans}, Counted(n, FALSE))

\* bolt knows neither ids nor a search nor a limit when it counts.
BoltCountEvents ==
    /\ kvBackend = "bolt" /\ kvPc = "start"
    /\ \E plan \in BoltPlans(kvFilter) :
         Counted(FoldSet(LAMBDA p, n : n + Cardinality(ScanRead(plan, kvFilter, p)), 0, plan.scans), FALSE)

\* The limit ends the scan it is reached in, and no other.
BadgerCountEvents ==
    /\ kvBackend = "badger" /\ kvPc = "start"
    /\ \E plan \in BadgerPlans(kvFilter) :
         LET found(p) == ScanCount(plan, kvFilter, p)
             more(n, p) == IF kvFilter.limit = 0 \/ n + found(p) < kvFilter.limit THEN n + found(p)
                           ELSE IF found(p) = 0 THEN n
                           ELSE IF n + 1 >= kvFilter.limit THEN n + 1 ELSE kvFilter.limit
         IN  CountScans(plan, FoldLeft(more, 0, SetToSeq(plan.scans)))

PebbleCountEvents ==
    /\ kvBackend = "pebble" /\ kvPc = "start"
    /\ \E plan \in PebblePlans(kvFilter) :
         LET total == FoldSet(LAMBDA p, n : n + ScanCount(plan, kvFilter, p), 0, plan.scans)
         IN  CountScans(plan, IF kvFilter.limit > 0 THEN Smaller(total, kvFilter.limit) ELSE total)

\* What pebbledb2 reads for a count, one after the other: a counter, or the keys of an index.
CountPart(authors, kinds, lo, hi, scan) ==
    [authors |-> authors, kinds |-> kinds, lo |-> lo, hi |-> hi, scan |-> scan]

Parts(kinds, lo, hi, scan) ==
    IF lo > hi THEN <<>>
    ELSE IF kinds = NotSet THEN <<CountPart(NotSet, NotSet, lo, hi, scan)>>
    ELSE LET each == SetToSeq(kinds)
         IN  [i \in DOMAIN each |-> CountPart(NotSet, {each[i]}, lo, hi, scan)]

Counts(part) ==
    {e \in kvStored : /\ Allows(part.authors, Author[e]) /\ Allows(part.kinds, Kind[e])
                      /\ CreatedAt[e] \in part.lo..part.hi}

\* The counters of the whole hours and the keys of the others.  The kinds scanned
\* in the first hour count as scanned in the last one as well.
EdgeDay(f, since, until, day) ==
    LET lo == Later(since, day * DayLength)
        hi == Smaller(until, day * DayLength + DayLength - 1)
        h0 == HourOf(lo)
        h1 == HourOf(hi)
    IN  Parts(f.kinds, (h0 + 1) * HourLength, h1 * HourLength - 1, FALSE)
        \o Parts(f.kinds, lo, Smaller(hi, h0 * HourLength + HourLength - 1), TRUE)
        \o IF h1 # h0 /\ f.kinds = NotSet THEN Parts(f.kinds, h1 * HourLength, hi, TRUE) ELSE <<>>

CountRollupOneEdge(f, since, until) ==
    IF since > until THEN <<>>
    ELSE Parts(f.kinds, (DayOf(since) + 1) * DayLength, DayOf(until) * DayLength - 1, FALSE)
         \o EdgeDay(f, since, until, DayOf(since))

\* The counters of the days between, and the days at the edges.
CountRollup(f, since, until) ==
    IF since > until THEN <<>>
    ELSE Parts(f.kinds, (DayOf(since) + 1) * DayLength, DayOf(until) * DayLength - 1, FALSE)
         \o EdgeDay(f, since, until, DayOf(since))
         \o IF DayOf(until) # DayOf(since) THEN EdgeDay(f, since, until, DayOf(until)) ELSE <<>>

\* The counter of a public key and kind is written with its events.
PkKindCounters(f) ==
    LET each == SetToSeq(f.authors \X f.kinds)
    IN  [i \in DOMAIN each |-> CountPart({each[i][1]}, {each[i][2]}, 0, EndOfTime, FALSE)]

Pebble2CountParts ==
    /\ UsesCounters(kvFilter) \/ UsesRollup(kvFilter)
    /\ Pebble2Starts(TRUE, [kvRun EXCEPT !.parts = IF UsesCounters(kvFilter) THEN PkKindCounters(kvFilter)
                                                   ELSE CountRollup(kvFilter, kvFilter.since, Until(kvFilter))],
                     "parts")

\* Counters cost nothing of the budget, keys do.
Pebble2CountPart ==
    LET part == Head(kvRun.parts)
        n == Cardinality(Counts(part))
        scanned == IF part.scan THEN kvRun.scanned + n ELSE kvRun.scanned
    IN  /\ kvPc = "parts"
        /\ IF kvRun.parts = <<>> THEN Counted(kvCount, FALSE)
           ELSE IF scanned > MaxScanKeys THEN Counted(0, TRUE)
           ELSE /\ kvRun' = [kvRun EXCEPT !.parts = Tail(@), !.scanned = scanned]
                /\ kvCount' = kvCount + n
                /\ Cursor /\ UNCHANGED <<kvOut, kvPc>>

-----------------------------------------------------------------------------
KVQueryNext ==
    \/ Overlap
    \/ BoltQueryByIds \/ BadgerQueryByIds \/ PebbleQueryByIDs \/ NothingAsked
    \/ BoltPrepare \/ BoltRound \/ BoltPullRound
    \/ BadgerPrepare \/ BadgerRound \/ BadgerPullRound
    \/ PebblePrepare \/ PebbleMerge
    \/ \E counting \in BOOLEAN :
          Pebble2RunIDs(counting) \/ Pebble2OpenCursor(counting) \/ Pebble2SearchRun(counting)
    \/ Pebble2LookUp \/ Pebble2SortIDs
    \/ Pebble2OpenSource \/ Pebble2Collect \/ Pebble2Dispatch \/ Pebble2Load \/ Pebble2Gather \/ Pebble2Serve
    \/ Pebble2SearchTask \/ Pebble2SearchBody \/ Pebble2SearchEnd
    \/ BoltCountEvents \/ BadgerCountEvents \/ PebbleCountEvents
    \/ Pebble2CountParts \/ Pebble2CountPart

-----------------------------------------------------------------------------
(* Properties *)

\* A text holds a pattern whatever their cases.
HasPattern(e, pattern) ==
    \E i \in 1..(Len(Content[e]) - Len(ToLower[pattern]) + 1) :
        SubSeq(LowerCase(Content[e]), i, i + Len(ToLower[pattern]) - 1) = ToLower[pattern]

\* Patterns of which the searcher takes the right length.
KeepsLength(pattern) == Len(ToLower[pattern]) = Len(pattern)

\* What the interface promises for a filter.
Wanted(f, S) == {e \in S : KVMatches(f, e) /\ (f.search = NotSet \/ HasPattern(e, f.search))}

\* The searcher takes the right length, and the trigrams are those of its pattern.
SearchIsPlain(f) ==
    f.search # NotSet =>
        /\ KeepsLength(f.search)
        /\ kvBackend = "pebble2" /\ BuildSearchGrams(f.search) # {} => ToLower[f.search] = LowerCase(f.search)

\* The stores with a planner of tags look only at ids if there are any.
IgnoresRest == kvBackend # "pebble2" /\ kvFilter.ids # NotSet

\* Equal as far as the key of a tag can tell.
Similar(e, name, values) ==
    \E t \in Tags[e], v \in values : t[1] = name /\ BoltTagPrefix(t) = BoltTagPrefix(<<name, v>>)

\* Whatever plan is chosen, an event that a query yields was stored while it ran
\* and matches the filter; the first three stores may take a shortened tag value
\* for another and check no more than two tag names (query_planner.go).
\* pebbledb2 yields no event twice; the others repeat one only if it is in
\* several scans.
QuerySound ==
    /\ \A e \in ToSet(kvOut) :
         /\ e \in kvSeen
         /\ ~IgnoresRest =>
              /\ KVMatches([kvFilter EXCEPT !.tags = <<>>], e)
              /\ kvFilter.search # NotSet /\ KeepsLength(kvFilter.search) => HasPattern(e, kvFilter.search)
              /\ kvBackend = "pebble2" => KVMatches(kvFilter, e)
              /\ Cardinality(DOMAIN kvFilter.tags) <= 2 =>
                   \A n \in DOMAIN kvFilter.tags : Similar(e, n, kvFilter.tags[n])
    /\ \A i, j \in DOMAIN kvOut :
         i # j /\ kvOut[i] = kvOut[j] =>
           kvBackend # "pebble2" /\ Cardinality({p \in kvPlan.scans : kvOut[i] \in Under(p)}) > 1

\* A query that ends without an error has yielded every event that matches and
\* that was there all the time, or as many as its limit and none older than one
\* it leaves out: the merge of the walks loses nothing, whatever the batches and
\* whatever is written meanwhile.  Values that are not indexed are left out, and
\* patterns that strings.ToLower changes in another way than the table of the
\* texts (searcher.go:29).  Until the end the results come newest first.
QueryComplete ==
    LET limit == IF kvBackend = "pebble2" THEN Pebble2Limit(kvFilter) ELSE QueryLimit(kvFilter)
        indexed == \A n \in DOMAIN kvFilter.tags : kvFilter.tags[n] \cap Unindexed = {}
        searches == (kvBackend # "bolt" \/ kvFilter.search = NotSet) /\ SearchIsPlain(kvFilter)
    IN  /\ kvPc = "done" /\ ~kvRun.failed /\ searches /\ (indexed \/ kvBackend = "pebble2") /\ ~kvFilter.limitZero =>
             \A e \in Wanted(kvFilter, kvSteady) :
                \/ e \in ToSet(kvOut)
                \/ Len(kvOut) = limit /\ \A i \in DOMAIN kvOut : CreatedAt[kvOut[i]] >= CreatedAt[e]
        /\ ~IgnoresRest =>
             \A i \in 1..(Len(kvOut) - 1) : CreatedAt[kvOut[i]] >= CreatedAt[kvOut[i + 1]]

\* QueryEvents of the four stores yields what the filter asks for.
QueryExact == QuerySound /\ QueryComplete

\* The last hour of a range is whole, or there are no kinds in the filter.
RollupIsWhole(f) ==
    f.kinds = NotSet \/ f.since > Until(f) \/
    \A d \in {DayOf(f.since), DayOf(Until(f))} :
        HourOf(Later(f.since, d * DayLength)) = HourOf(Smaller(Until(f), d * DayLength + DayLength - 1))

\* Filters for which the count is meant to be exact: bolt, badger and pebble
\* count what their scans meet, so an event in several scans counts as often,
\* and ids, a limit and (bolt) a search are not for counting.
CountsExactly(f) ==
    /\ SearchIsPlain(f)
    /\ IF kvBackend = "pebble2" THEN UsesRollup(f) => RollupIsWhole(f)
       ELSE /\ f.ids = NotSet /\ f.limit = 0 /\ Cardinality(DOMAIN f.tags) <= 2
            /\ f.search # NotSet => kvBackend # "bolt"
            /\ \A n \in DOMAIN f.tags : Cardinality(f.tags[n]) = 1 /\ \A v \in f.tags[n] :
                 v \notin Unindexed /\ \A e \in kvStored : \A t \in Tags[e] :
                    BoltTagPrefix(t) = BoltTagPrefix(<<n, v>>) => t = <<n, v>>

\* No fewer than those that were there all the time, no more than were there at all.
RightCount ==
    /\ Cardinality(Wanted(kvFilter, kvSteady)) <= kvCount
    /\ kvCount <= Cardinality(Wanted(kvFilter, kvSeen))

\* The count is the number of matching events, by whichever of the counters,
\* rollups, signatures and scans it is found.
CountExact == kvPc = "counted" /\ ~kvRun.failed /\ CountsExactly(kvFilter) => RightCount

\* "CountEvents returns the exact NIP-45 count for the filter."
\* (pebbledb2/query.go:93)
CountIsExact == kvBackend = "pebble2" /\ kvPc = "counted" /\ ~kvRun.failed => RightCount

\* A search does not end the process (searcher.go:25 and :35: the length is that
\* of the pattern before it is lower-cased, which may be longer).
SearchNeverFails == kvPc # "panic"

\* "It never returns false for content that actually contains the pattern"
\* (pebbledb2/bloom.go:119)
SignaturesNeverHide ==
    \A e \in kvStored :
        kvFilter.search # NotSet /\ HasPattern(e, kvFilter.search) =>
            BloomMaybeContains(ContentBloom(Content[e]), BuildSearchGrams(kvFilter.search))
=============================================================================
