------------------------------ MODULE SliceStore ------------------------------
(***************************************************************************)
(* The in-memory store (eventstore/slicestore/lib.go): a slice sorted from *)
(* the newest event to the oldest.  Writers hold a mutex; QueryEvents and  *)
(* CountEvents do not, and walk the backing array while it is changed: an  *)
(* event is many words, so what they copy out of a cell may be made of the *)
(* parts of several events.                                                *)
(* The slice never outgrows its first capacity, so that the array stays    *)
(* the same one.                                                           *)
(***************************************************************************)
EXTENDS EventData, Sequences

CONSTANTS
    Filters,   \* the filters of queries
    Capacity,  \* bound: the capacity that Init gives to the slice
    MaxLimit,  \* the limit that callers of QueryEvents give
    MaxRaces,  \* bound: steps of writers that overlap a query
    None

ASSUME SliceAssumption == Capacity \in Nat /\ MaxLimit \in Nat /\ MaxRaces \in Nat /\ None \notin Events

FieldOk(field) == field = NotSet \/ IsFiniteSet(field)

\* The fields of a filter are lists and integers.
ASSUME FilterAssumption ==
    \A f \in Filters : /\ FieldOk(f.ids) /\ FieldOk(f.kinds) /\ FieldOk(f.authors) /\ FieldOk(f.ds)
                       /\ {f.since, f.until, f.limit} \subseteq Int

VARIABLES
    array,    \* the backing array: its cells beyond len hold leftovers
    len,      \* len(b.internal)
    mu,       \* free, or what the holder of the mutex is about to do
    reader,   \* the query or count that is under way
    out,      \* the copies of events that it has yielded
    races,    \* history: steps of writers that it overlapped
    seen,     \* history: the events that were stored at some time since then
    offered   \* history: versions stored or refused since a deletion among them

readerVars == <<reader, out>>
vars == <<array, len, mu, reader, out, races, seen, offered>>

Index == 1..Capacity
Free == [pc |-> "free", e |-> None, old |-> None, at |-> 0]
Idle == [pc |-> "idle", f |-> Open, next |-> 1, end |-> 0, limit |-> 0, half |-> None]

\* The fields of an event in their order: its id, its public key, and the others.
Parts == {"id", "pubkey", "rest"}
Whole(e) == [p \in Parts |-> e]

-----------------------------------------------------------------------------
(* The order of the slice *)

\* eventComparator < 0
Before(a, b) ==
    \/ CreatedAt[a] > CreatedAt[b]
    \/ CreatedAt[a] = CreatedAt[b] /\ a > b

\* What slices.BinarySearchFunc finds: the first place whose event does not
\* come before the one looked for.
IsPlace(e, i) ==
    /\ i <= len => ~Before(array[i], e)
    /\ \A j \in 1..(i - 1) : Before(array[j], e)

FoundAt(e, i) == i <= len /\ array[i] = e

\* The same with eventTimestampComparator.
SearchTime(t) == CHOOSE i \in 1..(len + 1) :
    /\ i <= len => CreatedAt[array[i]] <= t
    /\ \A j \in 1..(i - 1) : CreatedAt[array[j]] > t

\* delete looks for the id from the front.
IsFirst(e, i) == array[i] = e /\ \A j \in 1..(i - 1) : array[j] # e

\* The first event that the query of ReplaceEvent yields, which is the only one.
IsPrevious(e, i) ==
    /\ array[i] \in Rivals(e)
    /\ \A j \in 1..(i - 1) : array[j] \notin Rivals(e)

-----------------------------------------------------------------------------
(* Writers *)

Reading == reader.pc # "idle"

\* Every write may come to the notice of a reader.
Notice(new) ==
    /\ races < MaxRaces
    /\ races' = IF Reading THEN races + 1 ELSE 0
    /\ seen' = IF Reading THEN seen \cup new ELSE {}

\* save: the event is appended first, at the wrong place ...
AppendAt(e, i) ==
    /\ len < Capacity
    /\ array' = [array EXCEPT ![len + 1] = e]
    /\ len' = len + 1
    /\ mu' = [pc |-> "shift", e |-> e, old |-> None, at |-> i]
    /\ Notice({e})

\* ... then everything from its place on moves up and it is put there.
Shift ==
    /\ mu.pc = "shift"
    /\ array' = [i \in Index |-> IF i < mu.at \/ i > len THEN array[i]
                                ELSE IF i = mu.at THEN mu.e ELSE array[i - 1]]
    /\ mu' = Free
    /\ Notice({})
    /\ UNCHANGED <<len, offered, readerVars>>

\* delete: everything behind the event moves down ...
Copy(i, next) ==
    /\ array' = [j \in Index |-> IF i <= j /\ j < len THEN array[j + 1] ELSE array[j]]
    /\ mu' = [pc |-> "cut", e |-> next, old |-> array[i], at |-> i]
    /\ Notice({})
    /\ UNCHANGED <<len, readerVars>>

\* ... and the slice is cut by one.
Cut ==
    /\ mu.pc = "cut"
    /\ len' = len - 1
    /\ mu' = IF mu.e = None THEN Free ELSE [pc |-> "append", e |-> mu.e, old |-> mu.old, at |-> 0]
    /\ Notice({})
    /\ UNCHANGED <<array, offered, readerVars>>

\* A duplicate is refused with ErrDupEvent and changes nothing.
SaveEvent(e) ==
    /\ mu = Free /\ IsRegular(Kind[e])
    /\ \E i \in 1..(len + 1) : IsPlace(e, i) /\ ~FoundAt(e, i) /\ AppendAt(e, i)
    /\ UNCHANGED <<offered, readerVars>>

\* An event that is not there is deleted without an error.
DeleteEvent(e) ==
    /\ mu = Free
    /\ \E i \in 1..len : IsFirst(e, i) /\ Copy(i, None)
    /\ offered' = offered \ Rivals(e)

\* Mutant: the previous version is deleted without a comparison.
ReplaceOlderAlways(e) ==
    /\ mu = Free /\ ~IsRegular(Kind[e])
    /\ \E i \in 1..len : IsPrevious(e, i) /\ Copy(i, e)
    /\ offered' = offered \cup {e}

\* An older version is deleted first and the event saved by the steps that
\* follow, under the same lock.
ReplaceOlder(e) ==
    /\ mu = Free /\ ~IsRegular(Kind[e])
    /\ \E i \in 1..len : IsPrevious(e, i) /\ IsOlder(array[i], e) /\ Copy(i, e)
    /\ offered' = offered \cup {e}

ReplaceSave ==
    /\ mu.pc = "append"
    /\ \E i \in 1..(len + 1) : IsPlace(mu.e, i) /\ ~FoundAt(mu.e, i) /\ AppendAt(mu.e, i)
    /\ UNCHANGED <<offered, readerVars>>

\* The error of a duplicate is dropped.
ReplaceDuplicate ==
    /\ mu.pc = "append"
    /\ \E i \in 1..(len + 1) : IsPlace(mu.e, i) /\ FoundAt(mu.e, i)
    /\ mu' = Free
    /\ UNCHANGED <<array, len, races, seen, offered, readerVars>>

ReplaceNothing(e) ==
    /\ mu = Free /\ ~IsRegular(Kind[e])
    /\ \A i \in 1..len : array[i] \notin Rivals(e)
    /\ \E i \in 1..(len + 1) : IsPlace(e, i) /\ ~FoundAt(e, i) /\ AppendAt(e, i)
    /\ offered' = offered \cup {e}
    /\ UNCHANGED readerVars

\* A version that is not older stays, and nothing is saved.
ReplaceRefused(e) ==
    /\ mu = Free /\ ~IsRegular(Kind[e])
    /\ \E i \in 1..len : IsPrevious(e, i) /\ ~IsOlder(array[i], e)
    /\ offered' = offered \cup {e}
    /\ UNCHANGED <<array, len, mu, races, seen, readerVars>>

ReplaceEvent(e) ==
    ReplaceOlder(e) \/ ReplaceNothing(e) \/ ReplaceRefused(e)

-----------------------------------------------------------------------------
(* Readers *)

InSlice == {array[i] : i \in 1..len}

\* What a reader may find in a cell: while the events behind a deleted one move down, one cell
\* after the other, what was there before as well.
Cell(i) ==
    {array[i]} \cup (IF mu.pc # "cut" \/ i \notin mu.at..len THEN {}
                    ELSE IF i = mu.at THEN {mu.old} ELSE {array[i - 1]})

\* Matches, of a copy whose parts may be of different events.
CopyMatches(f, c) ==
    /\ Allows(f.ids, c.id) /\ Allows(f.authors, Author[c.pubkey])
    /\ Allows(f.kinds, Kind[c.rest]) /\ Allows(f.ds, D[c.rest])
    /\ f.since # 0 => CreatedAt[c.rest] >= f.since
    /\ f.until # 0 => CreatedAt[c.rest] <= f.until

Smaller(a, b) == IF a < b THEN a ELSE b

Begin(f, first, end, limit, pc) ==
    /\ reader' = [pc |-> pc, f |-> f, next |-> first, end |-> end, limit |-> limit, half |-> None]
    /\ out' = <<>>
    /\ races' = IF mu = Free THEN 0 ELSE 1
    /\ seen' = InSlice \cup (IF mu.pc = "cut" THEN {mu.old} ELSE {})
    /\ UNCHANGED <<array, len, mu, offered>>

\* Mutant: the end of the range is taken for its start.
QueryStartSwapped(f) ==
    /\ ~Reading
    /\ GetTheoreticalLimit(f) # 0
    /\ LET start == IF f.since # 0 THEN SearchTime(f.since) ELSE 1
           end == IF f.until # 0 THEN SearchTime(f.until) - 1 ELSE len
       IN  start <= end + 1
           /\ Begin(f, start, end, Smaller(GetTheoreticalLimit(f), MaxLimit), "query")

\* A search by timestamp; one that a write disturbs may end anywhere.
TimePlaces(t) == IF mu = Free THEN {SearchTime(t)} ELSE 1..(len + 1)

\* QueryEvents searches for the ends of the range and takes a slice of it.
QueryStart(f) ==
    /\ ~Reading
    /\ GetTheoreticalLimit(f) # 0
    /\ \E start \in IF f.until # 0 THEN TimePlaces(f.until) ELSE {1},
          stop \in IF f.since # 0 THEN TimePlaces(f.since) ELSE {len + 1} :
           /\ start <= stop
           /\ Begin(f, start, stop - 1, Smaller(GetTheoreticalLimit(f), MaxLimit), "query")

\* CountEvents walks everything.
CountStart(f) ==
    /\ ~Reading
    /\ Begin(f, 1, len, MaxInt, "count")

AtEnd == reader.next > reader.end \/ Len(out) = reader.limit

\* One turn of the loop copies the cell, which takes a while ...
ReadHalf ==
    /\ Reading /\ ~AtEnd /\ reader.half = None
    /\ \E e \in Cell(reader.next) : reader' = [reader EXCEPT !.half = e]
    /\ UNCHANGED <<array, len, mu, out, races, seen, offered>>

\* ... so that each part is what the cell had earlier, or what it has now.
ReadNext ==
    /\ Reading /\ ~AtEnd /\ reader.half # None
    /\ \E e \in Cell(reader.next) : \E c \in [Parts -> {reader.half, e}] :
           out' = IF CopyMatches(reader.f, c) THEN Append(out, c) ELSE out
    /\ reader' = [reader EXCEPT !.next = @ + 1, !.half = None]
    /\ UNCHANGED <<array, len, mu, races, seen, offered>>

\* The loop ends, or the consumer of a query leaves it.
ReadEnd ==
    /\ Reading /\ (AtEnd \/ (reader.pc = "query" /\ out # <<>>))
    /\ reader' = Idle
    /\ out' = <<>>
    /\ races' = 0
    /\ seen' = {}
    /\ UNCHANGED <<array, len, mu, offered>>

-----------------------------------------------------------------------------

Init ==
    /\ array = [i \in Index |-> None]
    /\ len = 0
    /\ mu = Free
    /\ reader = Idle
    /\ out = <<>>
    /\ races = 0
    /\ seen = {}
    /\ offered = {}

Write ==
    \/ \E e \in Events : SaveEvent(e) \/ DeleteEvent(e) \/ ReplaceEvent(e)
    \/ Shift \/ Cut \/ ReplaceSave \/ ReplaceDuplicate

Read ==
    \/ \E f \in Filters : QueryStart(f) \/ CountStart(f)
    \/ ReadHalf \/ ReadNext \/ ReadEnd

Next == Write \/ Read

Spec == Init /\ [][Next]_vars

-----------------------------------------------------------------------------
(* Properties *)

\* When no writer is at work the slice is strictly sorted: it holds no event
\* twice, and the binary searches of QueryEvents and save find what is there.
SortedWhenFree ==
    mu.pc = "free" => \A i, j \in 1..len : i < j => Before(array[i], array[j])

\* What the store holds for its callers: a replacement has not happened until
\* its event is appended, and a deletion has once the cells have moved.
Contents ==
    IF mu.pc = "cut"
    THEN {array[i] : i \in 1..(len - 1)} \cup (IF mu.e = None THEN {} ELSE {mu.old})
    ELSE IF mu.pc = "append" THEN InSlice \cup {mu.old} ELSE InSlice

Store == INSTANCE EventStore WITH stored <- Contents

\* The slice implements the interface: saving, deleting and replacing are
\* atomic, and a replacement keeps the newer version.
ImplementsEventStore == Store!StoreSpec

\* ReplaceEvent leaves one version of every event it can find again.
OneVersionKept == Store!OneVersion

\* A version that was offered to ReplaceEvent is in the store or has lost to a
\* newer one, in whatever order they came, unless a version was deleted.
NewestWins ==
    mu.pc = "free" => \A e \in offered : Store!Findable(e) =>
        \E x \in InSlice : x = e \/ (e \in Rivals(x) /\ ~IsOlder(x, e))

\* The events that were yielded, by their ids.
Yielded == {out[i].id : i \in DOMAIN out}

Matching == {e \in InSlice : Matches(reader.f, e)}

\* Events created at the very second of since match, and the query leaves them out: its range ends
\* where the search finds that second.
Asked == {e \in Matching : reader.f.since # 0 => CreatedAt[e] # reader.f.since}

\* The copies are whole events, in order, the first of S, and as many as the limit allows.
ExactlyFirst(S) ==
    /\ \A i \in DOMAIN out : out[i] = Whole(out[i].id)
    /\ \A i, j \in 1..Len(out) : i < j => Before(out[i].id, out[j].id)
    /\ Yielded \subseteq S
    /\ Len(out) = Smaller(reader.limit, Cardinality(S))
    /\ \A x \in S \ Yielded, y \in Yielded : Before(y, x)

\* A query that no write disturbed yields the newest of the events that match, but for those of the
\* second of since; a count counts all that match.
QuietReadIsExact ==
    Reading /\ AtEnd /\ races = 0 =>
      IF reader.pc = "count" THEN Len(out) = Cardinality(Matching) ELSE ExactlyFirst(Asked)

\* What the interface promises of a query (eventstore/store.go:19: "QueryEvents returns events that
\* match the filter"), and the limit takes the newest of: not so in the code, with a since.
QueryReturnsMatching ==
    reader.pc = "query" /\ AtEnd /\ races = 0 => ExactlyFirst(Matching)

\* Whatever writers do meanwhile, all parts of a copy that a query yields are of events that were
\* stored at some time while it ran, they match the filter together, and there are never more
\* copies than the limit.
RacingReadIsSound ==
    /\ \A i \in DOMAIN out : CopyMatches(reader.f, out[i]) /\ \A p \in Parts : out[i][p] \in seen
    /\ Reading => Len(out) <= reader.limit

\* Not so in the code: what a query yields is an event.
YieldsEvents == \A i \in DOMAIN out : out[i] = Whole(out[i].id)

\* QueryEvents and CountEvents, which take no lock, are exact when nothing
\* disturbs them and sound when something does.
ReadsAreSound == QuietReadIsExact /\ RacingReadIsSound
=============================================================================
