------------------------------- MODULE KVStore -------------------------------
(***************************************************************************)
(* SaveEvent, ReplaceEvent and DeleteEvent of the bolt, badger and pebble  *)
(* stores.  The writes of bolt are serial transactions.  badger runs with  *)
(* DetectConflicts off and pebble reads a snapshot before it commits a     *)
(* batch: between the two, other writers commit theirs.                    *)
(*                                                                         *)
(* As the relay does, regular events are saved and the others replaced.    *)
(* A query for versions ends after ten of them; there are never so many.   *)
(***************************************************************************)
EXTENDS KVIndex

CONSTANTS
    WriteBackends,  \* subset of {"bolt", "badger", "pebble"}
    Writers,        \* the goroutines that write
    StoreEvents,    \* the events they write
    MaxWrites,      \* bound on the calls of the writers
    HLLKinds,       \* kinds with a cache of sketches (EnableHLLCacheFor) ...
    HLLOnly,        \* ... and those of them that are not saved besides
    References      \* event -> the events it counts for (nip45)

ASSUME StoreAssumption ==
    /\ WriteBackends \subseteq {"bolt", "badger", "pebble"} /\ MaxWrites \in Nat
    /\ StoreEvents \subseteq Events
    /\ HLLOnly \subseteq HLLKinds

VARIABLES
    ksBackend,  \* the store
    ksRaw,      \* the raw events
    ksKeys,     \* the keys of the indexes, as pairs of a prefix and an event
    ksHLL,      \* bolt's cache of sketches: who has referred to what
    ksTxn,      \* writer -> its transaction: events to be put and deleted
    ksWrites,   \* calls so far
    ksSeen,     \* history: the events ever committed
    ksAsked     \* history: the events somebody asked to delete

ksVars == <<ksBackend, ksRaw, ksKeys, ksHLL, ksTxn, ksWrites, ksSeen, ksAsked>>

NoTxn == [open |-> FALSE, put |-> {}, del |-> {}]

KVStoreInit ==
    /\ ksBackend \in WriteBackends
    /\ ksRaw = {} /\ ksKeys = {} /\ ksHLL = {} /\ ksWrites = 0 /\ ksSeen = {} /\ ksAsked = {}
    /\ ksTxn = [w \in Writers |-> NoTxn]

Saved == {e \in StoreEvents : IsRegular(Kind[e])}
Replaced == {e \in StoreEvents : IsReplaceable(Kind[e]) \/ IsAddressable(Kind[e])}

-----------------------------------------------------------------------------
(* What a call decides, given the events that its transaction sees *)

\* The versions that the query of ReplaceEvent finds by its plan.
VersionsByQuery(e, raw) ==
    LET f == [KVOpen EXCEPT !.kinds = {Kind[e]}, !.authors = {Author[e]}]
        g == IF IsAddressable(Kind[e]) THEN WithTags(f, [n \in {"d"} |-> {GetD(e)}]) ELSE f
    IN  UNION {{x \in raw : Accepts(plan, g, x) /\ plan.scans \cap IndexKeys(ksBackend, x) # {}} :
                 plan \in Plans(ksBackend, g)}

\* pebble walks public key and kind itself and compares the values of d.
VersionsByKey(e, raw) ==
    {x \in raw : /\ <<"pubkeyKind", Author[e], Kind[e]>> \in IndexKeys("pebble", x)
                 /\ IsAddressable(Kind[e]) => GetD(x) = GetD(e)}

ReplacementOfAll(e, versions) ==
    [open |-> TRUE, put |-> IF \A x \in versions : IsOlder(x, e) THEN {e} ELSE {}, del |-> versions \ {e}]

\* Older versions go even if a newer one keeps the event out.
Replacement(e, versions) ==
    [open |-> TRUE,
     put  |-> IF \A x \in versions : IsOlder(x, e) THEN {e} ELSE {},
     del  |-> {x \in versions : IsOlder(x, e)}]

Saving(e, raw) == [open |-> TRUE, put |-> IF e \in raw THEN {} ELSE {e}, del |-> {}]

Deleting(e, raw) == [open |-> TRUE, put |-> {}, del |-> {e} \cap raw]

-----------------------------------------------------------------------------
(* Commits *)

\* The raw event and every key that is computed from it.
Save(keys, S) == keys \cup Entries(ksBackend, S)
DeleteTimelines(keys, S) == keys \ UNION {Timelines(e) \X {e} : e \in S}

Delete(keys, S) == keys \ Entries(ksBackend, S)

Write(txn) ==
    /\ ksRaw' = (ksRaw \ txn.del) \cup txn.put
    /\ ksKeys' = Save(Delete(ksKeys, txn.del), txn.put)
    /\ ksSeen' = ksSeen \cup txn.put

Call == ksWrites < MaxWrites /\ ksWrites' = ksWrites + 1

\* A duplicate aborts the transaction, the sketches with it.
BoltSaveEvent(e) ==
    /\ ksBackend = "bolt" /\ e \in Saved /\ Call
    /\ IF Kind[e] \in HLLKinds /\ (e \notin ksRaw \/ Kind[e] \in HLLOnly)
       THEN ksHLL' = ksHLL \cup {<<Kind[e], r, Author[e]>> : r \in References[e]} ELSE UNCHANGED ksHLL
    /\ IF Kind[e] \in HLLOnly THEN UNCHANGED <<ksRaw, ksKeys, ksSeen>> ELSE Write(Saving(e, ksRaw))
    /\ UNCHANGED <<ksTxn, ksAsked>>

BoltReplaceEvent(e) ==
    /\ ksBackend = "bolt" /\ e \in Replaced /\ Call
    /\ IF e \in ksRaw THEN UNCHANGED <<ksRaw, ksKeys, ksSeen>>
       ELSE Write(Replacement(e, VersionsByQuery(e, ksRaw)))
    /\ UNCHANGED <<ksHLL, ksTxn, ksAsked>>

BoltDeleteEvent(e) ==
    /\ ksBackend = "bolt" /\ Call
    /\ Write(Deleting(e, ksRaw)) /\ ksAsked' = ksAsked \cup {e}
    /\ UNCHANGED <<ksHLL, ksTxn>>

\* Reading: the writer knows what it will commit.
Begin(w, txn) ==
    /\ ~ksTxn[w].open /\ Call
    /\ ksTxn' = [ksTxn EXCEPT ![w] = txn]
    /\ UNCHANGED <<ksRaw, ksKeys, ksHLL, ksSeen>>

BadgerSaveEvent(w, e) ==
    /\ ksBackend = "badger" /\ e \in Saved /\ Begin(w, Saving(e, ksRaw)) /\ UNCHANGED ksAsked

BadgerReplaceEvent(w, e) ==
    /\ ksBackend = "badger" /\ e \in Replaced
    /\ Begin(w, Replacement(e, VersionsByQuery(e, ksRaw))) /\ UNCHANGED ksAsked

BadgerDeleteEvent(w, e) ==
    /\ ksBackend = "badger" /\ Begin(w, Deleting(e, ksRaw)) /\ ksAsked' = ksAsked \cup {e}

PebbleSaveEvent(w, e) ==
    /\ ksBackend = "pebble" /\ e \in Saved /\ Begin(w, Saving(e, ksRaw)) /\ UNCHANGED ksAsked

PebbleReplaceEvent(w, e) ==
    /\ ksBackend = "pebble" /\ e \in Replaced
    /\ Begin(w, Replacement(e, VersionsByKey(e, ksRaw))) /\ UNCHANGED ksAsked

PebbleDeleteEvent(w, e) ==
    /\ ksBackend = "pebble" /\ Begin(w, Deleting(e, ksRaw)) /\ ksAsked' = ksAsked \cup {e}

\* The batch, or the transaction without a look at conflicts.
Commit(w) ==
    /\ ksTxn[w].open
    /\ Write(ksTxn[w])
    /\ ksTxn' = [ksTxn EXCEPT ![w] = NoTxn]
    /\ UNCHANGED <<ksHLL, ksWrites, ksAsked>>

\* A write that fails leaves nothing behind.
CommitFails(w) ==
    /\ ksTxn[w].open
    /\ ksTxn' = [ksTxn EXCEPT ![w] = NoTxn]
    /\ UNCHANGED <<ksRaw, ksKeys, ksHLL, ksWrites, ksSeen, ksAsked>>

KVStoreNext ==
    /\ \/ \E e \in StoreEvents : BoltSaveEvent(e) \/ BoltReplaceEvent(e) \/ BoltDeleteEvent(e)
       \/ \E w \in Writers, e \in StoreEvents :
            \/ BadgerSaveEvent(w, e) \/ BadgerReplaceEvent(w, e) \/ BadgerDeleteEvent(w, e)
            \/ PebbleSaveEvent(w, e) \/ PebbleReplaceEvent(w, e) \/ PebbleDeleteEvent(w, e)
       \/ \E w \in Writers : Commit(w) \/ CommitFails(w)
    /\ UNCHANGED ksBackend

KVStoreSpec == KVStoreInit /\ [][KVStoreNext]_ksVars

-----------------------------------------------------------------------------
(* Properties *)

\* Whatever the writers interleave and whichever commits fail, the indexes hold
\* exactly the keys of the raw events: no key points to an event that is gone,
\* and every event can be found by each of its keys.
IndexesAgree == ksKeys = Entries(ksBackend, ksRaw)

\* The versions of an event among which only the newest is wanted.
Versions(e) ==
    {x \in Replaced : /\ Author[x] = Author[e] /\ Kind[x] = Kind[e]
                      /\ IsAddressable(Kind[e]) => GetD(x) = GetD(e)}

\* Replacements lose nothing: the newest version of all that were ever stored is
\* in the store, unless somebody asked to delete it, however the reads and
\* commits of several replacements overlap.
NewestSurvives ==
    \A e \in ksSeen \cap Replaced :
        (\A x \in ksSeen \cap Versions(e) : x = e \/ IsOlder(x, e)) => e \in ksRaw \cup ksAsked

\* The values of d by which bolt and badger can find a version again.
CanFind(e) == IsAddressable(Kind[e]) => D[e] # NoD /\ D[e] \notin Unindexed

\* In bolt, where transactions are serial, there is one version at any time.
BoltKeepsOneVersion ==
    ksBackend = "bolt" =>
        \A e, x \in ksRaw \cap Replaced : CanFind(e) /\ x \in Versions(e) => x = e

\* ReplaceEvent of the three stores: the newest version is never lost, and
\* where transactions are serial it is alone.
ReplacementsAreSafe == NewestSurvives /\ BoltKeepsOneVersion
=============================================================================
