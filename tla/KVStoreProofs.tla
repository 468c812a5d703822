---------------------------- MODULE KVStoreProofs ----------------------------
(***************************************************************************)
(* The writes of the persistent stores, for any events, writers and number *)
(* of calls: the indexes follow the raw events, and in pebble, where two   *)
(* replacements overlap, none of them loses the newest version.            *)
(*                                                                         *)
(* And the write pipeline of pebbledb2, for any callers, sizes of groups   *)
(* and of the channel: what the writer commits is exact, keeps one version *)
(* and leaves no caller without its request (PipelineInv).                 *)
(***************************************************************************)
EXTENDS KVStore, PebblePipeline, FiniteSetTheorems, WellFoundedInduction, TLAPS

-----------------------------------------------------------------------------
(* The indexes *)

\* A key belongs to the event it is paired with.
LEMMA EntryOf ==
    ASSUME NEW b, NEW S, NEW p
    PROVE  p \in Entries(b, S) <=> \E e \in S : \E k \in IndexKeys(b, e) : p = <<k, e>>
  BY DEF Entries

\* The keys of what a transaction leaves are the keys its writes leave.
LEMMA WriteKeepsIndexes ==
    ASSUME NEW txn, IndexesAgree, Write(txn), UNCHANGED ksBackend
    PROVE  IndexesAgree'
  <1> DEFINE b == ksBackend
             left == (ksRaw \ txn.del) \cup txn.put
  <1>1. ksKeys' = (Entries(b, ksRaw) \ Entries(b, txn.del)) \cup Entries(b, txn.put)
    BY DEF Write, Save, Delete, IndexesAgree
  <1>2. ASSUME NEW p PROVE p \in Entries(b, left) <=> p \in ksKeys'
    <2>1. \A S : p \in Entries(b, S) <=> \E e \in S : \E k \in IndexKeys(b, e) : p = <<k, e>>
      BY EntryOf
    <2> QED
      BY <1>1, <2>1
  <1>3. ksKeys' = Entries(b, left)
    <2>1. \A p : p \in Entries(b, left) => p \in ksKeys'
      BY <1>2
    <2>2. \A p : p \in ksKeys' => p \in Entries(b, left)
      BY <1>2
    <2> HIDE DEF left
    <2>3. Entries(b, left) \subseteq ksKeys' /\ ksKeys' \subseteq Entries(b, left)
      BY <2>1, <2>2
    <2> QED
      BY <2>3
  <1>4. ksRaw' = left
    BY DEF Write
  <1> QED
    BY <1>3, <1>4 DEF IndexesAgree

\* Every step of the stores keeps the indexes in agreement with the raw events.
LEMMA IndexStep ==
    ASSUME IndexesAgree, [KVStoreNext]_ksVars
    PROVE  IndexesAgree'
  <1>1. ASSUME UNCHANGED <<ksRaw, ksKeys, ksBackend>> PROVE IndexesAgree'
    BY <1>1 DEF IndexesAgree, Entries
  <1>2. CASE UNCHANGED ksVars
    BY <1>1, <1>2 DEF ksVars
  <1>3. ASSUME NEW e \in StoreEvents, UNCHANGED ksBackend,
               BoltSaveEvent(e) \/ BoltReplaceEvent(e) \/ BoltDeleteEvent(e)
        PROVE  IndexesAgree'
    <2>1. CASE \E txn : Write(txn)
      BY <1>3, <2>1, WriteKeepsIndexes
    <2>2. CASE UNCHANGED <<ksRaw, ksKeys>>
      BY <1>1, <1>3, <2>2
    <2> QED
      BY <1>3, <2>1, <2>2 DEF BoltSaveEvent, BoltReplaceEvent, BoltDeleteEvent
  <1>4. ASSUME NEW w \in Writers, NEW e \in StoreEvents, UNCHANGED ksBackend,
               \/ BadgerSaveEvent(w, e) \/ BadgerReplaceEvent(w, e) \/ BadgerDeleteEvent(w, e)
               \/ PebbleSaveEvent(w, e) \/ PebbleReplaceEvent(w, e) \/ PebbleDeleteEvent(w, e)
        PROVE  IndexesAgree'
    BY <1>1, <1>4 DEF BadgerSaveEvent, BadgerReplaceEvent, BadgerDeleteEvent,
                      PebbleSaveEvent, PebbleReplaceEvent, PebbleDeleteEvent, Begin
  <1>5. ASSUME NEW w \in Writers, UNCHANGED ksBackend, Commit(w) \/ CommitFails(w)
        PROVE  IndexesAgree'
    BY <1>1, <1>5, WriteKeepsIndexes DEF Commit, CommitFails
  <1> QED
    BY <1>2, <1>3, <1>4, <1>5 DEF KVStoreNext

\* In bolt, badger and pebble, however writers interleave and commits fail, the
\* keys of the indexes are those of the raw events.
THEOREM StoresKeepIndexes == KVStoreSpec => []IndexesAgree
  <1>1. KVStoreInit => IndexesAgree
    BY DEF KVStoreInit, IndexesAgree, Entries
  <1>2. IndexesAgree /\ [KVStoreNext]_ksVars => IndexesAgree'
    BY IndexStep
  <1> QED
    BY <1>1, <1>2, PTL DEF KVStoreSpec

-----------------------------------------------------------------------------
(* Replacements in pebble *)

Txn == [open : BOOLEAN, put : SUBSET StoreEvents, del : SUBSET StoreEvents]

\* S has a version of x that is at least as new.
Superseded(x, S) == \E y \in S \cap Versions(x) : y # x /\ ~IsOlder(y, x)

\* Between its reads and its commit, what a writer will delete was asked for or
\* is superseded by what was committed before or comes with it.
TxnIsSafe(txn, seen, asked) ==
    \A x \in txn.del \cap Replaced : x \in asked \/ Superseded(x, seen \cup txn.put)

PebbleInv ==
    /\ ksBackend = "pebble"
    /\ ksRaw \subseteq ksSeen /\ ksSeen \subseteq StoreEvents /\ ksTxn \in [Writers -> Txn]
    /\ \A w \in Writers : TxnIsSafe(ksTxn[w], ksSeen, ksAsked)
    /\ NewestSurvives

\* Older than is an order.
LEMMA OlderOrder ==
    ASSUME NEW x \in StoreEvents, NEW y \in StoreEvents, NEW z \in StoreEvents
    PROVE  /\ IsOlder(x, y) => ~IsOlder(y, x)
           /\ IsOlder(x, y) /\ IsOlder(y, z) => IsOlder(x, z)
  <1>1. /\ {x, y, z} \subseteq Nat
        /\ CreatedAt[x] \in Nat /\ CreatedAt[y] \in Nat /\ CreatedAt[z] \in Nat
    BY EventAssumption, StoreAssumption
  <1> QED
    BY <1>1 DEF IsOlder

\* The walk by public key and kind finds versions of the event, and no other events.
LEMMA KeyFindsVersions ==
    ASSUME NEW e \in Replaced, NEW raw \in SUBSET StoreEvents, NEW x \in VersionsByKey(e, raw)
    PROVE  x \in raw \cap Versions(e)
  <1> DEFINE key == <<"pubkeyKind", Author[e], Kind[e]>>
  <1>1. x \in raw /\ x \in Events /\ key \in PebbleIndexKeys(x) /\ (IsAddressable(Kind[e]) => GetD(x) = GetD(e))
    BY StoreAssumption DEF VersionsByKey, IndexKeys
  <1>2. ASSUME NEW t \in Indexable(x) PROVE key # PebbleTagPrefix(t)
    <2>1. Form[t[2]] # "pubkeyKind"
      BY <1>1, FormAssumption DEF Indexable
    <2> QED
      BY <2>1 DEF PebbleTagPrefix
  <1>3. key \in Timelines(x)
    BY <1>1, <1>2 DEF PebbleIndexKeys
  <1>4. key = <<"pubkeyKind", Author[x], Kind[x]>>
    BY <1>3 DEF Timelines
  <1>5. Author[x] = Author[e] /\ Kind[x] = Kind[e]
    BY <1>4
  <1> QED
    BY <1>1, <1>5 DEF Versions, Replaced

\* A replacement deletes only what is superseded.
LEMMA ReplacementIsSafe ==
    ASSUME NEW e \in Replaced, NEW raw \in SUBSET StoreEvents,
           NEW versions, versions \subseteq raw \cap Versions(e)
    PROVE  /\ Replacement(e, versions) \in Txn
           /\ \A asked : TxnIsSafe(Replacement(e, versions), raw, asked)
  <1> DEFINE txn == Replacement(e, versions)
  <1>1. e \in StoreEvents /\ versions \subseteq StoreEvents
    BY DEF Replaced
  <1>2. txn \in Txn
    BY <1>1 DEF Replacement, Txn
  <1>3. ASSUME NEW x \in txn.del \cap Replaced PROVE Superseded(x, raw \cup txn.put)
    <2>1. x \in versions /\ x \in StoreEvents /\ IsOlder(x, e)
      BY <1>1, <1>3 DEF Replacement
    <2>2. e \in Versions(x) /\ Versions(e) \subseteq Versions(x)
      BY <2>1 DEF Versions, Replaced
    <2>3. CASE txn.put = {e}
      <3>1. e # x /\ ~IsOlder(e, x)
        BY <1>1, <2>1, OlderOrder
      <3> QED
        BY <2>2, <2>3, <3>1 DEF Superseded
    <2>4. CASE txn.put # {e}
      <3>1. PICK z \in versions : ~IsOlder(z, e)
        BY <2>4 DEF Replacement
      <3>2. z # x /\ ~IsOlder(z, x)
        BY <1>1, <2>1, <3>1, OlderOrder
      <3> QED
        BY <2>2, <3>1, <3>2 DEF Superseded
    <2> QED
      BY <2>3, <2>4
  <1> QED
    BY <1>2, <1>3 DEF TxnIsSafe

\* What supersedes an event stays.
LEMMA StillSafe ==
    ASSUME NEW txn, NEW seen, NEW more, NEW asked, NEW ask,
           TxnIsSafe(txn, seen, asked), seen \subseteq more, asked \subseteq ask
    PROVE  TxnIsSafe(txn, more, ask)
  BY DEF TxnIsSafe, Superseded

\* A call that has read knows a safe transaction.
LEMMA Begins ==
    ASSUME PebbleInv, NEW w \in Writers, NEW txn \in Txn, Begin(w, txn), UNCHANGED ksBackend,
           ksAsked \subseteq ksAsked', TxnIsSafe(txn, ksSeen, ksAsked')
    PROVE  PebbleInv'
  <1>1. ksTxn' = [ksTxn EXCEPT ![w] = txn] /\ UNCHANGED <<ksRaw, ksSeen>>
    BY DEF Begin
  <1>2. ksTxn' \in [Writers -> Txn]
    BY <1>1 DEF PebbleInv
  <1>3. ASSUME NEW v \in Writers PROVE TxnIsSafe(ksTxn'[v], ksSeen', ksAsked')
    <2>1. CASE v = w
      BY <2>1, <1>1 DEF PebbleInv
    <2>2. CASE v # w
      <3>1. ksTxn'[v] = ksTxn[v] /\ TxnIsSafe(ksTxn[v], ksSeen, ksAsked)
        BY <2>2, <1>1 DEF PebbleInv
      <3> QED
        BY <3>1, <1>1, StillSafe
    <2> QED
      BY <2>1, <2>2
  <1>4. NewestSurvives'
    BY <1>1 DEF PebbleInv, NewestSurvives
  <1> QED
    BY <1>1, <1>2, <1>3, <1>4 DEF PebbleInv

\* The commit of a safe transaction loses no newest version.
LEMMA Commits ==
    ASSUME PebbleInv, NEW w \in Writers, Commit(w), UNCHANGED ksBackend
    PROVE  PebbleInv'
  <1> DEFINE txn == ksTxn[w]
  <1>1. /\ ksRaw' = (ksRaw \ txn.del) \cup txn.put /\ ksSeen' = ksSeen \cup txn.put
        /\ ksTxn' = [ksTxn EXCEPT ![w] = NoTxn] /\ UNCHANGED ksAsked
    BY DEF Commit, Write
  <1>2. txn \in Txn /\ NoTxn \in Txn
    BY DEF PebbleInv, NoTxn, Txn
  <1>3. ksTxn' \in [Writers -> Txn] /\ ksRaw' \subseteq ksSeen' /\ ksSeen' \subseteq StoreEvents
    <2>1. txn.put \subseteq StoreEvents
      BY <1>2 DEF Txn
    <2> QED
      BY <1>1, <1>2, <2>1 DEF PebbleInv
  <1>4. ASSUME NEW v \in Writers PROVE TxnIsSafe(ksTxn'[v], ksSeen', ksAsked')
    <2>1. CASE v = w
      BY <2>1, <1>1 DEF PebbleInv, TxnIsSafe, NoTxn
    <2>2. CASE v # w
      <3>1. ksTxn'[v] = ksTxn[v] /\ TxnIsSafe(ksTxn[v], ksSeen, ksAsked)
        BY <2>2, <1>1 DEF PebbleInv
      <3>2. ksSeen \subseteq ksSeen' /\ ksAsked \subseteq ksAsked'
        BY <1>1
      <3> QED
        BY <3>1, <3>2, StillSafe
    <2> QED
      BY <2>1, <2>2
  <1>5. NewestSurvives'
    <2> SUFFICES ASSUME NEW e \in ksSeen' \cap Replaced,
                        \A x \in ksSeen' \cap Versions(e) : x = e \/ IsOlder(x, e)
                 PROVE  e \in ksRaw' \cup ksAsked'
      BY DEF NewestSurvives
    <2>1. CASE e \in txn.put
      BY <2>1, <1>1
    <2>2. CASE e \in ksRaw /\ e \notin txn.del
      BY <2>2, <1>1
    <2>3. CASE e \in txn.del
      <3>1. e \in ksAsked \/ Superseded(e, ksSeen')
        BY <2>3, <1>1 DEF PebbleInv, TxnIsSafe
      <3>2. ~Superseded(e, ksSeen')
        BY DEF Superseded
      <3> QED
        BY <3>1, <3>2, <1>1
    <2>4. CASE e \notin txn.put
      <3>1. e \in ksRaw \cup ksAsked
        BY <2>4, <1>1 DEF PebbleInv, NewestSurvives
      <3> QED
        BY <3>1, <2>2, <2>3, <1>1
    <2> QED
      BY <2>1, <2>4
  <1> QED
    BY <1>3, <1>4, <1>5 DEF PebbleInv

\* Every step of pebble keeps the invariant.
LEMMA PebbleStep ==
    ASSUME PebbleInv, [KVStoreNext]_ksVars
    PROVE  PebbleInv'
  <1>1. CASE UNCHANGED ksVars
    BY <1>1 DEF ksVars, PebbleInv, NewestSurvives
  <1>2. ASSUME NEW w \in Writers, NEW e \in StoreEvents, UNCHANGED ksBackend, PebbleSaveEvent(w, e)
        PROVE  PebbleInv'
    <2>1. Saving(e, ksRaw) \in Txn /\ \A asked : TxnIsSafe(Saving(e, ksRaw), ksSeen, asked)
      BY DEF Saving, Txn, TxnIsSafe
    <2> QED
      BY <1>2, <2>1, Begins DEF PebbleSaveEvent
  <1>3. ASSUME NEW w \in Writers, NEW e \in StoreEvents, UNCHANGED ksBackend, PebbleReplaceEvent(w, e)
        PROVE  PebbleInv'
    <2> DEFINE txn == Replacement(e, VersionsByKey(e, ksRaw))
    <2>1. e \in Replaced /\ Begin(w, txn) /\ UNCHANGED ksAsked
      BY <1>3 DEF PebbleReplaceEvent
    <2>2. VersionsByKey(e, ksRaw) \subseteq ksRaw \cap Versions(e)
      BY <2>1, KeyFindsVersions DEF PebbleInv
    <2>3. txn \in Txn /\ TxnIsSafe(txn, ksRaw, ksAsked)
      BY <2>1, <2>2, ReplacementIsSafe DEF PebbleInv
    <2>4. TxnIsSafe(txn, ksSeen, ksAsked')
      BY <2>1, <2>3, StillSafe DEF PebbleInv
    <2> HIDE DEF txn
    <2> QED
      BY <1>3, <2>1, <2>3, <2>4, Begins
  <1>4. ASSUME NEW w \in Writers, NEW e \in StoreEvents, UNCHANGED ksBackend, PebbleDeleteEvent(w, e)
        PROVE  PebbleInv'
    <2>1. Begin(w, Deleting(e, ksRaw)) /\ ksAsked' = ksAsked \cup {e}
      BY <1>4 DEF PebbleDeleteEvent
    <2>2. Deleting(e, ksRaw) \in Txn /\ TxnIsSafe(Deleting(e, ksRaw), ksSeen, ksAsked')
      BY <2>1 DEF Deleting, Txn, TxnIsSafe
    <2> QED
      BY <1>4, <2>1, <2>2, Begins
  <1>5. ASSUME NEW w \in Writers, UNCHANGED ksBackend, CommitFails(w)
        PROVE  PebbleInv'
    <2>1. ksTxn' = [ksTxn EXCEPT ![w] = NoTxn] /\ UNCHANGED <<ksRaw, ksSeen, ksAsked>>
      BY <1>5 DEF CommitFails
    <2>2. NoTxn \in Txn /\ TxnIsSafe(NoTxn, ksSeen, ksAsked)
      BY DEF NoTxn, Txn, TxnIsSafe
    <2> QED
      BY <1>5, <2>1, <2>2 DEF PebbleInv, NewestSurvives
  <1> QED
    BY <1>1, <1>2, <1>3, <1>4, <1>5, Commits
       DEF PebbleInv, KVStoreNext, BoltSaveEvent, BoltReplaceEvent, BoltDeleteEvent,
           BadgerSaveEvent, BadgerReplaceEvent, BadgerDeleteEvent

\* In pebble a replacement reads a snapshot and commits later; however many of
\* them overlap, with deletions and failed commits, the newest version of all
\* that were stored is there unless somebody asked to delete it.
THEOREM PebbleReplacementsAreSafe ==
    ASSUME WriteBackends = {"pebble"}
    PROVE  KVStoreSpec => []ReplacementsAreSafe
  <1>1. KVStoreInit => PebbleInv
    BY DEF KVStoreInit, PebbleInv, NewestSurvives, NoTxn, Txn, TxnIsSafe
  <1>2. PebbleInv /\ [KVStoreNext]_ksVars => PebbleInv'
    BY PebbleStep
  <1>3. PebbleInv => ReplacementsAreSafe
    BY DEF PebbleInv, ReplacementsAreSafe, BoltKeepsOneVersion
  <1> QED
    BY <1>1, <1>2, <1>3, PTL DEF KVStoreSpec

-----------------------------------------------------------------------------
(* The write pipeline of pebbledb2: its inductive invariant *)

\* What can be asked of the writer.
Requests ==
    {r \in [caller : Callers, op : {"save", "replace", "delete"}, ev : PipelineEvents] :
        r.op = "delete" \/ r.op = OpFor(r.ev)}

CallerRec == [pc : {"idle", "lock", "send", "wait"}, op : {"save", "replace", "delete"},
              ev : PipelineEvents \cup {0}, answer : {"none", "no", "closed", "stored", "error"}]

CallerTypes == ppCaller \in [Callers -> CallerRec]

CallersAsk ==
    \A c \in Callers : ppCaller[c].pc \in {"lock", "send"} =>
        [caller |-> c, op |-> ppCaller[c].op, ev |-> ppCaller[c].ev] \in Requests

Fields(b) ==
    [raw |-> b.raw, keys |-> b.keys, deltas |-> b.deltas, sketches |-> b.sketches, seenSave |-> b.seenSave,
     seenDel |-> b.seenDel, pending |-> b.pending, ledger |-> b.ledger, known |-> b.known]

BatchIs(b) ==
    /\ b = Fields(b)
    /\ b.raw \subseteq PipelineEvents /\ b.seenSave \subseteq PipelineEvents
    /\ b.deltas \in [CounterKeys -> Int]

PipelineTypes ==
    /\ ppRaw \subseteq PipelineEvents /\ ppCounters \in [CounterKeys -> Int]
    /\ CallerTypes /\ CallersAsk
    /\ ppQueue \in Seq(Requests) /\ ppGroup \in Seq(Requests)
    /\ ppWriter \in {"receive", "collect", "decide", "ended"}
    /\ BatchIs(ppBatch)

Asks(s, c) == \E i \in DOMAIN s : s[i].caller = c

\* A caller that waits without an answer has its request somewhere.
HasItsRequest(c) ==
    ppCaller[c].pc = "wait" /\ ppCaller[c].answer = "none" =>
        Asks(ppQueue, c) \/ Asks(ppGroup, c) \/ c \in ppBatch.pending

\* Who may send has seen that the store is not closed, and the channel is open; the
\* writer has a group and callers to answer only while it is at work on them.
ChannelInv ==
    /\ ~ppOpen => ppClosed
    /\ ppCloser = "locking" => ppClosed
    /\ \A c \in Callers : ppCaller[c].pc = "send" => ppOpen
    /\ ppWriter \in {"receive", "ended"} => ppGroup = <<>>
    /\ ppWriter # "decide" => ppBatch.pending = {}

RequestsInv == ChannelInv /\ \A c \in Callers : HasItsRequest(c)

\* A counter that counts no addressable event without a d tag.
Good(k) == \A e \in PipelineEvents : k \in AllCounters(e) => HasItsD(e)

Counted(k, S) == Cardinality({e \in S : k \in AllCounters(e)})

\* The counters of the database and the deltas make the numbers of S.
Sums(deltas, S) == \A k \in CounterKeys : Good(k) => ppCounters[k] + deltas[k] = Counted(k, S)

\* A version that a later one finds.
FoundAgain(e) == OpFor(e) = "replace" /\ HasItsD(e)

OneIn(S) == \A e, x \in S : AreVersions(e, x) => {x, e} \cap ppSpared # {}

DataInv ==
    /\ ppKeys = Entries("pebble2", ppRaw)
    /\ Sums([k \in CounterKeys |-> 0], ppRaw)
    /\ OneIn(ppRaw)

\* The keys and the deltas are those of the events that the batch would leave.
BatchIsExact == ppBatch.keys = Entries("pebble2", ppBatch.raw) /\ Sums(ppBatch.deltas, ppBatch.raw)

\* It would leave what the database has and the group wrote, and of that all but what
\* the group has marked as deleted.
BatchReaches ==
    /\ ppBatch.raw \subseteq ppRaw \cup ppBatch.seenSave /\ ppBatch.known \subseteq ppRaw
    /\ (ppRaw \cup ppBatch.seenSave) \ ppBatch.seenDel \subseteq ppBatch.raw

\* The ids of the saves still to be decided have been looked up.
KnownInv ==
    \A i \in DOMAIN ppGroup :
        ppGroup[i].op = "save" /\ ppGroup[i].ev \in ppRaw => ppGroup[i].ev \in ppBatch.known

\* An entry of the ledger names every version that the batch would leave, or it is one
\* that a deletion has hidden, and a newest that is not older than any of the database
\* or of the group.
LedgerEntry(key, st) ==
    /\ st.old \cup st.newest \subseteq ppRaw \cup ppBatch.seenSave
    /\ \A x \in ppBatch.raw : FoundAgain(x) /\ ReplaceKey(x) = key => x \in st.old \cup st.newest \cup ppSpared
    /\ \A y \in ppRaw : FoundAgain(y) /\ ReplaceKey(y) = key => \E n \in st.newest : CreatedAt[n] >= CreatedAt[y]
    /\ \A y \in ppBatch.seenSave :
         OpFor(y) = "replace" /\ ReplaceKey(y) = key => \E n \in st.newest : CreatedAt[n] >= CreatedAt[y]

LedgersInv ==
    /\ \A key \in DOMAIN ppBatch.ledger : LedgerEntry(key, ppBatch.ledger[key])
    /\ \A y \in ppBatch.seenSave : OpFor(y) = "replace" => ReplaceKey(y) \in DOMAIN ppBatch.ledger

BatchInv == ppWriter = "decide" => BatchIsExact /\ BatchReaches /\ KnownInv /\ OneIn(ppBatch.raw) /\ LedgersInv

PipelineInv == PipelineTypes /\ RequestsInv /\ DataInv /\ BatchInv

-----------------------------------------------------------------------------
(* The write pipeline of pebbledb2: counters and keys *)

\* A finite set of numbered events has a newest one.
LEMMA HasNewest ==
    ASSUME NEW S \in SUBSET Events, S # {}
    PROVE  NewestOf(S) \in S /\ \A y \in S : CreatedAt[y] <= CreatedAt[NewestOf(S)]
  <1> DEFINE Newest(T, x) == \A y \in T : CreatedAt[y] < CreatedAt[x] \/ (CreatedAt[y] = CreatedAt[x] /\ y <= x)
             Bad == {T \in SUBSET S : T # {} /\ \A x \in T : ~Newest(T, x)}
             Sizes == {Cardinality(T) : T \in Bad}
  <1>1. IsFiniteSet(S) /\ \A T \in SUBSET S : IsFiniteSet(T) /\ Cardinality(T) \in Nat
    <2>1. IsFiniteSet(S)
      BY EventAssumption, FS_Subset
    <2> QED
      BY <2>1, FS_Subset, FS_CardinalityType
  <1>2. \A e \in S : e \in Nat /\ CreatedAt[e] \in Nat
    BY EventAssumption
  <1>3. Bad = {}
    <2>1. SUFFICES ASSUME Bad # {} PROVE FALSE
      OBVIOUS
    <2>2. PICK T \in Bad : \A U \in Bad : Cardinality(T) <= Cardinality(U)
      <3> DEFINE R == OpToRel(<, Nat)
      <3>1. \A x, y \in Nat : x < y => <<x, y>> \in R
        BY DEF OpToRel
      <3>2. IsWellFoundedOn(R, Nat)
        BY NatLessThanWellFounded
      <3>3. Sizes \subseteq Nat /\ Sizes # {}
        BY <1>1, <2>1
      <3> HIDE DEF R, Sizes
      <3>4. PICK n \in Sizes : \A m \in Sizes : ~(<<m, n>> \in R)
        BY <3>2, <3>3, WFMin
      <3>5. \A m \in Sizes : n <= m
        <4>1. \A m \in Sizes : ~(m < n)
          BY <3>1, <3>3, <3>4
        <4> QED
          BY <3>3, <4>1
      <3> QED
        BY <3>5 DEF Sizes
    <2>3. PICK x \in T : TRUE
      BY <2>2
    <2> DEFINE U == T \ {x}
    <2>4. Cardinality(U) < Cardinality(T)
      <3>1. Cardinality(U) = Cardinality(T) - 1
        BY <1>1, <2>2, <2>3, FS_RemoveElement
      <3>2. Cardinality(T) \in Nat
        BY <1>1, <2>2
      <3> HIDE DEF U
      <3> QED
        BY <3>1, <3>2
    <2>5. U \notin Bad
      <3>1. Cardinality(U) \in Nat /\ Cardinality(T) \in Nat
        BY <1>1, <2>2
      <3>2. U \in Bad => Cardinality(T) <= Cardinality(U)
        BY <2>2
      <3> HIDE DEF U, Bad
      <3> QED
        BY <2>4, <3>1, <3>2
    <2>6. CASE U = {}
      <3>1. T = {x}
        BY <2>3, <2>6
      <3>2. Newest(T, x)
        BY <1>2, <2>2, <3>1
      <3> QED
        BY <2>2, <2>3, <3>2
    <2>7. CASE U # {}
      <3>1. PICK z \in U : Newest(U, z)
        BY <2>2, <2>5, <2>7
      <3>2. x \in S /\ z \in S /\ U \subseteq S /\ T = U \cup {x}
        BY <2>2, <2>3, <3>1
      <3>3. Newest(T, x) \/ Newest(T, z)
        <4>1. CASE CreatedAt[x] < CreatedAt[z] \/ (CreatedAt[x] = CreatedAt[z] /\ x <= z)
          BY <3>1, <3>2, <4>1
        <4>2. CASE ~(CreatedAt[x] < CreatedAt[z] \/ (CreatedAt[x] = CreatedAt[z] /\ x <= z))
          <5>1. CreatedAt[z] < CreatedAt[x] \/ (CreatedAt[z] = CreatedAt[x] /\ z <= x)
            BY <1>2, <3>2, <4>2
          <5>2. ASSUME NEW y \in U PROVE CreatedAt[y] < CreatedAt[x] \/ (CreatedAt[y] = CreatedAt[x] /\ y <= x)
            <6>1. CreatedAt[y] < CreatedAt[z] \/ (CreatedAt[y] = CreatedAt[z] /\ y <= z)
              BY <3>1
            <6>2. y \in Nat /\ x \in Nat /\ z \in Nat /\ CreatedAt[y] \in Nat /\ CreatedAt[x] \in Nat /\ CreatedAt[z] \in Nat
              BY <1>2, <3>2
            <6> QED
              BY <5>1, <6>1, <6>2
          <5>3. x \in Nat /\ CreatedAt[x] \in Nat
            BY <1>2, <3>2
          <5> QED
            BY <3>2, <5>2, <5>3
        <4> QED
          BY <4>1, <4>2
      <3> QED
        BY <2>2, <2>3, <3>1, <3>2, <3>3
    <2> QED
      BY <2>6, <2>7
  <1>4. \E x \in S : Newest(S, x)
    BY <1>3
  <1>5. NewestOf(S) \in S /\ Newest(S, NewestOf(S))
    BY <1>4 DEF NewestOf
  <1>6. ASSUME NEW y \in S PROVE CreatedAt[y] <= CreatedAt[NewestOf(S)]
    <2>1. CreatedAt[y] \in Nat /\ CreatedAt[NewestOf(S)] \in Nat
      BY <1>2, <1>5
    <2>2. CreatedAt[y] < CreatedAt[NewestOf(S)] \/ CreatedAt[y] = CreatedAt[NewestOf(S)]
      BY <1>5
    <2> QED
      BY <2>1, <2>2
  <1> QED
    BY <1>5, <1>6

\* A set that gains an event counts one more of it.
LEMMA CountedAdds ==
    ASSUME NEW S \in SUBSET PipelineEvents, NEW e \in PipelineEvents, NEW k, e \notin S
    PROVE  /\ Counted(k, S) \in Nat
           /\ Counted(k, S \cup {e}) = IF k \in AllCounters(e) THEN Counted(k, S) + 1 ELSE Counted(k, S)
  <1> DEFINE T == {x \in S : k \in AllCounters(x)}
  <1>1. IsFiniteSet(T) /\ Cardinality(T) \in Nat
    BY EventAssumption, PipelineAssumption, FS_Subset, FS_CardinalityType
  <1>2. CASE k \in AllCounters(e)
    <2>1. {x \in S \cup {e} : k \in AllCounters(x)} = T \cup {e}
      BY <1>2
    <2>2. Cardinality(T \cup {e}) = Cardinality(T) + 1
      BY <1>1, FS_AddElement
    <2> QED
      BY <1>1, <1>2, <2>1, <2>2 DEF Counted
  <1>3. CASE k \notin AllCounters(e)
    <2>1. {x \in S \cup {e} : k \in AllCounters(x)} = T
      BY <1>3
    <2> QED
      BY <1>1, <1>3, <2>1 DEF Counted
  <1> QED
    BY <1>2, <1>3

\* A set that loses events of its own counts so many less.
LEMMA CountedLoses ==
    ASSUME NEW S \in SUBSET PipelineEvents, NEW G \in SUBSET S, NEW k
    PROVE  /\ Counted(k, S) \in Nat /\ Counted(k, G) \in Nat
           /\ Counted(k, S \ G) = Counted(k, S) - Counted(k, G)
  <1> DEFINE T == {x \in S : k \in AllCounters(x)}
             U == {x \in G : k \in AllCounters(x)}
  <1>1. IsFiniteSet(T) /\ Cardinality(T) \in Nat /\ IsFiniteSet(U) /\ Cardinality(U) \in Nat
    BY EventAssumption, PipelineAssumption, FS_Subset, FS_CardinalityType
  <1>2. {x \in S \ G : k \in AllCounters(x)} = T \ U /\ T \cap U = U
    OBVIOUS
  <1>3. Cardinality(T \ U) = Cardinality(T) - Cardinality(T \cap U)
    BY <1>1, FS_Difference
  <1> QED
    BY <1>1, <1>2, <1>3 DEF Counted

\* The keys of two sets are those of one and those of the other.
LEMMA EntriesAdd ==
    ASSUME NEW b, NEW S, NEW G
    PROVE  Entries(b, S \cup G) = Entries(b, S) \cup Entries(b, G)
  <1>1. ASSUME NEW p PROVE p \in Entries(b, S \cup G) <=> p \in Entries(b, S) \/ p \in Entries(b, G)
    BY EntryOf
  <1> QED
    BY <1>1

\* A key belongs to one event, so the keys of what is left are those that are left.
LEMMA EntriesRemove ==
    ASSUME NEW b, NEW S, NEW G
    PROVE  Entries(b, S \ G) = Entries(b, S) \ Entries(b, G)
  <1>1. ASSUME NEW p PROVE p \in Entries(b, S \ G) <=> p \in Entries(b, S) /\ p \notin Entries(b, G)
    <2>1. \A T : p \in Entries(b, T) <=> \E e \in T : \E k \in IndexKeys(b, e) : p = <<k, e>>
      BY EntryOf
    <2> QED
      BY <2>1
  <1> QED
    BY <1>1

-----------------------------------------------------------------------------
(* The write pipeline of pebbledb2: batches *)

\* What the write of an event does to the batch.
Puts(p, b, e) ==
    /\ BatchIs(p)
    /\ p.raw = b.raw \cup {e} /\ p.keys = b.keys \cup Entries("pebble2", {e})
    /\ p.seenSave = b.seenSave /\ p.seenDel = b.seenDel /\ p.pending = b.pending
    /\ p.ledger = b.ledger /\ p.known = b.known
    /\ p.deltas = Bump(b.deltas, e, 1)
    /\ \A k \in CounterKeys : p.deltas[k] = IF k \in AllCounters(e) THEN b.deltas[k] + 1 ELSE b.deltas[k]

\* The write of an event is that.
LEMMA PutIs ==
    ASSUME NEW b, BatchIs(b), NEW e \in PipelineEvents, NEW p, p = Put(b, e)
    PROVE  Puts(p, b, e)
  <1> DEFINE sk == {<<t, Author[e]>> : t \in Targets[e]}
  <1>1. p = [b EXCEPT !.raw = b.raw \cup {e}, !.keys = b.keys \cup Entries("pebble2", {e}),
                      !.sketches = b.sketches \cup sk, !.deltas = Bump(b.deltas, e, 1)]
    BY DEF Put, BatchIs, Fields
  <1>2. p = [raw |-> b.raw \cup {e}, keys |-> b.keys \cup Entries("pebble2", {e}), deltas |-> Bump(b.deltas, e, 1),
             sketches |-> b.sketches \cup sk, seenSave |-> b.seenSave,
             seenDel |-> b.seenDel, pending |-> b.pending, ledger |-> b.ledger, known |-> b.known]
    BY <1>1 DEF BatchIs, Fields
  <1>3. /\ p.raw = b.raw \cup {e} /\ p.keys = b.keys \cup Entries("pebble2", {e})
        /\ p.seenSave = b.seenSave /\ p.seenDel = b.seenDel /\ p.pending = b.pending
        /\ p.ledger = b.ledger /\ p.known = b.known /\ p.deltas = Bump(b.deltas, e, 1)
        /\ p.sketches = b.sketches \cup sk
    BY <1>2
  <1>4. p = Fields(p)
    BY <1>2, <1>3 DEF Fields
  <1>5. b.deltas \in [CounterKeys -> Int]
    BY DEF BatchIs, Fields
  <1>6. /\ p.deltas \in [CounterKeys -> Int]
        /\ \A k \in CounterKeys : p.deltas[k] = IF k \in AllCounters(e) THEN b.deltas[k] + 1 ELSE b.deltas[k]
    BY <1>3, <1>5 DEF Bump
  <1>7. p.raw \subseteq PipelineEvents /\ p.seenSave \subseteq PipelineEvents
    BY <1>3 DEF BatchIs, Fields
  <1>8. BatchIs(p)
    BY <1>4, <1>6, <1>7 DEF BatchIs, Fields
  <1> QED
    BY <1>3, <1>6, <1>8 DEF Puts

\* What a deletion does to the batch.
Drops(p, b, e) ==
    /\ BatchIs(p)
    /\ p.raw = b.raw \ {e} /\ p.keys = b.keys \ Entries("pebble2", {e})
    /\ p.seenSave = b.seenSave /\ p.seenDel = b.seenDel /\ p.pending = b.pending
    /\ p.ledger = b.ledger /\ p.known = b.known
    /\ \A k \in CounterKeys : p.deltas[k] = IF k \in AllCounters(e) THEN b.deltas[k] - 1 ELSE b.deltas[k]

\* The deletion of one event is that.
LEMMA DropIs ==
    ASSUME NEW b, BatchIs(b), NEW e \in PipelineEvents, NEW p, p = Drop(b, e)
    PROVE  Drops(p, b, e)
  <1>1. p = [b EXCEPT !.raw = b.raw \ {e}, !.keys = b.keys \ Entries("pebble2", {e}),
                      !.deltas = Bump(b.deltas, e, -1)]
    BY DEF Drop, BatchIs, Fields
  <1>2. p = [raw |-> b.raw \ {e}, keys |-> b.keys \ Entries("pebble2", {e}), deltas |-> Bump(b.deltas, e, -1),
             sketches |-> b.sketches, seenSave |-> b.seenSave,
             seenDel |-> b.seenDel, pending |-> b.pending, ledger |-> b.ledger, known |-> b.known]
    BY <1>1 DEF BatchIs, Fields
  <1>3. /\ p.raw = b.raw \ {e} /\ p.keys = b.keys \ Entries("pebble2", {e})
        /\ p.seenSave = b.seenSave /\ p.seenDel = b.seenDel /\ p.pending = b.pending
        /\ p.ledger = b.ledger /\ p.known = b.known /\ p.deltas = Bump(b.deltas, e, -1)
        /\ p.sketches = b.sketches
    BY <1>2
  <1>4. p = Fields(p)
    BY <1>2, <1>3 DEF Fields
  <1>5. b.deltas \in [CounterKeys -> Int]
    BY DEF BatchIs, Fields
  <1>6. /\ p.deltas \in [CounterKeys -> Int]
        /\ \A k \in CounterKeys : p.deltas[k] = IF k \in AllCounters(e) THEN b.deltas[k] - 1 ELSE b.deltas[k]
    BY <1>3, <1>5 DEF Bump
  <1>7. p.raw \subseteq PipelineEvents /\ p.seenSave \subseteq PipelineEvents
    BY <1>3 DEF BatchIs, Fields
  <1>8. BatchIs(p)
    BY <1>4, <1>6, <1>7 DEF BatchIs, Fields
  <1> QED
    BY <1>3, <1>6, <1>8 DEF Drops

\* What the deletions of a replacement do to the batch.
DropsAll(p, b, S) ==
    /\ BatchIs(p)
    /\ p.raw = b.raw \ S /\ p.keys = b.keys \ Entries("pebble2", S)
    /\ p.seenSave = b.seenSave /\ p.seenDel = b.seenDel
    /\ p.pending = b.pending
    /\ p.ledger = b.ledger /\ p.known = b.known
    /\ \A k \in CounterKeys : p.deltas[k] = b.deltas[k] - Counted(k, S)

\* The deletion of the prior versions is that.
LEMMA DropAllIs ==
    ASSUME NEW b, BatchIs(b), NEW S \in SUBSET PipelineEvents, NEW p, p = DropAll(b, S)
    PROVE  DropsAll(p, b, S)
  <1> DEFINE less == [k \in CounterKeys |-> b.deltas[k] - Counted(k, S)]
  <1>1. p = [b EXCEPT !.raw = b.raw \ S, !.keys = b.keys \ Entries("pebble2", S), !.deltas = less]
    BY DEF DropAll, BatchIs, Counted, Fields
  <1>5. b.deltas \in [CounterKeys -> Int]
    BY DEF BatchIs, Fields
  <1>6. less \in [CounterKeys -> Int]
    <2>1. \A k : Counted(k, S) \in Nat
      BY CountedLoses
    <2> QED
      BY <1>5, <2>1
  <1> HIDE DEF less
  <1>2. p = [raw |-> b.raw \ S, keys |-> b.keys \ Entries("pebble2", S), deltas |-> less,
             sketches |-> b.sketches, seenSave |-> b.seenSave,
             seenDel |-> b.seenDel, pending |-> b.pending, ledger |-> b.ledger, known |-> b.known]
    BY <1>1 DEF BatchIs, Fields
  <1>3. /\ p.raw = b.raw \ S /\ p.keys = b.keys \ Entries("pebble2", S)
        /\ p.seenSave = b.seenSave /\ p.seenDel = b.seenDel /\ p.pending = b.pending
        /\ p.ledger = b.ledger /\ p.known = b.known /\ p.deltas = less
        /\ p.sketches = b.sketches
    BY <1>2
  <1>4. p = Fields(p)
    BY <1>2, <1>3 DEF Fields
  <1>7. p.raw \subseteq PipelineEvents /\ p.seenSave \subseteq PipelineEvents
    BY <1>3 DEF BatchIs, Fields
  <1>8. BatchIs(p)
    BY <1>3, <1>4, <1>6, <1>7 DEF BatchIs, Fields
  <1>9. \A k \in CounterKeys : p.deltas[k] = b.deltas[k] - Counted(k, S)
    BY <1>3 DEF less
  <1> QED
    BY <1>3, <1>8, <1>9 DEF DropsAll

Noted(b, led, del, save, pend) ==
    [b EXCEPT !.ledger = led, !.seenDel = del, !.seenSave = save, !.pending = pend]

\* The bookkeeping of a group leaves the events of its batch alone.
LEMMA NotesAre ==
    ASSUME NEW b, BatchIs(b), NEW save \in SUBSET PipelineEvents, NEW del, NEW pend, NEW led
    PROVE  LET p == Noted(b, led, del, save, pend) IN
           /\ BatchIs(p)
           /\ p.raw = b.raw /\ p.keys = b.keys /\ p.deltas = b.deltas /\ p.known = b.known
           /\ p.seenSave = save /\ p.seenDel = del /\ p.pending = pend /\ p.ledger = led
  <1>0. PICK p : p = Noted(b, led, del, save, pend)
    OBVIOUS
  <1>1. p = [raw |-> b.raw, keys |-> b.keys, deltas |-> b.deltas,
             sketches |-> b.sketches, seenSave |-> save,
             seenDel |-> del, pending |-> pend, ledger |-> led, known |-> b.known]
    BY <1>0 DEF BatchIs, Noted, Fields
  <1>2. /\ p.raw = b.raw /\ p.keys = b.keys /\ p.deltas = b.deltas /\ p.known = b.known
        /\ p.seenSave = save /\ p.seenDel = del /\ p.pending = pend /\ p.ledger = led
        /\ p.sketches = b.sketches
    BY <1>1
  <1>3. p = Fields(p)
    BY <1>1, <1>2 DEF Fields
  <1>4. p.raw \subseteq PipelineEvents /\ p.seenSave \subseteq PipelineEvents /\ p.deltas \in [CounterKeys -> Int]
    BY <1>2 DEF BatchIs, Fields
  <1>5. BatchIs(p)
    BY <1>3, <1>4 DEF BatchIs, Fields
  <1> QED
    BY <1>0, <1>2, <1>5

-----------------------------------------------------------------------------
(* The write pipeline of pebbledb2: what a decision does *)

\* What every decision of the writer about a request does.
Decided(r) ==
    /\ ppWriter = "decide" /\ ppGroup # <<>> /\ r = Head(ppGroup) /\ ppGroup' = Tail(ppGroup)
    /\ DecideKeeps /\ BatchIs(ppBatch') /\ ppBatch'.known = ppBatch.known
    /\ \/ ppCaller' = Answer(ppCaller, r.caller, "no") /\ ppBatch'.pending = ppBatch.pending
       \/ ppCaller' = ppCaller /\ ppBatch'.pending = ppBatch.pending \cup {r.caller}

SameEvents == ppBatch'.raw = ppBatch.raw /\ ppBatch'.keys = ppBatch.keys /\ ppBatch'.deltas = ppBatch.deltas

\* DecideSave: the id came before, in the group or in the database, or the event is written.
LEMMA SaveIs ==
    ASSUME PipelineTypes, DecideSave
    PROVE  \E r \in Requests :
             /\ Decided(r) /\ r.op = "save" /\ UNCHANGED ppSpared
             /\ ppBatch'.seenSave = ppBatch.seenSave \cup {r.ev}
             /\ ppBatch'.seenDel = ppBatch.seenDel /\ ppBatch'.ledger = ppBatch.ledger
             /\ \/ r.ev \in ppBatch.seenSave \cup ppBatch.known /\ SameEvents
                \/ /\ r.ev \notin ppBatch.seenSave \cup ppBatch.known
                   /\ ppBatch'.raw = ppBatch.raw \cup {r.ev}
                   /\ ppBatch'.keys = ppBatch.keys \cup Entries("pebble2", {r.ev})
                   /\ \A k \in CounterKeys : ppBatch'.deltas[k] =
                        IF k \in AllCounters(r.ev) THEN ppBatch.deltas[k] + 1 ELSE ppBatch.deltas[k]
  <1>0. PICK r : r = Head(ppGroup)
    OBVIOUS
  <1>00. PICK e : e = r.ev
    OBVIOUS
  <1>a. PICK b : b = [ppBatch EXCEPT !.seenSave = ppBatch.seenSave \cup {e}]
    OBVIOUS
  <1>1. ppWriter = "decide" /\ ppGroup # <<>> /\ r.op = "save" /\ ppGroup' = Tail(ppGroup) /\ DecideKeeps
        /\ UNCHANGED ppSpared
    BY <1>0 DEF DecideSave
  <1>2. r \in Requests /\ e \in PipelineEvents
    BY <1>0, <1>00, <1>1 DEF PipelineTypes, Requests
  <1>3. BatchIs(ppBatch) /\ ppBatch.seenSave \subseteq PipelineEvents
    BY DEF PipelineTypes, BatchIs, Fields
  <1>4. b = Noted(ppBatch, ppBatch.ledger, ppBatch.seenDel, ppBatch.seenSave \cup {e}, ppBatch.pending)
    BY <1>3, <1>a DEF BatchIs, Noted, Fields
  <1>5. /\ BatchIs(b)
        /\ b.raw = ppBatch.raw /\ b.keys = ppBatch.keys /\ b.deltas = ppBatch.deltas /\ b.known = ppBatch.known
        /\ b.seenSave = ppBatch.seenSave \cup {e} /\ b.seenDel = ppBatch.seenDel /\ b.pending = ppBatch.pending
        /\ b.ledger = ppBatch.ledger
    BY <1>2, <1>3, <1>4, NotesAre
  <1>6. IF e \in ppBatch.seenSave \cup ppBatch.known THEN Refuse(r.caller, b) ELSE Pend(r.caller, Put(b, e))
    <2>1. [ppBatch EXCEPT !.seenSave = @ \cup {e}] = b
      BY <1>3, <1>a DEF BatchIs, Fields
    <2> QED
      BY <1>0, <1>00, <2>1 DEF DecideSave
  <1>7. CASE e \in ppBatch.seenSave \cup ppBatch.known
    <2>1. ppBatch' = b /\ ppCaller' = Answer(ppCaller, r.caller, "no")
      BY <1>6, <1>7 DEF Refuse
    <2>2. Decided(r)
      BY <1>0, <1>1, <1>5, <2>1 DEF Decided
    <2> QED
      BY <1>00, <1>1, <1>2, <1>5, <1>7, <2>1, <2>2 DEF SameEvents
  <1>8. CASE e \notin ppBatch.seenSave \cup ppBatch.known
    <2>0. PICK p : p = Put(b, e)
      OBVIOUS
    <2>1. ppBatch' = [p EXCEPT !.pending = p.pending \cup {r.caller}] /\ ppCaller' = ppCaller
      BY <1>6, <1>8, <2>0 DEF Pend
    <2>2. /\ BatchIs(p) /\ p.raw = b.raw \cup {e} /\ p.keys = b.keys \cup Entries("pebble2", {e})
          /\ p.seenSave = b.seenSave /\ p.seenDel = b.seenDel /\ p.pending = b.pending
          /\ p.ledger = b.ledger /\ p.known = b.known
          /\ \A k \in CounterKeys : p.deltas[k] = IF k \in AllCounters(e) THEN b.deltas[k] + 1 ELSE b.deltas[k]
      <3>1. BatchIs(b)
        BY <1>5
      <3>2. Puts(p, b, e)
        BY <1>2, <2>0, <3>1, PutIs
      <3> QED
        BY <3>2 DEF Puts
    <2>3. p.seenSave \in SUBSET PipelineEvents
      BY <2>2 DEF BatchIs, Fields
    <2>4. ppBatch' = Noted(p, p.ledger, p.seenDel, p.seenSave, p.pending \cup {r.caller})
      BY <2>1, <2>2 DEF BatchIs, Noted, Fields
    <2>5. /\ BatchIs(ppBatch')
          /\ ppBatch'.raw = p.raw /\ ppBatch'.keys = p.keys /\ ppBatch'.deltas = p.deltas /\ ppBatch'.known = p.known
          /\ ppBatch'.seenSave = p.seenSave /\ ppBatch'.seenDel = p.seenDel
          /\ ppBatch'.pending = p.pending \cup {r.caller} /\ ppBatch'.ledger = p.ledger
      <3>1. BatchIs(p)
        BY <2>2
      <3> QED
        BY <2>3, <2>4, <3>1, NotesAre
    <2>6. Decided(r)
      BY <1>0, <1>1, <1>5, <2>1, <2>2, <2>5 DEF Decided
    <2>7. \A k \in CounterKeys : ppBatch'.deltas[k] =
             IF k \in AllCounters(e) THEN ppBatch.deltas[k] + 1 ELSE ppBatch.deltas[k]
      BY <1>5, <2>2, <2>5
    <2> QED
      BY <1>00, <1>1, <1>2, <1>5, <1>8, <2>2, <2>5, <2>6, <2>7
  <1> QED
    BY <1>7, <1>8

\* DecideDelete: nothing to delete, or not any more, or the event goes.
LEMMA DeleteIs ==
    ASSUME PipelineTypes, DecideDelete
    PROVE  \E r \in Requests :
             /\ Decided(r) /\ r.op = "delete" /\ UNCHANGED ppSpared
             /\ ppBatch'.seenSave = ppBatch.seenSave
             /\ ppBatch'.seenDel = ppBatch.seenDel \cup {r.ev} /\ ppBatch'.ledger = ppBatch.ledger
             /\ \/ SameEvents /\ (r.ev \in ppBatch.seenDel \/ r.ev \notin ppRaw)
                \/ /\ r.ev \notin ppBatch.seenDel /\ r.ev \in ppRaw
                   /\ ppBatch'.raw = ppBatch.raw \ {r.ev}
                   /\ ppBatch'.keys = ppBatch.keys \ Entries("pebble2", {r.ev})
                   /\ \A k \in CounterKeys : ppBatch'.deltas[k] =
                        IF k \in AllCounters(r.ev) THEN ppBatch.deltas[k] - 1 ELSE ppBatch.deltas[k]
  <1>0. PICK r : r = Head(ppGroup)
    OBVIOUS
  <1>00. PICK e : e = r.ev
    OBVIOUS
  <1>a. PICK b : b = [ppBatch EXCEPT !.seenDel = ppBatch.seenDel \cup {e}]
    OBVIOUS
  <1>1. ppWriter = "decide" /\ ppGroup # <<>> /\ r.op = "delete" /\ ppGroup' = Tail(ppGroup) /\ DecideKeeps
        /\ UNCHANGED ppSpared
    BY <1>0 DEF DecideDelete
  <1>2. r \in Requests /\ e \in PipelineEvents
    BY <1>0, <1>00, <1>1 DEF PipelineTypes, Requests
  <1>3. BatchIs(ppBatch) /\ ppBatch.seenSave \subseteq PipelineEvents
    BY DEF PipelineTypes, BatchIs, Fields
  <1>4. b = Noted(ppBatch, ppBatch.ledger, ppBatch.seenDel \cup {e}, ppBatch.seenSave, ppBatch.pending)
    BY <1>3, <1>a DEF BatchIs, Noted, Fields
  <1>5. /\ BatchIs(b)
        /\ b.raw = ppBatch.raw /\ b.keys = ppBatch.keys /\ b.deltas = ppBatch.deltas /\ b.known = ppBatch.known
        /\ b.seenSave = ppBatch.seenSave /\ b.seenDel = ppBatch.seenDel \cup {e} /\ b.pending = ppBatch.pending
        /\ b.ledger = ppBatch.ledger
    BY <1>2, <1>3, <1>4, NotesAre
  <1>6. IF e \in ppBatch.seenDel \/ e \notin ppRaw THEN Refuse(r.caller, b) ELSE Pend(r.caller, Drop(b, e))
    <2>1. [ppBatch EXCEPT !.seenDel = @ \cup {e}] = b
      BY <1>3, <1>a DEF BatchIs, Fields
    <2> QED
      BY <1>0, <1>00, <2>1 DEF DecideDelete
  <1>7. CASE e \in ppBatch.seenDel \/ e \notin ppRaw
    <2>1. ppBatch' = b /\ ppCaller' = Answer(ppCaller, r.caller, "no")
      BY <1>6, <1>7 DEF Refuse
    <2>2. Decided(r)
      BY <1>0, <1>1, <1>5, <2>1 DEF Decided
    <2> QED
      BY <1>00, <1>1, <1>2, <1>5, <1>7, <2>1, <2>2 DEF SameEvents
  <1>8. CASE ~(e \in ppBatch.seenDel \/ e \notin ppRaw)
    <2>0. PICK p : p = Drop(b, e)
      OBVIOUS
    <2>1. ppBatch' = [p EXCEPT !.pending = p.pending \cup {r.caller}] /\ ppCaller' = ppCaller
      BY <1>6, <1>8, <2>0 DEF Pend
    <2>2. /\ BatchIs(p) /\ p.raw = b.raw \ {e} /\ p.keys = b.keys \ Entries("pebble2", {e})
          /\ p.seenSave = b.seenSave /\ p.seenDel = b.seenDel /\ p.pending = b.pending
          /\ p.ledger = b.ledger /\ p.known = b.known
          /\ \A k \in CounterKeys : p.deltas[k] = IF k \in AllCounters(e) THEN b.deltas[k] - 1 ELSE b.deltas[k]
      <3>1. BatchIs(b)
        BY <1>5
      <3> QED
        <4>1. Drops(p, b, e)
          BY <1>2, <2>0, <3>1, DropIs
        <4> QED
          BY <4>1 DEF Drops
    <2>3. p.seenSave \in SUBSET PipelineEvents
      BY <2>2 DEF BatchIs, Fields
    <2>4. ppBatch' = Noted(p, p.ledger, p.seenDel, p.seenSave, p.pending \cup {r.caller})
      BY <2>1, <2>2 DEF BatchIs, Noted, Fields
    <2>5. /\ BatchIs(ppBatch')
          /\ ppBatch'.raw = p.raw /\ ppBatch'.keys = p.keys /\ ppBatch'.deltas = p.deltas /\ ppBatch'.known = p.known
          /\ ppBatch'.seenSave = p.seenSave /\ ppBatch'.seenDel = p.seenDel
          /\ ppBatch'.pending = p.pending \cup {r.caller} /\ ppBatch'.ledger = p.ledger
      <3>1. BatchIs(p)
        BY <2>2
      <3> QED
        BY <2>3, <2>4, <3>1, NotesAre
    <2>6. Decided(r)
      BY <1>0, <1>1, <1>5, <2>1, <2>2, <2>5 DEF Decided
    <2>7. \A k \in CounterKeys : ppBatch'.deltas[k] =
             IF k \in AllCounters(e) THEN ppBatch.deltas[k] - 1 ELSE ppBatch.deltas[k]
      BY <1>5, <2>2, <2>5
    <2> QED
      BY <1>00, <1>1, <1>2, <1>5, <1>8, <2>2, <2>5, <2>6, <2>7
  <1> QED
    BY <1>7, <1>8

Wins(e) == \A x \in LedgerOf(e).newest : CreatedAt[x] < CreatedAt[e]
Before(e) == (LedgerOf(e).old \cup LedgerOf(e).newest) \ {e}

\* DecideReplace: refused, or the id came twice, or all that came before goes.
LEMMA ReplaceIs ==
    ASSUME PipelineTypes, DecideReplace,
           \A e \in PipelineEvents : OpFor(e) = "replace" =>
               LedgerOf(e).old \cup LedgerOf(e).newest \subseteq PipelineEvents
    PROVE  \E r \in Requests :
             LET e == r.ev
                 old == Before(e) \ ppBatch.seenDel
             IN
             /\ Decided(r) /\ r.op = "replace"
             /\ \/ /\ ~Wins(e) /\ UNCHANGED ppSpared /\ SameEvents
                   /\ ppBatch'.seenSave = ppBatch.seenSave /\ ppBatch'.seenDel = ppBatch.seenDel
                   /\ ppBatch'.ledger = Record(ppBatch.ledger, ReplaceKey(e), LedgerOf(e))
                \/ /\ Wins(e)
                   /\ ppSpared' = ppSpared \cup (Before(e) \cap ppBatch.seenDel \cap ppBatch.raw)
                   /\ ppBatch'.seenSave = ppBatch.seenSave \cup {e} /\ ppBatch'.seenDel = ppBatch.seenDel \cup old
                   /\ ppBatch'.ledger = Record(ppBatch.ledger, ReplaceKey(e), [newest |-> {e}, old |-> {}])
                   /\ \/ e \in ppBatch.seenSave /\ SameEvents
                      \/ /\ e \notin ppBatch.seenSave
                         /\ ppBatch'.raw = (ppBatch.raw \cup {e}) \ old
                         /\ ppBatch'.keys = (ppBatch.keys \cup Entries("pebble2", {e})) \ Entries("pebble2", old)
                         /\ \A k \in CounterKeys : ppBatch'.deltas[k] =
                              (IF k \in AllCounters(e) THEN ppBatch.deltas[k] + 1 ELSE ppBatch.deltas[k]) - Counted(k, old)
  <1>0. PICK r : r = Head(ppGroup)
    OBVIOUS
  <1>00. PICK e : e = r.ev
    OBVIOUS
  <1>a. PICK st : st = LedgerOf(e)
    OBVIOUS
  <1>b. PICK old : old = Before(e) \ ppBatch.seenDel
    OBVIOUS
  <1>c. PICK refused : refused = [ppBatch EXCEPT !.ledger = Record(ppBatch.ledger, ReplaceKey(e), st)]
    OBVIOUS
  <1>d. PICK won : won = [ppBatch EXCEPT !.ledger = Record(ppBatch.ledger, ReplaceKey(e), [newest |-> {e}, old |-> {}]),
                                  !.seenDel = ppBatch.seenDel \cup old, !.seenSave = ppBatch.seenSave \cup {e}]
    OBVIOUS
  <1>1. ppWriter = "decide" /\ ppGroup # <<>> /\ r.op = "replace" /\ ppGroup' = Tail(ppGroup) /\ DecideKeeps
    BY <1>0 DEF DecideReplace
  <1>2. r \in Requests /\ e \in PipelineEvents
    BY <1>0, <1>00, <1>1 DEF PipelineTypes, Requests
  <1>3. BatchIs(ppBatch) /\ ppBatch.seenSave \subseteq PipelineEvents
    BY DEF PipelineTypes, BatchIs, Fields
  <1>4. old \in SUBSET PipelineEvents
    <2>1. OpFor(e) = "replace"
      BY <1>00, <1>1, <1>2 DEF Requests
    <2> QED
      BY <1>2, <1>b, <2>1 DEF Before
  <1>5. /\ IF ~Wins(e) THEN Refuse(r.caller, refused)
           ELSE IF e \in ppBatch.seenSave THEN Refuse(r.caller, won)
           ELSE Pend(r.caller, DropAll(Put(won, e), old))
        /\ ppSpared' = IF Wins(e) THEN ppSpared \cup (Before(e) \cap ppBatch.seenDel \cap ppBatch.raw) ELSE ppSpared
    <2>1. [ppBatch EXCEPT !.ledger = Record(@, ReplaceKey(e), st)] = refused
      BY <1>3, <1>c DEF BatchIs, Fields
    <2>2. [ppBatch EXCEPT !.ledger = Record(@, ReplaceKey(e), [newest |-> {e}, old |-> {}]),
                                  !.seenDel = @ \cup old, !.seenSave = @ \cup {e}] = won
      BY <1>3, <1>d DEF BatchIs, Fields
    <2> QED
      BY <1>0, <1>00, <1>a, <1>b, <2>1, <2>2 DEF DecideReplace, Wins, Before
  <1>6. refused = Noted(ppBatch, Record(ppBatch.ledger, ReplaceKey(e), st), ppBatch.seenDel,
                        ppBatch.seenSave, ppBatch.pending)
    BY <1>3, <1>c DEF BatchIs, Noted, Fields
  <1>7. won = Noted(ppBatch, Record(ppBatch.ledger, ReplaceKey(e), [newest |-> {e}, old |-> {}]),
                    ppBatch.seenDel \cup old, ppBatch.seenSave \cup {e}, ppBatch.pending)
    BY <1>3, <1>d DEF BatchIs, Noted, Fields
  <1>8. /\ BatchIs(refused)
        /\ refused.raw = ppBatch.raw /\ refused.keys = ppBatch.keys /\ refused.deltas = ppBatch.deltas
        /\ refused.known = ppBatch.known
        /\ refused.seenSave = ppBatch.seenSave /\ refused.seenDel = ppBatch.seenDel /\ refused.pending = ppBatch.pending
        /\ refused.ledger = Record(ppBatch.ledger, ReplaceKey(e), st)
    BY <1>3, <1>6, NotesAre
  <1>9. /\ BatchIs(won)
        /\ won.raw = ppBatch.raw /\ won.keys = ppBatch.keys /\ won.deltas = ppBatch.deltas /\ won.known = ppBatch.known
        /\ won.seenSave = ppBatch.seenSave \cup {e} /\ won.seenDel = ppBatch.seenDel \cup old
        /\ won.pending = ppBatch.pending
        /\ won.ledger = Record(ppBatch.ledger, ReplaceKey(e), [newest |-> {e}, old |-> {}])
    BY <1>2, <1>3, <1>7, NotesAre
  <1>10. CASE ~Wins(e)
    <2>1. ppBatch' = refused /\ ppCaller' = Answer(ppCaller, r.caller, "no") /\ UNCHANGED ppSpared
      BY <1>5, <1>10 DEF Refuse
    <2>2. Decided(r)
      BY <1>0, <1>1, <1>8, <2>1 DEF Decided
    <2> QED
      BY <1>00, <1>a, <1>b, <1>1, <1>2, <1>8, <1>10, <2>1, <2>2 DEF SameEvents
  <1>11. CASE Wins(e) /\ e \in ppBatch.seenSave
    <2>1. ppBatch' = won /\ ppCaller' = Answer(ppCaller, r.caller, "no")
      BY <1>5, <1>11 DEF Refuse
    <2>2. Decided(r)
      BY <1>0, <1>1, <1>9, <2>1 DEF Decided
    <2> QED
      BY <1>00, <1>a, <1>b, <1>1, <1>2, <1>5, <1>9, <1>11, <2>1, <2>2 DEF SameEvents
  <1>12. CASE Wins(e) /\ e \notin ppBatch.seenSave
    <2>a. PICK p : p = Put(won, e)
      OBVIOUS
    <2>b. PICK q : q = DropAll(p, old)
      OBVIOUS
    <2>1. ppBatch' = [q EXCEPT !.pending = q.pending \cup {r.caller}] /\ ppCaller' = ppCaller
      BY <1>5, <1>12, <2>a, <2>b DEF Pend
    <2>2. /\ BatchIs(p) /\ p.raw = won.raw \cup {e} /\ p.keys = won.keys \cup Entries("pebble2", {e})
          /\ p.seenSave = won.seenSave /\ p.seenDel = won.seenDel /\ p.pending = won.pending
          /\ p.ledger = won.ledger /\ p.known = won.known
          /\ \A k \in CounterKeys : p.deltas[k] = IF k \in AllCounters(e) THEN won.deltas[k] + 1 ELSE won.deltas[k]
      <3>1. BatchIs(won)
        BY <1>9
      <3>2. Puts(p, won, e)
        BY <1>2, <2>a, <3>1, PutIs
      <3> QED
        BY <3>2 DEF Puts
    <2>3. /\ BatchIs(q) /\ q.raw = p.raw \ old /\ q.keys = p.keys \ Entries("pebble2", old)
          /\ q.seenSave = p.seenSave /\ q.seenDel = p.seenDel /\ q.pending = p.pending
          /\ q.ledger = p.ledger /\ q.known = p.known
          /\ \A k \in CounterKeys : q.deltas[k] = p.deltas[k] - Counted(k, old)
      <3>1. BatchIs(p)
        BY <2>2
      <3> QED
        <4>1. DropsAll(q, p, old)
          BY <1>4, <2>b, <3>1, DropAllIs
        <4> QED
          BY <4>1 DEF DropsAll
    <2>4. q.seenSave \in SUBSET PipelineEvents
      BY <2>3 DEF BatchIs, Fields
    <2>5. ppBatch' = Noted(q, q.ledger, q.seenDel, q.seenSave, q.pending \cup {r.caller})
      BY <2>1, <2>3 DEF BatchIs, Noted, Fields
    <2>6. /\ BatchIs(ppBatch')
          /\ ppBatch'.raw = q.raw /\ ppBatch'.keys = q.keys /\ ppBatch'.deltas = q.deltas /\ ppBatch'.known = q.known
          /\ ppBatch'.seenSave = q.seenSave /\ ppBatch'.seenDel = q.seenDel
          /\ ppBatch'.pending = q.pending \cup {r.caller} /\ ppBatch'.ledger = q.ledger
      BY <2>3, <2>4, <2>5, NotesAre
    <2>7. Decided(r)
      BY <1>0, <1>1, <1>9, <2>1, <2>2, <2>3, <2>6 DEF Decided
    <2>8. \A k \in CounterKeys : ppBatch'.deltas[k] =
             (IF k \in AllCounters(e) THEN ppBatch.deltas[k] + 1 ELSE ppBatch.deltas[k]) - Counted(k, old)
      BY <1>9, <2>2, <2>3, <2>6
    <2>9. /\ ppBatch'.raw = (ppBatch.raw \cup {e}) \ old
          /\ ppBatch'.keys = (ppBatch.keys \cup Entries("pebble2", {e})) \ Entries("pebble2", old)
          /\ ppBatch'.seenSave = ppBatch.seenSave \cup {e} /\ ppBatch'.seenDel = ppBatch.seenDel \cup old
          /\ ppBatch'.ledger = Record(ppBatch.ledger, ReplaceKey(e), [newest |-> {e}, old |-> {}])
      BY <1>9, <2>2, <2>3, <2>6
    <2> QED
      BY <1>00, <1>a, <1>b, <1>1, <1>2, <1>5, <1>12, <2>7, <2>8, <2>9
  <1> QED
    BY <1>10, <1>11, <1>12

-----------------------------------------------------------------------------
(* The write pipeline of pebbledb2: the ledger and the sequences *)

\* A version with its d is found for any other of its key.
LEMMA SameKeyIsFound ==
    ASSUME NEW x \in Events, NEW e \in Events, x \in ppRaw, FoundAgain(x), ReplaceKey(x) = ReplaceKey(e)
    PROVE  x \in FindReplaceVersions(e)
  <1>1. Author[x] = Author[e] /\ Kind[x] = Kind[e]
        /\ (IsAddressable(Kind[e]) => GetD(x) = GetD(e))
    BY DEF ReplaceKey
  <1>2. <<"pubkeyKind", Author[e], Kind[e]>> \in Pebble2IndexKeys(x)
    BY <1>1 DEF Pebble2IndexKeys, Timelines
  <1>3. ASSUME IsAddressable(Kind[e]) PROVE ContainsAny(x, "d", {GetD(e)})
    <2>1. D[x] # NoD
      BY <1>1, <1>3 DEF FoundAgain, HasItsD
    <2>2. <<"d", D[x]>> \in Tags[x] /\ D[x] = GetD(e)
      BY <1>1, <1>3, <2>1, TagAssumption DEF GetD
    <2> QED
      BY <2>2 DEF ContainsAny
  <1> QED
    BY <1>2, <1>3 DEF FindReplaceVersions

\* What the ledger says of a key, whether it has an entry or it is read from the database.
LEMMA LedgerFacts ==
    ASSUME PipelineTypes, BatchInv, ppWriter = "decide", NEW e \in PipelineEvents, OpFor(e) = "replace"
    PROVE  LedgerEntry(ReplaceKey(e), LedgerOf(e))
  <1>1. CASE ReplaceKey(e) \in DOMAIN ppBatch.ledger
    BY <1>1 DEF BatchInv, LedgerOf, BatchIsExact, BatchReaches, KnownInv, LedgersInv
  <1>2. CASE ReplaceKey(e) \notin DOMAIN ppBatch.ledger
    <2>0. PICK found : found = FindReplaceVersions(e)
      OBVIOUS
    <2>00. PICK st : st = LedgerOf(e)
      OBVIOUS
    <2>1. st.old = found /\ st.newest = IF found = {} THEN {} ELSE {NewestOf(found)}
      BY <1>2, <2>0, <2>00 DEF LedgerOf
    <2>2. PipelineEvents \subseteq Events /\ ppRaw \subseteq PipelineEvents /\ ppBatch.raw \subseteq PipelineEvents
      BY PipelineAssumption DEF PipelineTypes, BatchIs, Fields
    <2>3. found \subseteq ppRaw
      BY <2>0 DEF FindReplaceVersions
    <2>4. \A y \in found : NewestOf(found) \in found /\ CreatedAt[NewestOf(found)] >= CreatedAt[y]
      <3> SUFFICES ASSUME NEW y \in found PROVE NewestOf(found) \in found /\ CreatedAt[NewestOf(found)] >= CreatedAt[y]
        OBVIOUS
      <3>1. found \in SUBSET Events /\ found # {}
        BY <2>2, <2>3
      <3>2. NewestOf(found) \in found /\ CreatedAt[y] <= CreatedAt[NewestOf(found)]
        BY <3>1, HasNewest
      <3>3. CreatedAt[y] \in Nat /\ CreatedAt[NewestOf(found)] \in Nat
        BY <3>1, <3>2, EventAssumption
      <3> QED
        BY <3>2, <3>3
    <2>5. st.old \cup st.newest \subseteq ppRaw
      BY <2>1, <2>3, <2>4
    <2>6. \A y \in ppBatch.seenSave : OpFor(y) = "replace" => ReplaceKey(y) # ReplaceKey(e)
      BY <1>2 DEF BatchInv, BatchIsExact, BatchReaches, KnownInv, LedgersInv
    <2>7. \A x \in ppRaw : FoundAgain(x) /\ ReplaceKey(x) = ReplaceKey(e) => x \in found
      BY <2>0, <2>2, SameKeyIsFound
    <2>8. \A y \in ppRaw : FoundAgain(y) /\ ReplaceKey(y) = ReplaceKey(e) =>
              \E n \in st.newest : CreatedAt[n] >= CreatedAt[y]
      BY <2>1, <2>4, <2>7
    <2>9. \A x \in ppBatch.raw : FoundAgain(x) /\ ReplaceKey(x) = ReplaceKey(e) => x \in st.old
      <3>1. ppBatch.raw \subseteq ppRaw \cup ppBatch.seenSave
        BY DEF BatchInv, BatchIsExact, BatchReaches, KnownInv, LedgersInv
      <3> QED
        BY <2>1, <2>6, <2>7, <3>1 DEF FoundAgain
    <2>10. LedgerEntry(ReplaceKey(e), st)
      BY <2>5, <2>6, <2>8, <2>9 DEF LedgerEntry
    <2> QED
      BY <2>00, <2>10
  <1> QED
    BY <1>1, <1>2

\* The ledger names events that are written.
LEMMA LedgerInEvents ==
    ASSUME PipelineTypes, BatchInv, ppWriter = "decide"
    PROVE  \A e \in PipelineEvents : OpFor(e) = "replace" =>
               LedgerOf(e).old \cup LedgerOf(e).newest \subseteq PipelineEvents
  <1> SUFFICES ASSUME NEW e \in PipelineEvents, OpFor(e) = "replace"
               PROVE  LedgerOf(e).old \cup LedgerOf(e).newest \subseteq PipelineEvents
    OBVIOUS
  <1>1. LedgerOf(e).old \cup LedgerOf(e).newest \subseteq ppRaw \cup ppBatch.seenSave
    BY LedgerFacts DEF LedgerEntry
  <1> QED
    BY <1>1 DEF PipelineTypes, BatchIs, Fields

\* The tail of a sequence has its elements, one place further on.
LEMMA SeqTail ==
    ASSUME NEW T, NEW s \in Seq(T), s # <<>>
    PROVE  /\ Head(s) \in T /\ Tail(s) \in Seq(T) /\ 1 \in DOMAIN s /\ Head(s) = s[1]
           /\ \A i \in DOMAIN Tail(s) : i + 1 \in DOMAIN s /\ Tail(s)[i] = s[i + 1]
           /\ \A i \in DOMAIN s : i = 1 \/ (i - 1 \in DOMAIN Tail(s) /\ Tail(s)[i - 1] = s[i])
  <1>1. Len(s) \in Nat \ {0} /\ DOMAIN s = 1..Len(s)
    OBVIOUS
  <1>2. Tail(s) \in Seq(T) /\ Len(Tail(s)) = Len(s) - 1 /\ \A i \in 1..(Len(s) - 1) : Tail(s)[i] = s[i + 1]
    BY <1>1
  <1>3. DOMAIN Tail(s) = 1..(Len(s) - 1)
    BY <1>2
  <1>4. Head(s) \in T /\ Head(s) = s[1]
    BY <1>1
  <1>5. \A i \in DOMAIN s : i = 1 \/ (i - 1 \in DOMAIN Tail(s) /\ Tail(s)[i - 1] = s[i])
    <2> SUFFICES ASSUME NEW i \in 1..Len(s), i # 1 PROVE i - 1 \in DOMAIN Tail(s) /\ Tail(s)[i - 1] = s[i]
      BY <1>1
    <2>1. i - 1 \in 1..(Len(s) - 1) /\ (i - 1) + 1 = i
      BY <1>1
    <2> QED
      BY <1>2, <1>3, <2>1
  <1> QED
    BY <1>1, <1>2, <1>3, <1>4, <1>5

\* An appended sequence has its elements where they were, and the new one.
LEMMA SeqAppend ==
    ASSUME NEW T, NEW s \in Seq(T), NEW x \in T
    PROVE  /\ Append(s, x) \in Seq(T) /\ \A i \in DOMAIN s : i \in DOMAIN Append(s, x) /\ Append(s, x)[i] = s[i]
           /\ Len(s) + 1 \in DOMAIN Append(s, x) /\ Append(s, x)[Len(s) + 1] = x
           /\ \A i \in DOMAIN Append(s, x) : i \in DOMAIN s \/ Append(s, x)[i] = x
  OBVIOUS

-----------------------------------------------------------------------------
(* The write pipeline of pebbledb2: callers *)

\* What the steps of a caller do to it; the others stay as they are.
LEMMA CallerMoves ==
    ASSUME PipelineTypes, NEW c \in Callers, NEW new, ppCaller' = [ppCaller EXCEPT ![c] = new],
           new \in CallerRec,
           new.pc \in {"lock", "send"} => [caller |-> c, op |-> new.op, ev |-> new.ev] \in Requests
    PROVE  /\ CallerTypes' /\ CallersAsk'
           /\ ppCaller'[c] = new /\ \A d \in Callers : d # c => ppCaller'[d] = ppCaller[d]
  <1>1. ppCaller \in [Callers -> CallerRec]
    BY DEF PipelineTypes, CallerTypes, CallerRec
  <1>2. ppCaller' \in [Callers -> CallerRec]
    BY <1>1
  <1>3. ppCaller'[c] = new /\ \A d \in Callers : d # c => ppCaller'[d] = ppCaller[d]
    BY <1>1
  <1>4. CallersAsk'
    BY <1>3 DEF PipelineTypes, CallersAsk
  <1> QED
    BY <1>2, <1>3, <1>4 DEF CallerTypes, CallerRec

\* The calls of the callers, as one record each.
LEMMA CallerStepIs ==
    ASSUME PipelineTypes, NEW c \in Callers,
           \/ CallerLocks(c) \/ CallerSends(c) \/ CallerReturns(c)
           \/ \E e \in PipelineEvents : CallWrite(c, e) \/ CallDelete(c, e)
    PROVE  /\ CallerTypes' /\ CallersAsk' /\ CallerStep
           /\ \A d \in Callers : d # c => ppCaller'[d] = ppCaller[d]
           /\ ppCaller'[c].pc = "send" => ~ppClosed
           /\ \/ ppCaller'[c].pc # "wait" /\ UNCHANGED ppQueue
              \/ /\ ppCaller[c].pc = "send"
                 /\ \E r \in Requests : r.caller = c /\ ppQueue' = Append(ppQueue, r)
  <1> DEFINE old == ppCaller[c]
  <1>0. ppCaller \in [Callers -> CallerRec] /\ old \in CallerRec
    BY DEF PipelineTypes, CallerTypes, CallerRec
  <1>1. ASSUME CallerLocks(c)
        PROVE  /\ CallerTypes' /\ CallersAsk' /\ CallerStep /\ UNCHANGED ppQueue
               /\ \A d \in Callers : d # c => ppCaller'[d] = ppCaller[d]
               /\ ppCaller'[c].pc = "send" => ~ppClosed
               /\ ppCaller'[c].pc # "wait"
    <2>1. old.pc = "lock" /\ [caller |-> c, op |-> old.op, ev |-> old.ev] \in Requests
      BY <1>1 DEF CallerLocks, PipelineTypes, CallersAsk
    <2>2. CASE ppClosed
      <3>0. PICK new : new = [old EXCEPT !.pc = "idle", !.answer = "closed"]
        OBVIOUS
      <3>1. new \in CallerRec /\ new.pc = "idle"
        BY <1>0, <3>0 DEF CallerRec
      <3>2. ppCaller' = [ppCaller EXCEPT ![c] = new]
        BY <1>0, <1>1, <2>2, <3>0 DEF CallerLocks, Return, CallerRec
      <3>3. CallerTypes' /\ CallersAsk' /\ ppCaller'[c] = new
            /\ \A d \in Callers : d # c => ppCaller'[d] = ppCaller[d]
        BY <3>1, <3>2, CallerMoves
      <3> QED
        BY <1>1, <3>1, <3>3 DEF CallerLocks
    <2>3. CASE ~ppClosed
      <3>0. PICK new : new = [old EXCEPT !.pc = "send"]
        OBVIOUS
      <3>1. new \in CallerRec /\ new.pc = "send" /\ new.op = old.op /\ new.ev = old.ev
        BY <1>0, <3>0 DEF CallerRec
      <3>2. ppCaller' = [ppCaller EXCEPT ![c] = new]
        BY <1>0, <1>1, <2>3, <3>0 DEF CallerLocks, Goto, CallerRec
      <3>3. CallerTypes' /\ CallersAsk' /\ ppCaller'[c] = new
            /\ \A d \in Callers : d # c => ppCaller'[d] = ppCaller[d]
        BY <2>1, <3>1, <3>2, CallerMoves
      <3> QED
        BY <1>1, <2>3, <3>1, <3>3 DEF CallerLocks
    <2> QED
      BY <2>2, <2>3
  <1>2. ASSUME CallerSends(c)
        PROVE  /\ CallerTypes' /\ CallersAsk' /\ CallerStep
               /\ \A d \in Callers : d # c => ppCaller'[d] = ppCaller[d]
               /\ ppCaller'[c].pc = "wait" /\ ppCaller[c].pc = "send"
               /\ \E r \in Requests : r.caller = c /\ ppQueue' = Append(ppQueue, r)
    <2>1. old.pc = "send" /\ [caller |-> c, op |-> old.op, ev |-> old.ev] \in Requests
      BY <1>2 DEF CallerSends, PipelineTypes, CallersAsk
    <2>2. ppQueue' = Append(ppQueue, [caller |-> c, op |-> old.op, ev |-> old.ev])
      BY <1>2 DEF CallerSends
    <2>3. \E r \in Requests : r.caller = c /\ ppQueue' = Append(ppQueue, r)
      BY <2>1, <2>2
    <2>0. PICK new : new = [old EXCEPT !.pc = "wait"]
      OBVIOUS
    <2>4. new \in CallerRec /\ new.pc = "wait"
      BY <1>0, <2>0 DEF CallerRec
    <2>5. ppCaller' = [ppCaller EXCEPT ![c] = new]
      BY <1>0, <1>2, <2>0 DEF CallerSends, Goto, CallerRec
    <2>6. CallerTypes' /\ CallersAsk' /\ ppCaller'[c] = new
            /\ \A d \in Callers : d # c => ppCaller'[d] = ppCaller[d]
      BY <2>4, <2>5, CallerMoves
    <2> QED
      BY <1>2, <2>1, <2>3, <2>4, <2>6 DEF CallerSends
  <1>3. ASSUME CallerReturns(c)
        PROVE  /\ CallerTypes' /\ CallersAsk' /\ CallerStep /\ UNCHANGED ppQueue
               /\ \A d \in Callers : d # c => ppCaller'[d] = ppCaller[d]
               /\ ppCaller'[c].pc = "idle"
    <2>0. PICK new : new = [old EXCEPT !.pc = "idle"]
      OBVIOUS
    <2>4. new \in CallerRec /\ new.pc = "idle"
      BY <1>0, <2>0 DEF CallerRec
    <2>5. ppCaller' = [ppCaller EXCEPT ![c] = new]
      BY <1>0, <1>3, <2>0 DEF CallerReturns, Goto, CallerRec
    <2>6. CallerTypes' /\ CallersAsk' /\ ppCaller'[c] = new
            /\ \A d \in Callers : d # c => ppCaller'[d] = ppCaller[d]
      BY <2>4, <2>5, CallerMoves
    <2> QED
      BY <1>3, <2>4, <2>6 DEF CallerReturns
  <1>4. ASSUME NEW e \in PipelineEvents, CallWrite(c, e)
        PROVE  /\ CallerTypes' /\ CallersAsk' /\ CallerStep /\ UNCHANGED ppQueue
               /\ \A d \in Callers : d # c => ppCaller'[d] = ppCaller[d]
               /\ ppCaller'[c].pc \in {"idle", "lock"}
    <2>0. PICK new : new = [pc |-> IF ppClosed THEN "idle" ELSE "lock", op |-> OpFor(e), ev |-> e,
                            answer |-> IF ppClosed THEN "closed" ELSE "none"]
      OBVIOUS
    <2>1. OpFor(e) \in {"save", "replace"}
      BY DEF OpFor
    <2>2. new \in CallerRec /\ new.pc \in {"idle", "lock"} /\ new.op = OpFor(e) /\ new.ev = e
      BY <2>0, <2>1 DEF CallerRec
    <2>3. [caller |-> c, op |-> new.op, ev |-> new.ev] \in Requests
      BY <2>1, <2>2 DEF Requests
    <2>5. ppCaller' = [ppCaller EXCEPT ![c] = new]
      BY <1>4, <2>0 DEF CallWrite
    <2>6. CallerTypes' /\ CallersAsk' /\ ppCaller'[c] = new
            /\ \A d \in Callers : d # c => ppCaller'[d] = ppCaller[d]
      BY <2>2, <2>3, <2>5, CallerMoves
    <2> QED
      BY <1>4, <2>2, <2>6 DEF CallWrite
  <1>5. ASSUME NEW e \in PipelineEvents, CallDelete(c, e)
        PROVE  /\ CallerTypes' /\ CallersAsk' /\ CallerStep /\ UNCHANGED ppQueue
               /\ \A d \in Callers : d # c => ppCaller'[d] = ppCaller[d]
               /\ ppCaller'[c].pc \in {"idle", "lock"}
    <2> DEFINE goes == ~ppClosed /\ e \in ppRaw
    <2>0. PICK new : new = [pc |-> IF goes THEN "lock" ELSE "idle", op |-> "delete", ev |-> e,
                            answer |-> IF goes THEN "none" ELSE IF ppClosed THEN "closed" ELSE "no"]
      OBVIOUS
    <2>2. new \in CallerRec /\ new.pc \in {"idle", "lock"} /\ new.op = "delete" /\ new.ev = e
      BY <2>0 DEF CallerRec
    <2>3. [caller |-> c, op |-> new.op, ev |-> new.ev] \in Requests
      BY <2>2 DEF Requests
    <2>5. ppCaller' = [ppCaller EXCEPT ![c] = new]
      BY <1>5, <2>0 DEF CallDelete
    <2>6. CallerTypes' /\ CallersAsk' /\ ppCaller'[c] = new
            /\ \A d \in Callers : d # c => ppCaller'[d] = ppCaller[d]
      BY <2>2, <2>3, <2>5, CallerMoves
    <2> QED
      BY <1>5, <2>2, <2>6 DEF CallDelete
  <1> QED
    BY <1>1, <1>2, <1>3, <1>4, <1>5

\* The answers that the writer gives.
LEMMA AnswersAre ==
    ASSUME PipelineTypes, NEW S \in SUBSET Callers, NEW a \in {"no", "stored", "error"},
           ppCaller' = [c \in Callers |-> IF c \in S THEN [ppCaller[c] EXCEPT !.answer = a] ELSE ppCaller[c]]
    PROVE  /\ CallerTypes' /\ CallersAsk'
           /\ \A c \in Callers : /\ ppCaller'[c].pc = ppCaller[c].pc
                                 /\ c \notin S => ppCaller'[c] = ppCaller[c]
                                 /\ c \in S => ppCaller'[c].answer = a
  <1>1. ppCaller \in [Callers -> CallerRec]
    BY DEF PipelineTypes, CallerTypes, CallerRec
  <1>2. \A c \in Callers : ppCaller[c] \in CallerRec
    BY <1>1
  <1>3. ASSUME NEW c \in Callers
        PROVE  /\ ppCaller'[c] \in CallerRec /\ ppCaller'[c].pc = ppCaller[c].pc
               /\ ppCaller'[c].op = ppCaller[c].op /\ ppCaller'[c].ev = ppCaller[c].ev
               /\ c \notin S => ppCaller'[c] = ppCaller[c]
               /\ c \in S => ppCaller'[c].answer = a
    <2>1. CASE c \in S
      <3>1. ppCaller'[c] = [ppCaller[c] EXCEPT !.answer = a]
        BY <2>1
      <3> QED
        BY <1>2, <2>1, <3>1 DEF CallerRec
    <2>2. CASE c \notin S
      BY <1>2, <2>2
    <2> QED
      BY <2>1, <2>2
  <1>4. CallerTypes'
    BY <1>3 DEF CallerTypes, CallerRec
  <1>5. CallersAsk'
    BY <1>3 DEF CallersAsk, PipelineTypes
  <1> QED
    BY <1>3, <1>4, <1>5

\* The answer to one caller.
LEMMA AnswerIs ==
    ASSUME PipelineTypes, NEW c \in Callers, ppCaller' = Answer(ppCaller, c, "no")
    PROVE  /\ CallerTypes' /\ CallersAsk'
           /\ \A d \in Callers : /\ ppCaller'[d].pc = ppCaller[d].pc
                                 /\ d # c => ppCaller'[d] = ppCaller[d]
                                 /\ d = c => ppCaller'[d].answer = "no"
  <1>1. ppCaller \in [Callers -> CallerRec]
    BY DEF PipelineTypes, CallerTypes, CallerRec
  <1>2. ppCaller' = [d \in Callers |-> IF d \in {c} THEN [ppCaller[d] EXCEPT !.answer = "no"] ELSE ppCaller[d]]
    BY <1>1 DEF Answer
  <1>3. PICK S : S = {c}
    OBVIOUS
  <1>4. S \in SUBSET Callers
    BY <1>3
  <1>5. ppCaller' = [d \in Callers |-> IF d \in S THEN [ppCaller[d] EXCEPT !.answer = "no"] ELSE ppCaller[d]]
    BY <1>2, <1>3
  <1>6. /\ CallerTypes' /\ CallersAsk'
        /\ \A d \in Callers : /\ ppCaller'[d].pc = ppCaller[d].pc
                              /\ d \notin S => ppCaller'[d] = ppCaller[d]
                              /\ d \in S => ppCaller'[d].answer = "no"
    BY <1>4, <1>5, AnswersAre
  <1> QED
    BY <1>3, <1>6

-----------------------------------------------------------------------------
(* The write pipeline of pebbledb2: types *)

\* The decision about a request, of whichever kind.
LEMMA DecisionIs ==
    ASSUME PipelineTypes, BatchInv, DecideSave \/ DecideDelete \/ DecideReplace
    PROVE  \E r \in Requests : Decided(r)
  <1>1. CASE DecideSave
    BY <1>1, SaveIs
  <1>2. CASE DecideDelete
    BY <1>2, DeleteIs
  <1>3. CASE DecideReplace
    <2>1. ppWriter = "decide"
      BY <1>3 DEF DecideReplace
    <2> QED
      BY <1>3, <2>1, LedgerInEvents, ReplaceIs
  <1> QED
    BY <1>1, <1>2, <1>3

\* The end of a group, with the answers of those that wait for it.
LEMMA EndIs ==
    ASSUME PipelineTypes, GroupCommits \/ GroupFails
    PROVE  /\ CallerTypes' /\ CallersAsk' /\ BatchIs(ppBatch') /\ ppBatch'.pending = {}
           /\ ppWriter = "decide" /\ ppGroup = <<>> /\ ppWriter' = "receive" /\ UNCHANGED <<ppQueue, ppGroup, ppSpared>>
           /\ WriterKeeps
           /\ \A c \in Callers : /\ ppCaller'[c].pc = ppCaller[c].pc
                                 /\ c \notin ppBatch.pending => ppCaller'[c] = ppCaller[c]
                                 /\ c \in ppBatch.pending => ppCaller'[c].answer # "none"
           /\ \/ UNCHANGED <<ppRaw, ppKeys, ppCounters>>
              \/ ppRaw' = ppBatch.raw /\ ppKeys' = ppBatch.keys /\ ppCounters' = Merge(ppCounters, ppBatch.deltas)
  <1>1. ppWriter = "decide" /\ ppGroup = <<>> /\ ppWriter' = "receive" /\ UNCHANGED <<ppQueue, ppGroup, ppSpared>> /\ WriterKeeps
    BY DEF GroupCommits, GroupFails
  <1>2. PICK a \in {"stored", "error"} :
           ppCaller' = [c \in Callers |-> IF c \in ppBatch.pending THEN [ppCaller[c] EXCEPT !.answer = a] ELSE ppCaller[c]]
    BY DEF GroupCommits, GroupFails
  <1>3. PICK S : S = ppBatch.pending \cap Callers
    OBVIOUS
  <1>4. ppCaller' = [c \in Callers |-> IF c \in S THEN [ppCaller[c] EXCEPT !.answer = a] ELSE ppCaller[c]]
    BY <1>2, <1>3
  <1>5. /\ CallerTypes' /\ CallersAsk'
        /\ \A c \in Callers : /\ ppCaller'[c].pc = ppCaller[c].pc
                              /\ c \notin S => ppCaller'[c] = ppCaller[c]
                              /\ c \in S => ppCaller'[c].answer = a
    <2>1. S \in SUBSET Callers
      BY <1>3
    <2>2. a \in {"no", "stored", "error"}
      BY <1>2
    <2>3. CASE a = "stored"
      <3>1. ppCaller' = [c \in Callers |-> IF c \in S THEN [ppCaller[c] EXCEPT !.answer = "stored"] ELSE ppCaller[c]]
        BY <1>4, <2>3
      <3>2. /\ CallerTypes' /\ CallersAsk'
            /\ \A c \in Callers : /\ ppCaller'[c].pc = ppCaller[c].pc
                                  /\ c \notin S => ppCaller'[c] = ppCaller[c]
                                  /\ c \in S => ppCaller'[c].answer = "stored"
        BY <2>1, <3>1, AnswersAre
      <3> QED
        BY <2>3, <3>2
    <2>4. CASE a = "error"
      <3>1. ppCaller' = [c \in Callers |-> IF c \in S THEN [ppCaller[c] EXCEPT !.answer = "error"] ELSE ppCaller[c]]
        BY <1>4, <2>4
      <3>2. /\ CallerTypes' /\ CallersAsk'
            /\ \A c \in Callers : /\ ppCaller'[c].pc = ppCaller[c].pc
                                  /\ c \notin S => ppCaller'[c] = ppCaller[c]
                                  /\ c \in S => ppCaller'[c].answer = "error"
        BY <2>1, <3>1, AnswersAre
      <3> QED
        BY <2>4, <3>2
    <2> QED
      BY <1>2, <2>3, <2>4
  <1>6. BatchIs(ppBatch') /\ ppBatch'.pending = {}
    <2>1. BatchIs(ppBatch) /\ ppBatch.seenSave \in SUBSET PipelineEvents
      BY DEF PipelineTypes, BatchIs, Fields
    <2>2. ppBatch' = [ppBatch EXCEPT !.pending = {}]
      BY DEF GroupCommits, GroupFails
    <2>3. ppBatch' = Noted(ppBatch, ppBatch.ledger, ppBatch.seenDel, ppBatch.seenSave, {})
      BY <2>1, <2>2 DEF BatchIs, Noted, Fields
    <2>4. PICK b : b = ppBatch
      OBVIOUS
    <2>5. BatchIs(Noted(b, b.ledger, b.seenDel, b.seenSave, {})) /\ Noted(b, b.ledger, b.seenDel, b.seenSave, {}).pending = {}
      BY <2>1, <2>4, NotesAre
    <2> QED
      BY <2>3, <2>4, <2>5
  <1>7. \/ UNCHANGED <<ppRaw, ppKeys, ppCounters>>
        \/ ppRaw' = ppBatch.raw /\ ppKeys' = ppBatch.keys /\ ppCounters' = Merge(ppCounters, ppBatch.deltas)
    BY DEF GroupCommits, GroupFails, Database
  <1> QED
    BY <1>1, <1>3, <1>5, <1>6, <1>7

\* GroupStarts: a batch that is the database, and the saves of the group looked up.
LEMMA StartIs ==
    ASSUME PipelineTypes, GroupStarts
    PROVE  /\ BatchIs(ppBatch') /\ ppWriter = "collect" /\ ppWriter' = "decide" /\ WriterKeeps
           /\ UNCHANGED <<Database, ppQueue, ppCaller, ppGroup, ppSpared>>
           /\ ppBatch'.raw = ppRaw /\ ppBatch'.keys = ppKeys /\ ppBatch'.seenSave = {} /\ ppBatch'.seenDel = {}
           /\ ppBatch'.pending = {} /\ ppBatch'.ledger = <<>>
           /\ ppBatch'.deltas = [k \in CounterKeys |-> 0]
           /\ ppBatch'.known = {e \in ppRaw : \E i \in DOMAIN ppGroup : ppGroup[i].op = "save" /\ ppGroup[i].ev = e}
  <1>1. PICK known : known = {e \in ppRaw : \E i \in DOMAIN ppGroup : ppGroup[i].op = "save" /\ ppGroup[i].ev = e}
    OBVIOUS
  <1>0. PICK zero : zero = [k \in CounterKeys |-> 0]
    OBVIOUS
  <1>2. ppBatch' = [EmptyBatch EXCEPT !.known = known]
    BY <1>1 DEF GroupStarts
  <1>3. ppBatch' = [raw |-> ppRaw, keys |-> ppKeys, deltas |-> zero, sketches |-> {},
                    seenSave |-> {}, seenDel |-> {}, pending |-> {}, ledger |-> <<>>, known |-> known]
    BY <1>0, <1>2 DEF EmptyBatch
  <1>4. PICK b : b = ppBatch'
    OBVIOUS
  <1>5. /\ b.raw = ppRaw /\ b.keys = ppKeys /\ b.seenSave = {} /\ b.seenDel = {} /\ b.pending = {}
        /\ b.ledger = <<>> /\ b.deltas = zero /\ b.known = known /\ b.sketches = {}
    BY <1>3, <1>4
  <1>6. b = [raw |-> b.raw, keys |-> b.keys, deltas |-> b.deltas, sketches |-> b.sketches, seenSave |-> b.seenSave,
            seenDel |-> b.seenDel, pending |-> b.pending, ledger |-> b.ledger, known |-> b.known]
    BY <1>3, <1>4, <1>5
  <1>7. b.raw \subseteq PipelineEvents /\ b.seenSave \subseteq PipelineEvents /\ b.deltas \in [CounterKeys -> Int]
    BY <1>0, <1>5 DEF PipelineTypes
  <1>8. BatchIs(b)
    BY <1>6, <1>7 DEF BatchIs, Fields
  <1>9. ppWriter = "collect" /\ ppWriter' = "decide" /\ WriterKeeps
        /\ UNCHANGED <<Database, ppQueue, ppCaller, ppGroup, ppSpared>>
    BY DEF GroupStarts
  <1> QED
    BY <1>0, <1>1, <1>4, <1>5, <1>8, <1>9

\* Every step keeps the types.
LEMMA TypesStep ==
    ASSUME PipelineTypes, BatchInv, [PipelineNext]_ppVars
    PROVE  PipelineTypes'
  <1>1. CASE UNCHANGED ppVars
    BY <1>1 DEF ppVars, PipelineTypes, CallerTypes, CallersAsk, BatchIs, Fields
  <1>2. ASSUME NEW c \in Callers,
               \/ CallerLocks(c) \/ CallerSends(c) \/ CallerReturns(c)
               \/ \E e \in PipelineEvents : CallWrite(c, e) \/ CallDelete(c, e)
        PROVE  PipelineTypes'
    <2>1. CallerTypes' /\ CallersAsk' /\ CallerStep /\ (UNCHANGED ppQueue \/ \E r \in Requests : ppQueue' = Append(ppQueue, r))
      BY <1>2, CallerStepIs
    <2>2. ppQueue' \in Seq(Requests)
      BY <2>1, SeqAppend DEF PipelineTypes
    <2> QED
      BY <2>1, <2>2 DEF PipelineTypes, CallerStep, Database
  <1>3. CASE CloseStart \/ CloseChannel \/ CloseEnds
    BY <1>3 DEF CloseStart, CloseChannel, CloseEnds, CloseStep, Database, PipelineTypes, CallerTypes, CallersAsk
  <1>4. CASE WriterReceives
    <2>1. ppQueue' \in Seq(Requests) /\ ppGroup' \in Seq(Requests) /\ ppWriter' \in {"collect", "ended"}
      <3>1. CASE ppQueue # <<>> /\ ppGroup' = <<Head(ppQueue)>> /\ ppQueue' = Tail(ppQueue) /\ ppWriter' = "collect"
        <4>1. Head(ppQueue) \in Requests /\ Tail(ppQueue) \in Seq(Requests)
          BY <3>1, SeqTail DEF PipelineTypes
        <4> QED
          BY <3>1, <4>1
      <3>2. CASE ppWriter' = "ended" /\ UNCHANGED <<ppGroup, ppQueue>>
        BY <3>2 DEF PipelineTypes
      <3> QED
        BY <1>4, <3>1, <3>2 DEF WriterReceives
    <2> QED
      BY <1>4, <2>1 DEF WriterReceives, WriterKeeps, Database, PipelineTypes, CallerTypes, CallersAsk
  <1>5. CASE WriterCollects
    <2>1. ppQueue' \in Seq(Requests) /\ ppGroup' \in Seq(Requests)
      <3>1. Head(ppQueue) \in Requests /\ Tail(ppQueue) \in Seq(Requests)
        BY <1>5, SeqTail DEF WriterCollects, PipelineTypes
      <3> QED
        BY <1>5, <3>1, SeqAppend DEF WriterCollects, PipelineTypes
    <2> QED
      BY <1>5, <2>1 DEF WriterCollects, WriterKeeps, Database, PipelineTypes, CallerTypes, CallersAsk
  <1>6. CASE GroupStarts
    <2>1. /\ BatchIs(ppBatch') /\ ppWriter' = "decide"
          /\ UNCHANGED <<Database, ppQueue, ppCaller, ppGroup>>
      BY <1>6, StartIs
    <2> QED
      BY <2>1 DEF Database, PipelineTypes, CallerTypes, CallersAsk
  <1>7. CASE DecideSave \/ DecideDelete \/ DecideReplace
    <2>1. PICK r \in Requests : Decided(r)
      BY <1>7, DecisionIs
    <2>2. CallerTypes' /\ CallersAsk'
      <3>1. r.caller \in Callers
        BY DEF Requests
      <3>2. CASE ppCaller' = Answer(ppCaller, r.caller, "no")
        BY <3>1, <3>2, AnswerIs
      <3>3. CASE ppCaller' = ppCaller
        BY <3>3 DEF PipelineTypes, CallerTypes, CallersAsk
      <3> QED
        BY <2>1, <3>2, <3>3 DEF Decided
    <2>3. ppGroup' \in Seq(Requests)
      BY <2>1, SeqTail DEF Decided, PipelineTypes
    <2> QED
      BY <2>1, <2>2, <2>3 DEF Decided, DecideKeeps, Database, PipelineTypes
  <1>8. CASE GroupCommits \/ GroupFails
    <2>1. /\ CallerTypes' /\ CallersAsk' /\ BatchIs(ppBatch') /\ ppWriter' = "receive" /\ UNCHANGED <<ppQueue, ppGroup>>
          /\ \/ UNCHANGED <<ppRaw, ppKeys, ppCounters>>
             \/ ppRaw' = ppBatch.raw /\ ppKeys' = ppBatch.keys /\ ppCounters' = Merge(ppCounters, ppBatch.deltas)
      BY <1>8, EndIs
    <2>2. Merge(ppCounters, ppBatch.deltas) \in [CounterKeys -> Int]
      BY DEF PipelineTypes, BatchIs, Merge, Fields
    <2>3. ppRaw' \subseteq PipelineEvents /\ ppCounters' \in [CounterKeys -> Int]
      BY <2>1, <2>2 DEF PipelineTypes, BatchIs, Fields
    <2> QED
      BY <2>1, <2>3 DEF PipelineTypes
  <1> QED
    BY <1>1, <1>2, <1>3, <1>4, <1>5, <1>6, <1>7, <1>8 DEF PipelineNext

-----------------------------------------------------------------------------
(* The write pipeline of pebbledb2: requests and the channel *)

\* A request that is appended is among those of the sequence, and so are the others.
LEMMA AsksAppend ==
    ASSUME NEW s \in Seq(Requests), NEW r \in Requests
    PROVE  Asks(Append(s, r), r.caller) /\ \A c : Asks(s, c) => Asks(Append(s, r), c)
  <1>1. Asks(Append(s, r), r.caller)
    BY SeqAppend DEF Asks
  <1>2. ASSUME NEW c, Asks(s, c) PROVE Asks(Append(s, r), c)
    <2>1. PICK i \in DOMAIN s : s[i].caller = c
      BY <1>2 DEF Asks
    <2>2. i \in DOMAIN Append(s, r) /\ Append(s, r)[i] = s[i]
      BY SeqAppend
    <2> QED
      BY <2>1, <2>2 DEF Asks
  <1> QED
    BY <1>1, <1>2

\* Who asks in a sequence asks at its head or behind it.
LEMMA AsksTail ==
    ASSUME NEW s \in Seq(Requests), s # <<>>, NEW c, Asks(s, c)
    PROVE  c = Head(s).caller \/ Asks(Tail(s), c)
  <1>1. PICK i \in DOMAIN s : s[i].caller = c
    BY DEF Asks
  <1>2. Head(s) = s[1] /\ (i = 1 \/ (i - 1 \in DOMAIN Tail(s) /\ Tail(s)[i - 1] = s[i]))
    BY SeqTail
  <1> QED
    BY <1>1, <1>2 DEF Asks

\* The steps of a caller lose no request, and none of them sends on a closed channel.
LEMMA RequestsOfCallers ==
    ASSUME PipelineTypes, RequestsInv, NEW c \in Callers,
           \/ CallerLocks(c) \/ CallerSends(c) \/ CallerReturns(c)
           \/ \E e \in PipelineEvents : CallWrite(c, e) \/ CallDelete(c, e)
    PROVE  RequestsInv'
  <1>1. /\ CallerStep
        /\ \A d \in Callers : d # c => ppCaller'[d] = ppCaller[d]
        /\ ppCaller'[c].pc = "send" => ~ppClosed
        /\ \/ ppCaller'[c].pc # "wait" /\ UNCHANGED ppQueue
           \/ /\ ppCaller[c].pc = "send"
              /\ \E r \in Requests : r.caller = c /\ ppQueue' = Append(ppQueue, r)
    BY CallerStepIs
  <1>2. ChannelInv'
    BY <1>1 DEF RequestsInv, ChannelInv, CallerStep, HasItsRequest
  <1>3. ASSUME NEW d \in Callers PROVE HasItsRequest(d)'
    <2>1. CASE UNCHANGED ppQueue /\ ppCaller'[c].pc # "wait"
      BY <1>1, <2>1 DEF CallerStep, RequestsInv, HasItsRequest, Asks, ChannelInv
    <2>2. ASSUME NEW r \in Requests, r.caller = c, ppQueue' = Append(ppQueue, r) PROVE HasItsRequest(d)'
      <3>1. Asks(ppQueue', c) /\ (Asks(ppQueue, d) => Asks(ppQueue', d))
        BY <2>2, AsksAppend DEF PipelineTypes
      <3>2. Asks(ppQueue, d)' <=> Asks(ppQueue', d)
        BY DEF Asks
      <3>3. Asks(ppGroup, d)' <=> Asks(ppGroup, d)
        BY <1>1 DEF Asks, CallerStep
      <3> QED
        BY <1>1, <3>1, <3>2, <3>3 DEF CallerStep, RequestsInv, HasItsRequest, ChannelInv
    <2> QED
      BY <1>1, <2>1, <2>2
  <1>4. (ChannelInv /\ \A d \in Callers : HasItsRequest(d))'
    BY <1>2, <1>3
  <1> QED
    BY <1>4 DEF RequestsInv, ChannelInv, HasItsRequest

\* What the writer takes from the channel is in its group.
LEMMA RequestsOfWriter ==
    ASSUME PipelineTypes, RequestsInv, WriterReceives \/ WriterCollects
    PROVE  RequestsInv'
  <1>1. /\ UNCHANGED <<ppOpen, ppClosed, ppCloser, ppCaller, ppBatch>>
        /\ ppWriter \in {"receive", "collect"} /\ ppWriter' \in {"collect", "ended"}
        /\ ppWriter' = "ended" => ppWriter = "receive"
    BY DEF WriterReceives, WriterCollects, WriterKeeps
  <1>2. CASE UNCHANGED <<ppGroup, ppQueue>>
    BY <1>1, <1>2 DEF RequestsInv, Asks, ChannelInv, HasItsRequest
  <1>3. CASE ppQueue # <<>> /\ ppGroup' = Append(ppGroup, Head(ppQueue)) /\ ppQueue' = Tail(ppQueue) /\ ppWriter' = "collect"
    <2>1. ChannelInv'
      BY <1>1, <1>3 DEF RequestsInv, ChannelInv, HasItsRequest
    <2>2. ASSUME NEW c \in Callers PROVE HasItsRequest(c)'
      <3>0. Head(ppQueue) \in Requests
        BY <1>3, SeqTail DEF PipelineTypes
      <3>1. Asks(ppGroup', Head(ppQueue).caller) /\ (Asks(ppGroup, c) => Asks(ppGroup', c))
        BY <1>3, <3>0, AsksAppend DEF PipelineTypes
      <3>2. Asks(ppQueue, c) => c = Head(ppQueue).caller \/ Asks(ppQueue', c)
        BY <1>3, AsksTail DEF PipelineTypes
      <3>3. (Asks(ppQueue, c)' <=> Asks(ppQueue', c)) /\ (Asks(ppGroup, c)' <=> Asks(ppGroup', c))
        BY DEF Asks
      <3>4. HasItsRequest(c)
        BY DEF RequestsInv, ChannelInv, HasItsRequest
      <3> QED
        BY <1>1, <3>1, <3>2, <3>3, <3>4 DEF HasItsRequest
    <2>3. (ChannelInv /\ \A d \in Callers : HasItsRequest(d))'
      BY <2>1, <2>2
    <2> QED
      BY <2>3 DEF RequestsInv, ChannelInv, HasItsRequest
  <1>4. ASSUME WriterReceives, ~UNCHANGED <<ppGroup, ppQueue>>
        PROVE  ppQueue # <<>> /\ ppGroup' = Append(ppGroup, Head(ppQueue)) /\ ppQueue' = Tail(ppQueue) /\ ppWriter' = "collect"
    <2>1. ppQueue # <<>> /\ ppGroup' = <<Head(ppQueue)>> /\ ppQueue' = Tail(ppQueue) /\ ppWriter' = "collect"
      BY <1>4 DEF WriterReceives
    <2>2. ppGroup = <<>>
      BY <1>4 DEF WriterReceives, RequestsInv, ChannelInv, HasItsRequest
    <2>3. Append(<<>>, Head(ppQueue)) = <<Head(ppQueue)>>
      <3>1. Head(ppQueue) \in Requests
        BY <2>1, SeqTail DEF PipelineTypes
      <3> QED
        BY <3>1
    <2> QED
      BY <2>1, <2>2, <2>3
  <1>5. ASSUME WriterCollects
        PROVE  ppQueue # <<>> /\ ppGroup' = Append(ppGroup, Head(ppQueue)) /\ ppQueue' = Tail(ppQueue) /\ ppWriter' = "collect"
    BY <1>5 DEF WriterCollects
  <1> QED
    BY <1>2, <1>3, <1>4, <1>5

\* A request that is decided has its answer or waits for the commit.
LEMMA RequestsOfDecisions ==
    ASSUME PipelineTypes, RequestsInv, NEW r \in Requests, Decided(r)
    PROVE  RequestsInv'
  <1>1. /\ UNCHANGED <<ppOpen, ppClosed, ppCloser, ppQueue, ppWriter>> /\ ppWriter = "decide"
        /\ ppGroup # <<>> /\ r = Head(ppGroup) /\ ppGroup' = Tail(ppGroup)
        /\ \/ ppCaller' = Answer(ppCaller, r.caller, "no") /\ ppBatch'.pending = ppBatch.pending
           \/ ppCaller' = ppCaller /\ ppBatch'.pending = ppBatch.pending \cup {r.caller}
    BY DEF Decided, DecideKeeps, WriterKeeps
  <1>2. /\ \A c \in Callers : ppCaller'[c].pc = ppCaller[c].pc
        /\ \A c \in Callers : \/ ppCaller'[c] = ppCaller[c] /\ ppBatch'.pending = ppBatch.pending /\ c # r.caller
                              \/ ppCaller'[c].answer = "no"
                              \/ ppCaller'[c] = ppCaller[c] /\ ppBatch'.pending = ppBatch.pending \cup {r.caller}
    <2>1. r.caller \in Callers
      BY DEF Requests
    <2>2. CASE ppCaller' = Answer(ppCaller, r.caller, "no") /\ ppBatch'.pending = ppBatch.pending
      <3>1. \A d \in Callers : /\ ppCaller'[d].pc = ppCaller[d].pc
                               /\ d # r.caller => ppCaller'[d] = ppCaller[d]
                               /\ d = r.caller => ppCaller'[d].answer = "no"
        BY <2>1, <2>2, AnswerIs
      <3> QED
        BY <2>2, <3>1
    <2>3. CASE ppCaller' = ppCaller /\ ppBatch'.pending = ppBatch.pending \cup {r.caller}
      BY <2>3
    <2> QED
      BY <1>1, <2>2, <2>3
  <1>3. ChannelInv'
    BY <1>1, <1>2 DEF RequestsInv, ChannelInv, HasItsRequest
  <1>4. ASSUME NEW c \in Callers PROVE HasItsRequest(c)'
    <2>1. Asks(ppGroup, c) => c = r.caller \/ Asks(ppGroup', c)
      BY <1>1, AsksTail DEF PipelineTypes
    <2>2. (Asks(ppQueue, c)' <=> Asks(ppQueue, c)) /\ (Asks(ppGroup, c)' <=> Asks(ppGroup', c))
      BY <1>1 DEF Asks
    <2>3. HasItsRequest(c)
      BY DEF RequestsInv, ChannelInv, HasItsRequest
    <2> QED
      BY <1>1, <1>2, <2>1, <2>2, <2>3 DEF HasItsRequest
  <1>5. (ChannelInv /\ \A d \in Callers : HasItsRequest(d))'
    BY <1>3, <1>4
  <1> QED
    BY <1>5 DEF RequestsInv, ChannelInv, HasItsRequest

\* Every step keeps the requests and the channel.
LEMMA RequestsStep ==
    ASSUME PipelineTypes, BatchInv, RequestsInv, [PipelineNext]_ppVars
    PROVE  RequestsInv'
  <1>1. CASE UNCHANGED ppVars
    BY <1>1 DEF ppVars, RequestsInv, Asks, ChannelInv, HasItsRequest
  <1>2. ASSUME NEW c \in Callers,
               \/ CallerLocks(c) \/ CallerSends(c) \/ CallerReturns(c)
               \/ \E e \in PipelineEvents : CallWrite(c, e) \/ CallDelete(c, e)
        PROVE  RequestsInv'
    BY <1>2, RequestsOfCallers
  <1>3. CASE CloseStart \/ CloseChannel \/ CloseEnds
    <2>1. UNCHANGED <<ppQueue, ppGroup, ppCaller, ppBatch, ppWriter>>
      BY <1>3 DEF CloseStart, CloseChannel, CloseEnds, CloseStep
    <2>2. ChannelInv'
      BY <1>3, <2>1 DEF CloseStart, CloseChannel, CloseEnds, Reading, RequestsInv, ChannelInv, HasItsRequest
    <2>3. \A c \in Callers : HasItsRequest(c)'
      BY <2>1 DEF RequestsInv, HasItsRequest, Asks, ChannelInv
    <2>4. (ChannelInv /\ \A d \in Callers : HasItsRequest(d))'
      BY <2>2, <2>3
    <2> QED
      BY <2>4 DEF RequestsInv, ChannelInv, HasItsRequest
  <1>4. CASE WriterReceives \/ WriterCollects
    BY <1>4, RequestsOfWriter
  <1>5. CASE GroupStarts
    <2>1. /\ ppWriter = "collect" /\ ppWriter' = "decide" /\ WriterKeeps
          /\ UNCHANGED <<ppQueue, ppCaller, ppGroup>> /\ ppBatch'.pending = {}
      BY <1>5, StartIs
    <2> QED
      BY <2>1 DEF WriterKeeps, RequestsInv, Asks, ChannelInv, HasItsRequest
  <1>6. CASE DecideSave \/ DecideDelete \/ DecideReplace
    <2>1. PICK r \in Requests : Decided(r)
      BY <1>6, DecisionIs
    <2> QED
      BY <2>1, RequestsOfDecisions
  <1>7. CASE GroupCommits \/ GroupFails
    <2>1. /\ ppWriter = "decide" /\ ppGroup = <<>> /\ ppWriter' = "receive" /\ UNCHANGED <<ppQueue, ppGroup>>
          /\ WriterKeeps /\ ppBatch'.pending = {}
          /\ \A c \in Callers : /\ ppCaller'[c].pc = ppCaller[c].pc
                                /\ c \notin ppBatch.pending => ppCaller'[c] = ppCaller[c]
                                /\ c \in ppBatch.pending => ppCaller'[c].answer # "none"
      BY <1>7, EndIs
    <2> QED
      BY <2>1 DEF WriterKeeps, RequestsInv, Asks, ChannelInv, HasItsRequest
  <1> QED
    BY <1>1, <1>2, <1>3, <1>4, <1>5, <1>6, <1>7 DEF PipelineNext

-----------------------------------------------------------------------------
(* The write pipeline of pebbledb2: the batch of a group *)

\* A group starts with a batch that says what the database says.
LEMMA BatchStarts ==
    ASSUME PipelineTypes, DataInv, GroupStarts
    PROVE  BatchInv'
  <1>1. /\ UNCHANGED <<Database, ppGroup, ppSpared>>
        /\ ppBatch'.raw = ppRaw /\ ppBatch'.keys = ppKeys /\ ppBatch'.seenSave = {} /\ ppBatch'.seenDel = {}
        /\ ppBatch'.ledger = <<>>
        /\ ppBatch'.deltas = [k \in CounterKeys |-> 0]
        /\ ppBatch'.known = {e \in ppRaw : \E i \in DOMAIN ppGroup : ppGroup[i].op = "save" /\ ppGroup[i].ev = e}
    BY StartIs
  <1>2. UNCHANGED <<ppRaw, ppKeys, ppCounters>>
    BY <1>1 DEF Database
  <1>3. BatchIsExact'
    BY <1>1, <1>2 DEF DataInv, BatchIsExact, Sums
  <1>4. BatchReaches' /\ KnownInv' /\ OneIn(ppBatch.raw)'
    BY <1>1, <1>2 DEF DataInv, BatchReaches, KnownInv, OneIn
  <1>5. LedgersInv'
    BY <1>1 DEF LedgersInv
  <1> QED
    BY <1>3, <1>4, <1>5 DEF BatchInv, BatchIsExact, BatchReaches, KnownInv, LedgersInv

\* What a decision leaves behind it: the events that were looked up, for the rest of the group.
LEMMA KnownStays ==
    ASSUME PipelineTypes, BatchInv, NEW r \in Requests, Decided(r)
    PROVE  /\ KnownInv' /\ UNCHANGED <<ppRaw, ppKeys, ppCounters>> /\ BatchIs(ppBatch')
           /\ ppBatch'.known = ppBatch.known /\ ppWriter = "decide"
           /\ r.op = "save" /\ r.ev \in ppRaw => r.ev \in ppBatch.known
           /\ r.ev \in PipelineEvents /\ (r.op # "delete" => r.op = OpFor(r.ev))
  <1>1. /\ ppWriter = "decide" /\ ppGroup # <<>> /\ r = Head(ppGroup) /\ ppGroup' = Tail(ppGroup)
        /\ UNCHANGED <<ppRaw, ppKeys, ppCounters>> /\ BatchIs(ppBatch') /\ ppBatch'.known = ppBatch.known
    BY DEF Decided, DecideKeeps, Database
  <1>2. /\ 1 \in DOMAIN ppGroup /\ Head(ppGroup) = ppGroup[1]
        /\ \A i \in DOMAIN Tail(ppGroup) : i + 1 \in DOMAIN ppGroup /\ Tail(ppGroup)[i] = ppGroup[i + 1]
    BY <1>1, SeqTail DEF PipelineTypes
  <1>3. KnownInv
    BY <1>1 DEF BatchInv, KnownInv, BatchIsExact, BatchReaches, LedgersInv
  <1>4. KnownInv'
    BY <1>1, <1>2, <1>3 DEF KnownInv
  <1>5. r.op = "save" /\ r.ev \in ppRaw => r.ev \in ppBatch.known
    BY <1>1, <1>2, <1>3 DEF KnownInv
  <1> QED
    BY <1>1, <1>4, <1>5 DEF Requests

\* Versions of one key are all replaceable, or none of them is.
LEMMA SameOp ==
    ASSUME NEW x, NEW y, ReplaceKey(x) = ReplaceKey(y)
    PROVE  OpFor(x) = OpFor(y)
  BY DEF ReplaceKey, OpFor

\* A save keeps the batch exact.
LEMMA SaveKeeps ==
    ASSUME PipelineTypes, BatchInv, DecideSave
    PROVE  BatchInv'
  <1>0. PICK r \in Requests :
             /\ Decided(r) /\ r.op = "save" /\ UNCHANGED ppSpared
             /\ ppBatch'.seenSave = ppBatch.seenSave \cup {r.ev}
             /\ ppBatch'.seenDel = ppBatch.seenDel /\ ppBatch'.ledger = ppBatch.ledger
             /\ \/ r.ev \in ppBatch.seenSave \cup ppBatch.known /\ SameEvents
                \/ /\ r.ev \notin ppBatch.seenSave \cup ppBatch.known
                   /\ ppBatch'.raw = ppBatch.raw \cup {r.ev}
                   /\ ppBatch'.keys = ppBatch.keys \cup Entries("pebble2", {r.ev})
                   /\ \A k \in CounterKeys : ppBatch'.deltas[k] =
                        IF k \in AllCounters(r.ev) THEN ppBatch.deltas[k] + 1 ELSE ppBatch.deltas[k]
    BY SaveIs
  <1>00. PICK e : e = r.ev
    OBVIOUS
  <1>1. /\ KnownInv' /\ UNCHANGED <<ppRaw, ppKeys, ppCounters>>
        /\ ppBatch'.known = ppBatch.known /\ ppWriter = "decide"
        /\ (e \in ppRaw => e \in ppBatch.known) /\ e \in PipelineEvents /\ OpFor(e) = "save"
    BY <1>0, <1>00, KnownStays
  <1>2. BatchIsExact /\ BatchReaches /\ OneIn(ppBatch.raw) /\ LedgersInv
    BY <1>1 DEF BatchInv, BatchIsExact, BatchReaches, LedgersInv, KnownInv
  <1>3. \/ e \in ppBatch.seenSave \cup ppBatch.known /\ SameEvents
        \/ e \notin ppRaw \cup ppBatch.raw /\ ppBatch'.raw = ppBatch.raw \cup {e}
    BY <1>0, <1>00, <1>1, <1>2 DEF BatchReaches
  <1>4. ppBatch'.raw = ppBatch.raw \/ ppBatch'.raw = ppBatch.raw \cup {e}
    BY <1>3 DEF SameEvents
  <1>5. BatchReaches'
    BY <1>0, <1>00, <1>1, <1>2, <1>3 DEF BatchReaches, SameEvents
  <1>6. OneIn(ppBatch.raw)'
    <2>1. ASSUME NEW x \in ppBatch'.raw, NEW y \in ppBatch'.raw, AreVersions(x, y) PROVE {y, x} \cap ppSpared # {}
      <3>1. OpFor(x) = "replace" /\ OpFor(y) = "replace"
        BY <2>1, SameOp DEF AreVersions
      <3>2. x \in ppBatch.raw /\ y \in ppBatch.raw
        BY <1>1, <1>4, <3>1
      <3> QED
        BY <1>2, <2>1, <3>2 DEF OneIn
    <2> QED
      BY <1>0, <2>1 DEF OneIn
  <1>7. LedgersInv'
    <2>1. ASSUME NEW key \in DOMAIN ppBatch.ledger
          PROVE  LedgerEntry(key, ppBatch.ledger[key])'
      <3>1. LedgerEntry(key, ppBatch.ledger[key])
        BY <1>2 DEF LedgersInv
      <3> QED
        BY <1>0, <1>00, <1>1, <1>4, <3>1 DEF LedgerEntry, FoundAgain
    <2> QED
      BY <1>0, <1>00, <1>1, <1>2, <2>1 DEF LedgersInv
  <1>8. BatchIsExact'
    <2>1. CASE SameEvents
      BY <1>1, <1>2, <2>1 DEF SameEvents, BatchIsExact, Sums
    <2>2. CASE ~SameEvents
      <3>1. /\ e \notin ppBatch.raw /\ ppBatch'.raw = ppBatch.raw \cup {e}
            /\ ppBatch'.keys = ppBatch.keys \cup Entries("pebble2", {e})
            /\ \A k \in CounterKeys : ppBatch'.deltas[k] =
                 IF k \in AllCounters(e) THEN ppBatch.deltas[k] + 1 ELSE ppBatch.deltas[k]
        BY <1>0, <1>00, <1>3, <2>2
      <3>2. ppBatch'.keys = Entries("pebble2", ppBatch'.raw)
        BY <1>2, <3>1, EntriesAdd DEF BatchIsExact
      <3>3. ASSUME NEW k \in CounterKeys, Good(k)
            PROVE  ppCounters[k] + ppBatch'.deltas[k] = Counted(k, ppBatch'.raw)
        <4>1. Counted(k, ppBatch'.raw) =
                 IF k \in AllCounters(e) THEN Counted(k, ppBatch.raw) + 1 ELSE Counted(k, ppBatch.raw)
          <5>1. ppBatch.raw \in SUBSET PipelineEvents
            BY DEF PipelineTypes, BatchIs, Fields
          <5>2. PICK S : S = ppBatch.raw
            OBVIOUS
          <5>3. Counted(k, S \cup {e}) = IF k \in AllCounters(e) THEN Counted(k, S) + 1 ELSE Counted(k, S)
            BY <1>1, <3>1, <5>1, <5>2, CountedAdds
          <5> QED
            BY <3>1, <5>2, <5>3
        <4>2. ppCounters[k] + ppBatch.deltas[k] = Counted(k, ppBatch.raw)
          BY <1>2, <3>3 DEF BatchIsExact, Sums
        <4>3. ppCounters[k] \in Int /\ ppBatch.deltas[k] \in Int
          BY DEF PipelineTypes, BatchIs, Fields
        <4> QED
          BY <3>1, <4>1, <4>2, <4>3
      <3> QED
        BY <1>1, <3>2, <3>3 DEF BatchIsExact, Sums
    <2> QED
      BY <2>1, <2>2
  <1> QED
    BY <1>1, <1>5, <1>6, <1>7, <1>8 DEF BatchInv, BatchIsExact, BatchReaches, KnownInv, LedgersInv

\* A deletion keeps the batch exact.
LEMMA DeleteKeeps ==
    ASSUME PipelineTypes, BatchInv, DecideDelete
    PROVE  BatchInv'
  <1>0. PICK r \in Requests :
             /\ Decided(r) /\ r.op = "delete" /\ UNCHANGED ppSpared
             /\ ppBatch'.seenSave = ppBatch.seenSave
             /\ ppBatch'.seenDel = ppBatch.seenDel \cup {r.ev} /\ ppBatch'.ledger = ppBatch.ledger
             /\ \/ SameEvents /\ (r.ev \in ppBatch.seenDel \/ r.ev \notin ppRaw)
                \/ /\ r.ev \notin ppBatch.seenDel /\ r.ev \in ppRaw
                   /\ ppBatch'.raw = ppBatch.raw \ {r.ev}
                   /\ ppBatch'.keys = ppBatch.keys \ Entries("pebble2", {r.ev})
                   /\ \A k \in CounterKeys : ppBatch'.deltas[k] =
                        IF k \in AllCounters(r.ev) THEN ppBatch.deltas[k] - 1 ELSE ppBatch.deltas[k]
    BY DeleteIs
  <1>00. PICK e : e = r.ev
    OBVIOUS
  <1>1. /\ KnownInv' /\ UNCHANGED <<ppRaw, ppKeys, ppCounters>>
        /\ ppBatch'.known = ppBatch.known /\ ppWriter = "decide" /\ e \in PipelineEvents
    BY <1>0, <1>00, KnownStays
  <1>2. BatchIsExact /\ BatchReaches /\ OneIn(ppBatch.raw) /\ LedgersInv
    BY <1>1 DEF BatchInv, BatchIsExact, BatchReaches, LedgersInv, KnownInv
  <1>3. \/ SameEvents
        \/ e \in ppBatch.raw /\ ppBatch'.raw = ppBatch.raw \ {e}
    <2>1. \/ SameEvents
          \/ e \notin ppBatch.seenDel /\ e \in ppRaw /\ ppBatch'.raw = ppBatch.raw \ {e}
      BY <1>0, <1>00
    <2> QED
      <3>1. (ppRaw \cup ppBatch.seenSave) \ ppBatch.seenDel \subseteq ppBatch.raw
        BY <1>2 DEF BatchReaches
      <3>2. CASE e \notin ppBatch.seenDel /\ e \in ppRaw /\ ppBatch'.raw = ppBatch.raw \ {e}
        BY <3>1, <3>2
      <3> QED
        BY <2>1, <3>2
  <1>4. ppBatch'.raw \subseteq ppBatch.raw
    BY <1>3 DEF SameEvents
  <1>5. BatchReaches'
    BY <1>0, <1>00, <1>1, <1>2, <1>3 DEF BatchReaches, SameEvents
  <1>6. OneIn(ppBatch.raw)'
    BY <1>0, <1>2, <1>4 DEF OneIn
  <1>7. LedgersInv'
    <2>1. ASSUME NEW key \in DOMAIN ppBatch.ledger
          PROVE  LedgerEntry(key, ppBatch.ledger[key])'
      <3>1. LedgerEntry(key, ppBatch.ledger[key])
        BY <1>2 DEF LedgersInv
      <3> QED
        BY <1>0, <1>1, <1>4, <3>1 DEF LedgerEntry
    <2> QED
      BY <1>0, <1>2, <2>1 DEF LedgersInv
  <1>8. BatchIsExact'
    <2>1. CASE SameEvents
      BY <1>1, <1>2, <2>1 DEF SameEvents, BatchIsExact, Sums
    <2>2. CASE ~SameEvents
      <3>1. /\ e \in ppBatch.raw /\ ppBatch'.raw = ppBatch.raw \ {e}
            /\ ppBatch'.keys = ppBatch.keys \ Entries("pebble2", {e})
            /\ \A k \in CounterKeys : ppBatch'.deltas[k] =
                 IF k \in AllCounters(e) THEN ppBatch.deltas[k] - 1 ELSE ppBatch.deltas[k]
        BY <1>0, <1>00, <1>3, <2>2
      <3>2. ppBatch'.keys = Entries("pebble2", ppBatch'.raw)
        BY <1>2, <3>1, EntriesRemove DEF BatchIsExact
      <3>3. ASSUME NEW k \in CounterKeys, Good(k)
            PROVE  ppCounters[k] + ppBatch'.deltas[k] = Counted(k, ppBatch'.raw)
        <4>0. PICK S : S = ppBatch'.raw
          OBVIOUS
        <4>00. S \in SUBSET PipelineEvents /\ e \notin S /\ S \cup {e} = ppBatch.raw
          BY <3>1, <4>0 DEF PipelineTypes, BatchIs, Fields
        <4>1. Counted(k, S) \in Nat /\ Counted(k, S \cup {e}) =
                 IF k \in AllCounters(e) THEN Counted(k, S) + 1 ELSE Counted(k, S)
          BY <1>1, <4>00, CountedAdds
        <4>2. ppCounters[k] + ppBatch.deltas[k] = Counted(k, ppBatch.raw)
          BY <1>2, <3>3 DEF BatchIsExact, Sums
        <4>3. ppCounters[k] \in Int /\ ppBatch.deltas[k] \in Int
          BY DEF PipelineTypes, BatchIs, Fields
        <4> QED
          <5>1. Counted(k, ppBatch.raw) = IF k \in AllCounters(e) THEN Counted(k, S) + 1 ELSE Counted(k, S)
            BY <4>00, <4>1
          <5>2. ppBatch'.deltas[k] = IF k \in AllCounters(e) THEN ppBatch.deltas[k] - 1 ELSE ppBatch.deltas[k]
            BY <3>1
          <5>3. Counted(k, S) \in Nat /\ Counted(k, ppBatch'.raw) = Counted(k, S)
            BY <4>0, <4>1
          <5>4. CASE k \in AllCounters(e)
            BY <4>2, <4>3, <5>1, <5>2, <5>3, <5>4
          <5>5. CASE k \notin AllCounters(e)
            BY <4>2, <4>3, <5>1, <5>2, <5>3, <5>5
          <5> QED
            BY <5>4, <5>5
      <3> QED
        BY <1>1, <3>2, <3>3 DEF BatchIsExact, Sums
    <2> QED
      BY <2>1, <2>2
  <1> QED
    BY <1>1, <1>5, <1>6, <1>7, <1>8 DEF BatchInv, BatchIsExact, BatchReaches, KnownInv, LedgersInv

\* Who wins is new, in the database and in the batch, and is newer than all its key has had.
LEMMA WinnerIsNew ==
    ASSUME PipelineTypes, BatchInv, ppWriter = "decide", NEW e \in PipelineEvents, OpFor(e) = "replace", Wins(e)
    PROVE  /\ e \notin ppBatch.seenSave
           /\ HasItsD(e) => e \notin ppBatch.raw
           /\ \A y \in ppRaw : FoundAgain(y) /\ ReplaceKey(y) = ReplaceKey(e) => CreatedAt[e] >= CreatedAt[y]
           /\ \A y \in ppBatch.seenSave : OpFor(y) = "replace" /\ ReplaceKey(y) = ReplaceKey(e) => CreatedAt[e] >= CreatedAt[y]
           /\ Before(e) \ ppBatch.seenDel \subseteq ppBatch.raw /\ e \notin Before(e)
           /\ \A x \in ppBatch.raw : FoundAgain(x) /\ ReplaceKey(x) = ReplaceKey(e) => x = e \/ x \in Before(e) \cup ppSpared
  <1>0. PICK st : st = LedgerOf(e)
    OBVIOUS
  <1>1. LedgerEntry(ReplaceKey(e), st)
    BY <1>0, LedgerFacts
  <1>2. \A y \in PipelineEvents : CreatedAt[y] \in Nat
    BY EventAssumption, PipelineAssumption
  <1>3. st.old \cup st.newest \subseteq PipelineEvents
    BY <1>0, LedgerInEvents
  <1>4. \A n \in st.newest : CreatedAt[n] < CreatedAt[e]
    BY <1>0 DEF Wins
  <1>5. ppRaw \subseteq PipelineEvents /\ ppBatch.seenSave \subseteq PipelineEvents
    BY DEF PipelineTypes, BatchIs, Fields
  <1>6. ASSUME NEW y \in PipelineEvents, \E n \in st.newest : CreatedAt[n] >= CreatedAt[y]
        PROVE  CreatedAt[e] > CreatedAt[y] /\ y # e
    <2>1. PICK n \in st.newest : CreatedAt[n] >= CreatedAt[y]
      BY <1>6
    <2>2. CreatedAt[n] \in Nat /\ CreatedAt[y] \in Nat /\ CreatedAt[e] \in Nat /\ CreatedAt[n] < CreatedAt[e]
      BY <1>2, <1>3, <1>4
    <2>3. CreatedAt[e] > CreatedAt[y]
      BY <2>1, <2>2
    <2> QED
      BY <2>2, <2>3
  <1>7. \A y \in ppRaw : FoundAgain(y) /\ ReplaceKey(y) = ReplaceKey(e) => CreatedAt[e] > CreatedAt[y] /\ y # e
    BY <1>1, <1>5, <1>6 DEF LedgerEntry
  <1>8. \A y \in ppBatch.seenSave : OpFor(y) = "replace" /\ ReplaceKey(y) = ReplaceKey(e) => CreatedAt[e] > CreatedAt[y] /\ y # e
    BY <1>1, <1>5, <1>6 DEF LedgerEntry
  <1>9. \A y \in PipelineEvents : CreatedAt[e] > CreatedAt[y] => CreatedAt[e] >= CreatedAt[y]
    BY <1>2
  <1>10. BatchReaches
    BY DEF BatchInv, BatchReaches, BatchIsExact, KnownInv, LedgersInv
  <1>11. e \notin ppBatch.seenSave
    BY <1>8
  <1>12. HasItsD(e) => e \notin ppBatch.raw
    BY <1>7, <1>10, <1>11 DEF BatchReaches, FoundAgain
  <1>13. Before(e) = (st.old \cup st.newest) \ {e} /\ Before(e) \subseteq ppRaw \cup ppBatch.seenSave
    BY <1>0, <1>1 DEF Before, LedgerEntry
  <1>14. Before(e) \ ppBatch.seenDel \subseteq ppBatch.raw
    BY <1>10, <1>13 DEF BatchReaches
  <1>15. \A x \in ppBatch.raw : FoundAgain(x) /\ ReplaceKey(x) = ReplaceKey(e) => x = e \/ x \in Before(e) \cup ppSpared
    BY <1>1, <1>13 DEF LedgerEntry
  <1>16. \A y \in ppRaw : FoundAgain(y) /\ ReplaceKey(y) = ReplaceKey(e) => CreatedAt[e] >= CreatedAt[y]
    BY <1>5, <1>7, <1>9
  <1>17. \A y \in ppBatch.seenSave : OpFor(y) = "replace" /\ ReplaceKey(y) = ReplaceKey(e) => CreatedAt[e] >= CreatedAt[y]
    BY <1>5, <1>8, <1>9
  <1> QED
    BY <1>11, <1>12, <1>13, <1>14, <1>15, <1>16, <1>17

\* A version that is refused leaves the batch alone; the ledger remembers what was looked up.
LEMMA RefusedKeeps ==
    ASSUME PipelineTypes, BatchInv, NEW r \in Requests, Decided(r), r.op = "replace", NEW e, e = r.ev,
           UNCHANGED ppSpared, SameEvents,
           ppBatch'.seenSave = ppBatch.seenSave, ppBatch'.seenDel = ppBatch.seenDel,
           ppBatch'.ledger = Record(ppBatch.ledger, ReplaceKey(e), LedgerOf(e))
    PROVE  BatchInv'
  <1>1. /\ KnownInv' /\ UNCHANGED <<ppRaw, ppKeys, ppCounters>>
        /\ ppBatch'.known = ppBatch.known /\ ppWriter = "decide"
        /\ e \in PipelineEvents /\ OpFor(e) = "replace"
    BY KnownStays
  <1>2. BatchIsExact /\ BatchReaches /\ OneIn(ppBatch.raw) /\ LedgersInv
    BY <1>1 DEF BatchInv, BatchIsExact, BatchReaches, LedgersInv, KnownInv
  <1>3. BatchIsExact' /\ BatchReaches' /\ OneIn(ppBatch.raw)'
    BY <1>1, <1>2 DEF SameEvents, BatchIsExact, Sums, BatchReaches, OneIn
  <1>4. LedgersInv'
    <2>0. PICK st : st = LedgerOf(e)
      OBVIOUS
    <2>00. PICK mine : mine = ReplaceKey(e)
      OBVIOUS
    <2>1. LedgerEntry(mine, st)
      BY <1>1, <2>0, <2>00, LedgerFacts
    <2>2. ppBatch'.ledger = Record(ppBatch.ledger, mine, st)
      BY <2>0, <2>00
    <2>3. /\ DOMAIN ppBatch'.ledger = DOMAIN ppBatch.ledger \cup {mine} /\ ppBatch'.ledger[mine] = st
          /\ \A k \in DOMAIN ppBatch.ledger : k # mine => ppBatch'.ledger[k] = ppBatch.ledger[k]
      BY <2>2 DEF Record
    <2>4. ASSUME NEW key \in DOMAIN ppBatch'.ledger PROVE LedgerEntry(key, ppBatch.ledger[key])'
      <3>1. LedgerEntry(key, ppBatch'.ledger[key])
        BY <1>2, <2>1, <2>3 DEF LedgersInv
      <3> QED
        BY <1>1, <3>1 DEF LedgerEntry, SameEvents
    <2> QED
      BY <1>2, <2>3, <2>4 DEF LedgersInv
  <1> QED
    BY <1>1, <1>3, <1>4 DEF BatchInv, BatchIsExact, BatchReaches, KnownInv, LedgersInv

\* A version that wins takes the place of all that came before it.
Takes(e, old) ==
    /\ ppSpared' = ppSpared \cup (Before(e) \cap ppBatch.seenDel \cap ppBatch.raw)
    /\ ppBatch'.seenSave = ppBatch.seenSave \cup {e} /\ ppBatch'.seenDel = ppBatch.seenDel \cup old
    /\ ppBatch'.ledger = Record(ppBatch.ledger, ReplaceKey(e), [newest |-> {e}, old |-> {}])
    /\ ppBatch'.raw = (ppBatch.raw \cup {e}) \ old
    /\ ppBatch'.keys = (ppBatch.keys \cup Entries("pebble2", {e})) \ Entries("pebble2", old)
    /\ \A k \in CounterKeys : ppBatch'.deltas[k] =
         (IF k \in AllCounters(e) THEN ppBatch.deltas[k] + 1 ELSE ppBatch.deltas[k]) - Counted(k, old)

\* The batch is exact after a version has won, and has one version but for the hidden.
LEMMA WinnerKeeps ==
    ASSUME PipelineTypes, BatchInv, NEW r \in Requests, Decided(r), r.op = "replace",
           NEW e, e = r.ev, Wins(e), NEW old, old = Before(e) \ ppBatch.seenDel,
           Takes(e, old)
    PROVE  BatchInv'
  <1>a. /\ ppSpared' = ppSpared \cup (Before(e) \cap ppBatch.seenDel \cap ppBatch.raw)
        /\ ppBatch'.seenSave = ppBatch.seenSave \cup {e} /\ ppBatch'.seenDel = ppBatch.seenDel \cup old
        /\ ppBatch'.ledger = Record(ppBatch.ledger, ReplaceKey(e), [newest |-> {e}, old |-> {}])
        /\ ppBatch'.raw = (ppBatch.raw \cup {e}) \ old
    BY DEF Takes
  <1>b. /\ ppBatch'.keys = (ppBatch.keys \cup Entries("pebble2", {e})) \ Entries("pebble2", old)
        /\ \A k \in CounterKeys : ppBatch'.deltas[k] =
             (IF k \in AllCounters(e) THEN ppBatch.deltas[k] + 1 ELSE ppBatch.deltas[k]) - Counted(k, old)
    BY DEF Takes
  <1>1. /\ KnownInv' /\ UNCHANGED <<ppRaw, ppKeys, ppCounters>>
        /\ ppBatch'.known = ppBatch.known /\ ppWriter = "decide"
        /\ e \in PipelineEvents /\ OpFor(e) = "replace"
    BY KnownStays
  <1>2. BatchIsExact /\ BatchReaches /\ OneIn(ppBatch.raw) /\ LedgersInv
    BY <1>1 DEF BatchInv, BatchIsExact, BatchReaches, LedgersInv, KnownInv
  <1>3. /\ HasItsD(e) => e \notin ppBatch.raw
        /\ \A y \in ppRaw : FoundAgain(y) /\ ReplaceKey(y) = ReplaceKey(e) => CreatedAt[e] >= CreatedAt[y]
        /\ \A y \in ppBatch.seenSave : OpFor(y) = "replace" /\ ReplaceKey(y) = ReplaceKey(e) => CreatedAt[e] >= CreatedAt[y]
        /\ old \subseteq ppBatch.raw /\ e \notin old
        /\ \A x \in ppBatch.raw : FoundAgain(x) /\ ReplaceKey(x) = ReplaceKey(e) => x = e \/ x \in Before(e) \cup ppSpared
    BY <1>1, WinnerIsNew
  <1>4. CreatedAt[e] \in Nat
    BY <1>1, EventAssumption, PipelineAssumption
  <1>5. \A x \in ppBatch'.raw : FoundAgain(x) /\ ReplaceKey(x) = ReplaceKey(e) => x = e \/ x \in ppSpared'
    BY <1>3, <1>a
  <1>6. BatchReaches'
    BY <1>1, <1>2, <1>3, <1>a DEF BatchReaches
  <1>7. OneIn(ppBatch.raw)'
    <2>1. ASSUME NEW x \in ppBatch'.raw, NEW y \in ppBatch'.raw, AreVersions(x, y) PROVE {y, x} \cap ppSpared' # {}
      <3>1. /\ FoundAgain(x) /\ FoundAgain(y) /\ x # y /\ ReplaceKey(x) = ReplaceKey(y)
        BY <2>1, SameOp DEF AreVersions, FoundAgain
      <3>2. CASE x = e \/ y = e
        BY <1>5, <3>1, <3>2
      <3>3. CASE x # e /\ y # e
        <4>1. x \in ppBatch.raw /\ y \in ppBatch.raw
          BY <1>a, <3>3
        <4> QED
          BY <1>2, <1>a, <2>1, <4>1 DEF OneIn
      <3> QED
        BY <3>2, <3>3
    <2> QED
      BY <2>1 DEF OneIn
  <1>8. LedgersInv'
    <2>0. PICK mine : mine = ReplaceKey(e)
      OBVIOUS
    <2>00. PICK st : st = [newest |-> {e}, old |-> {}]
      OBVIOUS
    <2>1. ppBatch'.ledger = Record(ppBatch.ledger, mine, st)
      BY <1>a, <2>0, <2>00
    <2>2. /\ DOMAIN ppBatch'.ledger = DOMAIN ppBatch.ledger \cup {mine} /\ ppBatch'.ledger[mine] = st
          /\ \A k \in DOMAIN ppBatch.ledger : k # mine => ppBatch'.ledger[k] = ppBatch.ledger[k]
      BY <2>1 DEF Record
    <2>3. LedgerEntry(mine, ppBatch.ledger[mine])'
      <3>1. ppBatch'.ledger[mine].newest = {e} /\ ppBatch'.ledger[mine].old = {}
        <4>1. st.newest = {e} /\ st.old = {}
          BY <2>00
        <4> QED
          BY <2>2, <4>1
      <3>2. \A x \in ppBatch'.raw : FoundAgain(x) /\ ReplaceKey(x) = mine => x \in {e} \cup ppSpared'
        BY <1>5, <2>0
      <3>3. \A y \in ppRaw' : FoundAgain(y) /\ ReplaceKey(y) = mine => CreatedAt[e] >= CreatedAt[y]
        BY <1>1, <1>3, <2>0
      <3>4. \A y \in ppBatch'.seenSave : OpFor(y) = "replace" /\ ReplaceKey(y) = mine => CreatedAt[e] >= CreatedAt[y]
        BY <1>3, <1>4, <1>a, <2>0
      <3> QED
        BY <1>a, <3>1, <3>2, <3>3, <3>4 DEF LedgerEntry
    <2>4. ASSUME NEW key \in DOMAIN ppBatch.ledger, key # mine PROVE LedgerEntry(key, ppBatch.ledger[key])'
      <3>1. LedgerEntry(key, ppBatch.ledger[key]) /\ ppBatch'.ledger[key] = ppBatch.ledger[key]
        BY <1>2, <2>2, <2>4 DEF LedgersInv
      <3>2. \A y \in ppBatch'.raw \cup ppBatch'.seenSave : ReplaceKey(y) = key => y \in ppBatch.raw \cup ppBatch.seenSave /\ y # e
        BY <1>a, <2>0, <2>4
      <3>3. ppBatch'.ledger[key].old \cup ppBatch'.ledger[key].newest \subseteq ppRaw' \cup ppBatch'.seenSave
        BY <1>1, <1>a, <3>1 DEF LedgerEntry
      <3>4. \A x \in ppBatch'.raw : FoundAgain(x) /\ ReplaceKey(x) = key =>
              x \in ppBatch'.ledger[key].old \cup ppBatch'.ledger[key].newest \cup ppSpared'
        BY <1>a, <3>1, <3>2 DEF LedgerEntry
      <3>5. \A y \in ppRaw' : FoundAgain(y) /\ ReplaceKey(y) = key => \E n \in ppBatch'.ledger[key].newest : CreatedAt[n] >= CreatedAt[y]
        BY <1>1, <3>1 DEF LedgerEntry
      <3>6. \A y \in ppBatch'.seenSave : OpFor(y) = "replace" /\ ReplaceKey(y) = key =>
              \E n \in ppBatch'.ledger[key].newest : CreatedAt[n] >= CreatedAt[y]
        BY <1>a, <3>1, <3>2 DEF LedgerEntry
      <3> QED
        BY <3>3, <3>4, <3>5, <3>6 DEF LedgerEntry
    <2>5. \A y \in ppBatch'.seenSave : OpFor(y) = "replace" => ReplaceKey(y) \in DOMAIN ppBatch'.ledger
      BY <1>2, <1>a, <2>0, <2>2 DEF LedgersInv
    <2> QED
      BY <2>2, <2>3, <2>4, <2>5 DEF LedgersInv
  <1>9. BatchIsExact'
    <2>0. PICK S : S = ppBatch.raw
      OBVIOUS
    <2>00. S \in SUBSET PipelineEvents /\ S \cup {e} \in SUBSET PipelineEvents /\ old \in SUBSET (S \cup {e})
      BY <1>1, <1>3, <2>0 DEF PipelineTypes, BatchIs, Fields
    <2>1. ppBatch'.keys = Entries("pebble2", ppBatch'.raw)
      <3>1. ASSUME NEW p PROVE p \in ppBatch'.keys <=> p \in Entries("pebble2", ppBatch'.raw)
        <4>1. \A T : p \in Entries("pebble2", T) <=> \E x \in T : \E k \in IndexKeys("pebble2", x) : p = <<k, x>>
          BY EntryOf
        <4>2. p \in ppBatch.keys <=> p \in Entries("pebble2", ppBatch.raw)
          BY <1>2 DEF BatchIsExact
        <4>3. p \in ppBatch'.keys <=> (p \in ppBatch.keys \/ p \in Entries("pebble2", {e})) /\ p \notin Entries("pebble2", old)
          BY <1>b
        <4>4. \A x : x \in ppBatch'.raw <=> (x \in ppBatch.raw \/ x \in {e}) /\ x \notin old
          BY <1>a
        <4> QED
          BY <4>1, <4>2, <4>3, <4>4
      <3>2. ppBatch'.keys \subseteq Entries("pebble2", ppBatch'.raw) /\ Entries("pebble2", ppBatch'.raw) \subseteq ppBatch'.keys
        BY <3>1
      <3> QED
        BY <3>2
    <2>2. ASSUME NEW k \in CounterKeys, Good(k)
          PROVE  ppCounters[k] + ppBatch'.deltas[k] = Counted(k, ppBatch'.raw)
      <3>1. ppCounters[k] + ppBatch.deltas[k] = Counted(k, S)
        BY <1>2, <2>0, <2>2 DEF BatchIsExact, Sums
      <3>2. ppCounters[k] \in Int /\ ppBatch.deltas[k] \in Int
        BY DEF PipelineTypes, BatchIs, Fields
      <3>3. PICK T : T = S \cup {e}
        OBVIOUS
      <3>4. /\ Counted(k, T) \in Nat /\ Counted(k, old) \in Nat
            /\ Counted(k, T \ old) = Counted(k, T) - Counted(k, old)
        BY <2>00, <3>3, CountedLoses
      <3>5. ppBatch'.raw = T \ old
        BY <1>a, <2>0, <3>3
      <3>6. CASE k \in AllCounters(e)
        <4>1. e \notin S
          BY <1>1, <1>3, <2>0, <2>2, <3>6 DEF Good
        <4>2. Counted(k, S) \in Nat /\ Counted(k, S \cup {e}) = Counted(k, S) + 1
          BY <1>1, <2>00, <3>6, <4>1, CountedAdds
        <4>3. ppBatch'.deltas[k] = (ppBatch.deltas[k] + 1) - Counted(k, old)
          BY <1>b, <3>6
        <4>4. PICK m : m = Counted(k, old)
          OBVIOUS
        <4>5. PICK n : n = Counted(k, S)
          OBVIOUS
        <4>6. ppBatch'.deltas[k] = (ppBatch.deltas[k] + 1) - m /\ m \in Nat /\ n \in Nat
          BY <3>4, <4>2, <4>3, <4>4, <4>5
        <4>7. ppCounters[k] + ppBatch.deltas[k] = n
          BY <3>1, <4>5
        <4>8. Counted(k, ppBatch'.raw) = (n + 1) - m
          BY <3>3, <3>4, <3>5, <4>2, <4>4, <4>5
        <4> QED
          BY <3>2, <4>6, <4>7, <4>8
      <3>7. CASE k \notin AllCounters(e)
        <4>1. Counted(k, T) = Counted(k, S)
          <5>1. {x \in T : k \in AllCounters(x)} = {x \in S : k \in AllCounters(x)}
            BY <3>3, <3>7
          <5> QED
            BY <5>1 DEF Counted
        <4>3. ppBatch'.deltas[k] = ppBatch.deltas[k] - Counted(k, old)
          BY <1>b, <3>7
        <4>4. PICK m : m = Counted(k, old)
          OBVIOUS
        <4>5. PICK n : n = Counted(k, S)
          OBVIOUS
        <4>6. ppBatch'.deltas[k] = ppBatch.deltas[k] - m /\ m \in Nat /\ n \in Nat
          BY <3>4, <4>1, <4>3, <4>4, <4>5
        <4>7. ppCounters[k] + ppBatch.deltas[k] = n
          BY <3>1, <4>5
        <4>8. Counted(k, ppBatch'.raw) = n - m
          BY <3>4, <3>5, <4>1, <4>4, <4>5
        <4> QED
          BY <3>2, <4>6, <4>7, <4>8
      <3> QED
        BY <3>6, <3>7
    <2> QED
      BY <1>1, <2>1, <2>2 DEF BatchIsExact, Sums
  <1> QED
    BY <1>1, <1>6, <1>7, <1>8, <1>9 DEF BatchInv, BatchIsExact, BatchReaches, KnownInv, LedgersInv

\* A replacement keeps the batch exact, and one version of each key in it.
LEMMA ReplaceKeeps ==
    ASSUME PipelineTypes, BatchInv, DecideReplace
    PROVE  BatchInv'
  <1>1. ppWriter = "decide"
    BY DEF DecideReplace
  <1>2. PICK r \in Requests :
             LET e == r.ev
                 old == Before(e) \ ppBatch.seenDel
             IN
             /\ Decided(r) /\ r.op = "replace"
             /\ \/ /\ ~Wins(e) /\ UNCHANGED ppSpared /\ SameEvents
                   /\ ppBatch'.seenSave = ppBatch.seenSave /\ ppBatch'.seenDel = ppBatch.seenDel
                   /\ ppBatch'.ledger = Record(ppBatch.ledger, ReplaceKey(e), LedgerOf(e))
                \/ /\ Wins(e)
                   /\ ppSpared' = ppSpared \cup (Before(e) \cap ppBatch.seenDel \cap ppBatch.raw)
                   /\ ppBatch'.seenSave = ppBatch.seenSave \cup {e} /\ ppBatch'.seenDel = ppBatch.seenDel \cup old
                   /\ ppBatch'.ledger = Record(ppBatch.ledger, ReplaceKey(e), [newest |-> {e}, old |-> {}])
                   /\ \/ e \in ppBatch.seenSave /\ SameEvents
                      \/ /\ e \notin ppBatch.seenSave
                         /\ ppBatch'.raw = (ppBatch.raw \cup {e}) \ old
                         /\ ppBatch'.keys = (ppBatch.keys \cup Entries("pebble2", {e})) \ Entries("pebble2", old)
                         /\ \A k \in CounterKeys : ppBatch'.deltas[k] =
                              (IF k \in AllCounters(e) THEN ppBatch.deltas[k] + 1 ELSE ppBatch.deltas[k]) - Counted(k, old)
    BY <1>1, LedgerInEvents, ReplaceIs
  <1>3. PICK e : e = r.ev
    OBVIOUS
  <1>4. PICK old : old = Before(e) \ ppBatch.seenDel
    OBVIOUS
  <1>5. Decided(r) /\ r.op = "replace"
    BY <1>2
  <1>6. e \in PipelineEvents /\ OpFor(e) = "replace"
    BY <1>3, <1>5 DEF Requests
  <1>7. CASE ~Wins(e)
    <2>1. /\ UNCHANGED ppSpared /\ SameEvents
          /\ ppBatch'.seenSave = ppBatch.seenSave /\ ppBatch'.seenDel = ppBatch.seenDel
          /\ ppBatch'.ledger = Record(ppBatch.ledger, ReplaceKey(e), LedgerOf(e))
      BY <1>2, <1>3, <1>7
    <2> QED
      BY <1>3, <1>5, <2>1, RefusedKeeps
  <1>8. CASE Wins(e)
    <2>0. e \notin ppBatch.seenSave
      BY <1>1, <1>6, <1>8, WinnerIsNew
    <2>1. Takes(e, old)
      BY <1>2, <1>3, <1>4, <1>8, <2>0 DEF Takes
    <2> QED
      BY <1>3, <1>4, <1>5, <1>8, <2>1, WinnerKeeps
  <1> QED
    BY <1>7, <1>8

-----------------------------------------------------------------------------
(* The write pipeline of pebbledb2: the pipeline *)

\* The batch after any step.
LEMMA BatchStep ==
    ASSUME PipelineTypes, RequestsInv, DataInv, BatchInv, [PipelineNext]_ppVars
    PROVE  BatchInv'
  <1>1. CASE UNCHANGED <<ppRaw, ppCounters, ppWriter, ppGroup, ppBatch, ppSpared>>
    BY <1>1 DEF BatchInv, Sums, OneIn, LedgerEntry, BatchIsExact, BatchReaches, KnownInv, LedgersInv
  <1>2. ASSUME NEW c \in Callers,
               \/ CallerLocks(c) \/ CallerSends(c) \/ CallerReturns(c)
               \/ \E e \in PipelineEvents : CallWrite(c, e) \/ CallDelete(c, e)
        PROVE  UNCHANGED <<ppRaw, ppCounters, ppWriter, ppGroup, ppBatch, ppSpared>>
    <2>1. CallerStep
      BY <1>2, CallerStepIs
    <2> QED
      BY <2>1 DEF CallerStep, Database
  <1>3. CloseStart \/ CloseChannel \/ CloseEnds => UNCHANGED <<ppRaw, ppCounters, ppWriter, ppGroup, ppBatch, ppSpared>>
    BY DEF CloseStart, CloseChannel, CloseEnds, CloseStep, Database
  <1>4. CASE WriterReceives \/ WriterCollects \/ GroupCommits \/ GroupFails
    <2>1. ppWriter' # "decide"
      BY <1>4 DEF WriterReceives, WriterCollects, GroupCommits, GroupFails
    <2> QED
      BY <2>1 DEF BatchInv, BatchIsExact, BatchReaches, KnownInv, LedgersInv
  <1>5. CASE GroupStarts
    BY <1>5, BatchStarts
  <1>6. CASE DecideSave
    BY <1>6, SaveKeeps
  <1>7. CASE DecideDelete
    BY <1>7, DeleteKeeps
  <1>8. CASE DecideReplace
    BY <1>8, ReplaceKeeps
  <1>9. CASE UNCHANGED ppVars
    BY <1>1, <1>9 DEF ppVars
  <1>10. CASE \E c \in Callers : CallerLocks(c) \/ CallerSends(c) \/ CallerReturns(c)
    BY <1>1, <1>2, <1>10
  <1>11. CASE \E c \in Callers, e \in PipelineEvents : CallWrite(c, e) \/ CallDelete(c, e)
    BY <1>1, <1>2, <1>11
  <1> QED
    BY <1>1, <1>3, <1>4, <1>5, <1>6, <1>7, <1>8, <1>9, <1>10, <1>11 DEF PipelineNext

\* The database after any step: only a commit changes it.
LEMMA DataStep ==
    ASSUME PipelineTypes, RequestsInv, DataInv, BatchInv, [PipelineNext]_ppVars
    PROVE  DataInv'
  <1>1. CASE UNCHANGED <<ppRaw, ppKeys, ppCounters>> /\ ppSpared \subseteq ppSpared'
    BY <1>1 DEF DataInv, Sums, OneIn
  <1>2. ASSUME NEW c \in Callers,
               \/ CallerLocks(c) \/ CallerSends(c) \/ CallerReturns(c)
               \/ \E e \in PipelineEvents : CallWrite(c, e) \/ CallDelete(c, e)
        PROVE  UNCHANGED <<ppRaw, ppKeys, ppCounters, ppSpared>>
    <2>1. CallerStep
      BY <1>2, CallerStepIs
    <2> QED
      BY <2>1 DEF CallerStep, Database
  <1>3. CloseStart \/ CloseChannel \/ CloseEnds \/ WriterReceives \/ WriterCollects \/ GroupStarts \/ GroupFails
          => UNCHANGED <<ppRaw, ppKeys, ppCounters, ppSpared>>
    BY DEF CloseStart, CloseChannel, CloseEnds, CloseStep, WriterReceives, WriterCollects, GroupStarts, GroupFails, Database
  <1>4. DecideSave \/ DecideDelete => UNCHANGED <<ppRaw, ppKeys, ppCounters, ppSpared>>
    BY DEF DecideSave, DecideDelete, DecideKeeps, Database
  <1>5. DecideReplace => UNCHANGED <<ppRaw, ppKeys, ppCounters>> /\ ppSpared \subseteq ppSpared'
    BY DEF DecideReplace, DecideKeeps, Database
  <1>6. CASE GroupCommits
    <2>1. /\ ppWriter = "decide" /\ UNCHANGED ppSpared
          /\ ppRaw' = ppBatch.raw /\ ppKeys' = ppBatch.keys /\ ppCounters' = Merge(ppCounters, ppBatch.deltas)
      BY <1>6 DEF GroupCommits
    <2>2. BatchIsExact /\ OneIn(ppBatch.raw)
      BY <2>1 DEF BatchInv, BatchIsExact, BatchReaches, KnownInv, LedgersInv
    <2>3. ASSUME NEW k \in CounterKeys, Good(k) PROVE ppCounters'[k] + 0 = Counted(k, ppRaw')
      <3>1. ppCounters'[k] = ppCounters[k] + ppBatch.deltas[k] /\ ppCounters[k] + ppBatch.deltas[k] = Counted(k, ppBatch.raw)
        BY <2>1, <2>2, <2>3 DEF Merge, BatchIsExact, Sums
      <3>2. ppCounters[k] \in Int /\ ppBatch.deltas[k] \in Int
        BY DEF PipelineTypes, BatchIs, Fields
      <3> QED
        BY <2>1, <3>1, <3>2
    <2>4. Sums([k \in CounterKeys |-> 0], ppRaw)'
      BY <2>3 DEF Sums
    <2>5. ppKeys' = Entries("pebble2", ppRaw')
      BY <2>1, <2>2 DEF BatchIsExact
    <2>6. OneIn(ppRaw)'
      BY <2>1, <2>2 DEF OneIn
    <2> QED
      BY <2>4, <2>5, <2>6 DEF DataInv
  <1>9. CASE UNCHANGED ppVars
    BY <1>1, <1>9 DEF ppVars
  <1>10. CASE \E c \in Callers : CallerLocks(c) \/ CallerSends(c) \/ CallerReturns(c)
    BY <1>1, <1>2, <1>10
  <1>11. CASE \E c \in Callers, e \in PipelineEvents : CallWrite(c, e) \/ CallDelete(c, e)
    BY <1>1, <1>2, <1>11
  <1> QED
    BY <1>1, <1>3, <1>4, <1>5, <1>6, <1>9, <1>10, <1>11 DEF PipelineNext

\* The empty store.
LEMMA PipelineStarts ==
    ASSUME PipelineInit
    PROVE  PipelineInv
  <1>0. PICK zero : zero = [k \in CounterKeys |-> 0]
    OBVIOUS
  <1>1. PipelineTypes
    <2>1. ppRaw = {} /\ ppCounters = zero /\ ppQueue = <<>> /\ ppGroup = <<>> /\ ppWriter = "receive"
          /\ ppBatch = EmptyBatch /\ ppKeys = {}
      BY <1>0 DEF PipelineInit
    <2>2. ppBatch = [raw |-> {}, keys |-> {}, deltas |-> zero, sketches |-> {},
                     seenSave |-> {}, seenDel |-> {}, pending |-> {}, ledger |-> <<>>, known |-> {}]
      BY <1>0, <2>1 DEF EmptyBatch
    <2>3. /\ ppBatch.raw = {} /\ ppBatch.keys = {} /\ ppBatch.deltas = zero /\ ppBatch.sketches = {}
          /\ ppBatch.seenSave = {} /\ ppBatch.seenDel = {} /\ ppBatch.pending = {} /\ ppBatch.ledger = <<>> /\ ppBatch.known = {}
      BY <2>2
    <2>4. ppBatch = [raw |-> ppBatch.raw, keys |-> ppBatch.keys, deltas |-> ppBatch.deltas, sketches |-> ppBatch.sketches,
                     seenSave |-> ppBatch.seenSave, seenDel |-> ppBatch.seenDel, pending |-> ppBatch.pending,
                     ledger |-> ppBatch.ledger, known |-> ppBatch.known]
      BY <2>2, <2>3
    <2>5. zero \in [CounterKeys -> Int]
      BY <1>0
    <2>6. BatchIs(ppBatch)
      BY <2>3, <2>4, <2>5 DEF BatchIs, Fields
    <2>7. CallerTypes /\ CallersAsk
      BY DEF PipelineInit, CallerTypes, CallerRec, CallersAsk
    <2>8. <<>> \in Seq(Requests)
      OBVIOUS
    <2> QED
      BY <2>1, <2>5, <2>6, <2>7, <2>8 DEF PipelineTypes
  <1>2. RequestsInv
    <2>1. ppBatch.pending = {}
      BY DEF PipelineInit, EmptyBatch
    <2> QED
      BY <2>1 DEF PipelineInit, RequestsInv, ChannelInv, HasItsRequest
  <1>3. DataInv
    <2>1. ppRaw = {} /\ ppKeys = {} /\ ppCounters = zero
      BY <1>0 DEF PipelineInit
    <2>2. Entries("pebble2", {}) = {}
      BY DEF Entries
    <2>3. \A k : Counted(k, {}) = 0
      <3>1. \A k : {e \in {} : k \in AllCounters(e)} = {}
        OBVIOUS
      <3> QED
        BY <3>1, FS_EmptySet DEF Counted
    <2>4. Sums([k \in CounterKeys |-> 0], ppRaw)
      BY <1>0, <2>1, <2>3 DEF Sums
    <2> QED
      BY <2>1, <2>2, <2>4 DEF DataInv, OneIn
  <1>4. BatchInv
    BY DEF PipelineInit, BatchInv, BatchIsExact, BatchReaches, KnownInv, LedgersInv
  <1> QED
    BY <1>1, <1>2, <1>3, <1>4 DEF PipelineInv

\* For any callers, sizes of the channel and of the groups, and events: after any
\* grouping of saves, deletions and replacements and whichever commits fail, keys and
\* counters are those of the stored events, one version of each key is stored but for
\* those that a deletion has hidden, and Close leaves no caller without its request.
THEOREM PipelineKeepsSafe == PipelineInit /\ [][PipelineNext]_ppVars => []PipelineIsSafe
  <1>1. PipelineInit => PipelineInv
    BY PipelineStarts
  <1>2. PipelineInv /\ [PipelineNext]_ppVars => PipelineInv'
    BY TypesStep, RequestsStep, DataStep, BatchStep DEF PipelineInv
  <1>3. PipelineInv => PipelineIsSafe
    <2> SUFFICES ASSUME PipelineInv PROVE PipelineIsSafe
      OBVIOUS
    <2>1. CountersExact
      <3>1. ASSUME NEW k \in CounterKeys, \A e \in PipelineEvents : k \in AllCounters(e) => HasItsD(e)
            PROVE  ppCounters[k] = Cardinality({e \in ppRaw : k \in AllCounters(e)})
        <4>1. ppCounters[k] + [l \in CounterKeys |-> 0][k] = Counted(k, ppRaw)
          BY <3>1 DEF PipelineInv, DataInv, Sums, Good
        <4>2. ppCounters[k] \in Int /\ [l \in CounterKeys |-> 0][k] = 0
          BY DEF PipelineInv, PipelineTypes
        <4> QED
          BY <4>1, <4>2 DEF Counted
      <3> QED
        BY <3>1 DEF CountersExact, PipelineInv, DataInv
    <2>2. PipelineKeepsOneVersion
      BY DEF PipelineInv, DataInv, OneIn, PipelineKeepsOneVersion
    <2>3. NoSendAfterClose
      BY DEF PipelineInv, RequestsInv, Asks, NoSendAfterClose, ChannelInv, HasItsRequest
    <2> QED
      BY <2>1, <2>2, <2>3 DEF PipelineIsSafe
  <1> QED
    BY <1>1, <1>2, <1>3, PTL
=============================================================================
