----------------------------- MODULE Negentropy -----------------------------
(***************************************************************************)
(* Set reconciliation (nip77): the vector of items, the message that each  *)
(* side makes of the other side's message, NegentropySync at the client,   *)
(* SyncEventsFromIDs, which moves the events that one side lacks, and the  *)
(* relay's sessions.  An item is [t, id], an id a short sequence of bytes, *)
(* so that the prefixes of bounds are what they are in the code.  A        *)
(* fingerprint is the sequence of ids that it is the hash of; hex, JSON    *)
(* and the bytes of a number are left out, the timestamps' differences are *)
(* not.                                                                    *)
(***************************************************************************)
EXTENDS Integers, Sequences, FiniteSets, SequencesExt, FiniteSetsExt

CONSTANTS
    NgItems,      \* the items there are: [t, id]
    NgModes,      \* subset of {"both", "down", "blind", "up"}: the sides that the caller gave
    Buckets,      \* ranges that SplitRange makes (16 in the code)
    FrameLimit,   \* bound on the ranges and ids of a message (frameSizeLimit, in bytes in the code)
    SyncBatch,    \* ids that SyncEventsFromIDs asks for at once (50 in the code)
    MaxRounds,    \* bound: messages that the client sends in a sync
    NgMaxFaults   \* bound: sessions that expire, contexts that end and moves that lose events

ASSUME NegentropyBounds ==
    /\ {Buckets, FrameLimit, SyncBatch} \subseteq Nat \ {0}
    /\ {MaxRounds, NgMaxFaults} \subseteq Nat

VARIABLES
    ngMode,     \* the sides that the sync has
    ngLocal,    \* items held at the client
    ngRemote,   \* items held by the relay
    ngBegan,    \* history: the items of both at the start
    ngVec,      \* the client's Vector
    ngSession,  \* the relay's session: its Vector, or NoVector
    ngServer,   \* what the relay's handlers have still to do: "store" a session
    ngToRelay,  \* messages on their way to the relay
    ngToClient, \* messages on their way to the client
    ngItems,    \* direction -> [queue, closed, batch, seen, done, lost]: Haves, HaveNots and
                \* their readers; lost is history: the items that a move did not bring across
    ngSync,     \* NegentropySync: "new", "running", "nil", "error"
    ngRounds,   \* messages the client sent
    ngFaults    \* faults so far

ngVars == <<ngMode, ngLocal, ngRemote, ngBegan, ngVec, ngSession, ngServer, ngToRelay,
            ngToClient, ngItems, ngSync, ngRounds, ngFaults>>

Forever == 1000                \* maxTimestamp
NoVector == <<[t |-> Forever, id |-> <<>>]>>
InfiniteBound == [t |-> Forever, prefix |-> <<>>]
Directions == {"haves", "haveNots"}

-----------------------------------------------------------------------------
(* The vector *)

BytesLess(a, b) ==
    \E i \in 1..Len(b) :
        /\ \A j \in 1..i - 1 : j <= Len(a) /\ a[j] = b[j]
        /\ i > Len(a) \/ a[i] < b[i]

ItemLess(a, b) == a.t < b.t \/ (a.t = b.t /\ BytesLess(a.id, b.id))

\* Insert, for the events of a query, and Seal.
Seal(items) == SetToSortSeq(items, ItemLess)

FindLowerBound(vec, begin, bound) ==
    begin + Cardinality({i \in begin + 1..Len(vec) :
        vec[i].t < bound.t \/ (vec[i].t = bound.t /\ BytesLess(vec[i].id, bound.prefix))})

\* The slice vec[lower:upper], and what its fingerprint is made of.
IdsOf(vec, lower, upper) == [i \in 1..upper - lower |-> vec[lower + i].id]
Fingerprint(vec, lower, upper) == IdsOf(vec, lower, upper)

GetMinimalBound(prev, curr) ==
    LET differ == {i \in 1..Len(curr.id) : curr.id[i] # prev.id[i]}
    IN  [t |-> curr.t, prefix |-> IF curr.t # prev.t THEN <<>>
                                  ELSE SubSeq(curr.id, 1, Min(differ \cup {Len(curr.id)}))]

-----------------------------------------------------------------------------
(* Messages: sequences of ranges [dt, prefix, mode, ids] *)

Range77(bound, mode, ids) == [bound |-> bound, mode |-> mode, ids |-> ids]

SplitRange(vec, lower, upper, bound) ==
    LET n      == upper - lower
        \* the end of the i-th bucket
        End(i) == lower + i * (n \div Buckets) + Min({i, n % Buckets})
        Upper(i) == IF End(i) = upper THEN bound ELSE GetMinimalBound(vec[End(i)], vec[End(i) + 1])
    IN  IF n < Buckets * 2 THEN <<Range77(bound, "ids", IdsOf(vec, lower, upper))>>
        ELSE [i \in 1..Buckets |-> Range77(Upper(i), "fingerprint", Fingerprint(vec, End(i - 1), End(i)))]

\* WriteBound: a timestamp is written as its distance from the one before.
WriteTimestamp(last, t) == IF t = Forever THEN 0 ELSE t - last + 1
ReadTimestamp(last, delta) == IF delta = 0 THEN Forever ELSE last + delta - 1

\* out is a buffer of written ranges with the timestamp written last.
Write(out, ranges) ==
    LET Put(o, r) == [last |-> r.bound.t,
                      put |-> Append(o.put, [dt |-> WriteTimestamp(o.last, r.bound.t),
                                             prefix |-> r.bound.prefix, mode |-> r.mode, ids |-> r.ids])]
    IN  FoldLeft(Put, out, ranges)

Size77(ranges) == FoldLeft(LAMBDA n, r : n + 1 + (IF r.mode = "ids" THEN Len(r.ids) ELSE 0), 0, ranges)

Start77(vec) == Write([last |-> 0, put |-> <<>>], SplitRange(vec, 0, Len(vec), InfiniteBound)).put

\* The ids that a side without HaveNots answers a list of ids with: those that fit.
ListAnswer(vec, lower, upper, bound, full) ==
    LET fit == Min({upper - lower, Max({0, FrameLimit - Size77(full) + 1})})
    IN  [upper |-> lower + fit,
         range |-> Range77(IF fit = upper - lower THEN bound
                           ELSE [t |-> vec[lower + fit + 1].t, prefix |-> vec[lower + fit + 1].id],
                           "ids", IdsOf(vec, lower, lower + fit))]

\* Only a client that wants to know what it lacks takes a list of ids as the end of a range.
SkipsLists(client, downloads) == client /\ downloads

\* One range of the other side's message; s is the state of reconcileAux.
ReconcileRange(s, r, vec, client, downloads) ==
    LET bound  == [t |-> ReadTimestamp(s.lastIn, r.dt), prefix |-> r.prefix]
        lower  == s.prevIndex
        upper  == FindLowerBound(vec, lower, bound)
        ours   == IdsOf(vec, lower, upper)
        same   == r.mode = "skip" \/ (r.mode = "fingerprint" /\ r.ids = Fingerprint(vec, lower, upper))
        skip   == same \/ (r.mode = "ids" /\ SkipsLists(client, downloads))
        \* finishSkip
        ended  == IF s.skipping THEN <<Range77(s.prevBound, "skip", <<>>)>> ELSE <<>>
        answer == ListAnswer(vec, lower, upper, bound, s.out.put)
        part   == CASE skip -> <<>>
                    [] r.mode = "fingerprint" -> ended \o SplitRange(vec, lower, upper, bound)
                    [] OTHER -> ended \o <<answer.range>>
        next   == IF ~skip /\ r.mode = "ids" THEN answer.upper ELSE upper
        wrote  == Write(s.out, part)
        full   == IF r.mode = "ids" THEN wrote ELSE s.out
        limit  == FrameLimit < Size77(wrote.put)
    IN  IF s.stop THEN s ELSE
        [s EXCEPT !.lastIn = bound.t, !.prevBound = bound, !.prevIndex = next,
                  !.skipping = skip, !.stop = limit,
                  !.out = IF limit
                          THEN Write(full, <<Range77(InfiniteBound, "fingerprint", Fingerprint(vec, next, Len(vec)))>>)
                          ELSE wrote,
                  !.haves = IF r.mode = "ids" THEN @ \o SelectSeq(ours, LAMBDA id : ~Contains(r.ids, id)) ELSE @,
                  !.haveNots = IF r.mode = "ids" THEN @ \o SelectSeq(r.ids, LAMBDA id : ~Contains(ours, id)) ELSE @]

ReconcileAux(msg, vec, client, downloads) ==
    LET Step(s, r) == ReconcileRange(s, r, vec, client, downloads)
    IN  FoldLeft(Step, [lastIn |-> 0, prevBound |-> [t |-> 0, prefix |-> <<>>], prevIndex |-> 0,
                        skipping |-> FALSE, stop |-> FALSE, out |-> [last |-> 0, put |-> <<>>],
                        haves |-> <<>>, haveNots |-> <<>>], msg)

-----------------------------------------------------------------------------
(* The sync *)

Channel == [queue |-> <<>>, closed |-> FALSE, batch |-> <<>>, seen |-> {}, done |-> FALSE, lost |-> {}]

NegentropyInit ==
    /\ ngMode \in NgModes
    /\ ngLocal \in SUBSET NgItems
    /\ ngRemote \in SUBSET NgItems
    /\ ngBegan = [local |-> ngLocal, remote |-> ngRemote]
    /\ ngVec = NoVector
    /\ ngSession = NoVector
    /\ ngServer = ""
    /\ ngToRelay = <<>>
    /\ ngToClient = <<>>
    /\ ngItems = [d \in Directions |-> Channel]
    /\ ngSync = "new"
    /\ ngRounds = 0
    /\ ngFaults = 0

Uploads == ngMode \in {"both", "up"}
Downloads == ngMode # "up"

\* NegentropySync up to NEG-OPEN; a target that is no Querier ("blind") leaves the vector empty.
SyncStarts ==
    LET vec == Seal(IF ngMode = "blind" THEN {} ELSE ngLocal)
    IN  /\ ngSync = "new"
        /\ ngSync' = "running"
        /\ ngVec' = vec
        /\ ngToRelay' = Append(ngToRelay, [label |-> "NEG-OPEN", body |-> Start77(vec)])
        /\ ngItems' = [d \in Directions |-> [Channel EXCEPT !.done =
               IF d = "haves" THEN ~Uploads ELSE ~Downloads]]
        /\ ngRounds' = 1
        /\ UNCHANGED <<ngMode, ngLocal, ngRemote, ngBegan, ngSession, ngServer, ngToClient, ngFaults>>

\* NegentropySync returns; NEG-CLOSE is deferred.
SyncLeaves(result) ==
    /\ ngSync' = result
    /\ ngToRelay' = Append(ngToRelay, [label |-> "NEG-CLOSE", body |-> <<>>])

\* What a message brings to a direction's channel, which is closed when there is nothing to add.
Brings(d, aux) ==
    IF ~(IF d = "haves" THEN Uploads ELSE Downloads) THEN ngItems[d]
    ELSE [ngItems[d] EXCEPT !.queue = @ \o (IF d = "haves" THEN aux.haves ELSE aux.haveNots),
                            !.closed = aux.out.put = <<>>]

\* The custom handler for a NEG-MSG; the channels hold Buckets * 4 ids.
HandlerReads ==
    LET aux == ReconcileAux(Head(ngToClient).body, ngVec, TRUE, Downloads)
    IN  /\ ngToClient # <<>> /\ Head(ngToClient).label = "NEG-MSG"
        /\ \A d \in Directions : Len(ngItems[d].queue) <= Buckets * 4
        /\ ngToClient' = Tail(ngToClient)
        /\ ngItems' = [d \in Directions |-> Brings(d, aux)]
        /\ IF aux.out.put = <<>> THEN UNCHANGED <<ngToRelay, ngRounds>>
           ELSE /\ ngToRelay' = Append(ngToRelay, [label |-> "NEG-MSG", body |-> aux.out.put])
                /\ ngRounds' = Min({ngRounds + 1, MaxRounds})
        /\ UNCHANGED <<ngMode, ngLocal, ngRemote, ngBegan, ngVec, ngSession, ngServer, ngSync, ngFaults>>

\* NEG-ERROR, the label that this repository's relay gives an error, is none that ParseNegMessage
\* knows: the message is dropped.  NEG-ERR, as other relays have it, ends the sync.
HandlerReadsError ==
    /\ ngToClient # <<>> /\ Head(ngToClient).label # "NEG-MSG"
    /\ ngToClient' = Tail(ngToClient)
    /\ IF Head(ngToClient).label = "NEG-ERR" /\ ngSync = "running"
       THEN SyncLeaves("error") ELSE UNCHANGED <<ngSync, ngToRelay>>
    /\ UNCHANGED <<ngMode, ngLocal, ngRemote, ngBegan, ngVec, ngSession, ngServer, ngItems, ngRounds, ngFaults>>

HeldAt(items, ids) == {i \in items : i.id \in ToSet(ids)}

\* The events of a batch are queried at one side and published to the other.  A query that ends
\* early (a CLOSED, a connection that is lost) and a Publish that fails look like any other to
\* SyncEventsFromIDs: the events that they lose are passed over.  (Losing what the other side has
\* is no loss.)
From(d) == IF d = "haves" THEN ngLocal ELSE ngRemote
ToLose(d, ids) == HeldAt(From(d), ids) \ (IF d = "haves" THEN ngRemote ELSE ngLocal)

Move(d, ids, lost) ==
    LET moved == HeldAt(From(d), ids) \ lost
    IN  /\ ngLocal' = IF d = "haves" THEN ngLocal ELSE ngLocal \cup moved
        /\ ngRemote' = IF d = "haves" THEN ngRemote \cup moved ELSE ngRemote
        /\ \/ lost = {} /\ UNCHANGED ngFaults
           \/ lost # {} /\ ngFaults < NgMaxFaults /\ ngFaults' = ngFaults + 1

\* Variant: SyncEventsFromIDs drops the batch it has when the channel is closed.
SyncEndsUnsent(d) ==
    /\ ngItems[d].queue = <<>> /\ ngItems[d].closed /\ ~ngItems[d].done
    /\ UNCHANGED <<ngLocal, ngRemote, ngFaults>>
    /\ ngItems' = [ngItems EXCEPT ![d].done = TRUE, ![d].batch = <<>>]
    /\ UNCHANGED <<ngMode, ngBegan, ngVec, ngSession, ngServer, ngToRelay, ngToClient, ngSync, ngRounds>>

\* SyncEventsFromIDs: an id is taken, and a full batch is moved; at the end what is left.
SyncTakes(d) ==
    LET ch    == ngItems[d]
        id    == Head(ch.queue)
        batch == IF id \in ch.seen THEN ch.batch ELSE Append(ch.batch, id)
        full  == id \notin ch.seen /\ Len(batch) = SyncBatch
    IN  /\ ch.queue # <<>>
        /\ \E lost \in SUBSET ToLose(d, IF full THEN batch ELSE <<>>) :
               /\ Move(d, IF full THEN batch ELSE <<>>, lost)
               /\ ngItems' = [ngItems EXCEPT ![d].queue = Tail(@), ![d].seen = @ \cup {id},
                                             ![d].batch = IF full THEN <<>> ELSE batch,
                                             ![d].lost = @ \cup lost]
        /\ UNCHANGED <<ngMode, ngBegan, ngVec, ngSession, ngServer, ngToRelay, ngToClient, ngSync, ngRounds>>

SyncDirectionEnds(d) ==
    /\ ngItems[d].queue = <<>> /\ ngItems[d].closed /\ ~ngItems[d].done
    /\ \E lost \in SUBSET ToLose(d, ngItems[d].batch) :
           /\ Move(d, ngItems[d].batch, lost)
           /\ ngItems' = [ngItems EXCEPT ![d].done = TRUE, ![d].batch = <<>>, ![d].lost = @ \cup lost]
    /\ UNCHANGED <<ngMode, ngBegan, ngVec, ngSession, ngServer, ngToRelay, ngToClient, ngSync, ngRounds>>

\* The last select of NegentropySync: both readers are done, or the context ends.
SyncReturns ==
    /\ ngSync = "running"
    /\ \A d \in Directions : ngItems[d].done
    /\ SyncLeaves("nil")
    /\ UNCHANGED <<ngMode, ngLocal, ngRemote, ngBegan, ngVec, ngSession, ngServer, ngToClient, ngItems, ngRounds, ngFaults>>

SyncContextEnds ==
    /\ ngSync = "running"
    /\ ngFaults < NgMaxFaults
    /\ ngFaults' = ngFaults + 1
    /\ SyncLeaves("error")
    /\ UNCHANGED <<ngMode, ngLocal, ngRemote, ngBegan, ngVec, ngSession, ngServer, ngToClient, ngItems, ngRounds>>

-----------------------------------------------------------------------------
(* The relay: a goroutine per message *)

Answer77(label, body) == ngToClient' = Append(ngToClient, [label |-> label, body |-> body])

\* NEG-OPEN: startNegentropySession may be refused; the answer is written before the session is
\* stored.
RelayOpens ==
    /\ ngToRelay # <<>> /\ Head(ngToRelay).label = "NEG-OPEN"
    /\ ngToRelay' = Tail(ngToRelay)
    /\ \/ /\ ngFaults < NgMaxFaults
          /\ ngFaults' = ngFaults + 1
          /\ \E label \in {"NEG-ERROR", "NEG-ERR"} : Answer77(label, <<>>)
          /\ UNCHANGED ngServer
       \/ /\ Answer77("NEG-MSG", ReconcileAux(Head(ngToRelay).body, Seal(ngRemote), FALSE, FALSE).out.put)
          /\ ngServer' = "store"
          /\ UNCHANGED ngFaults
    /\ UNCHANGED <<ngMode, ngLocal, ngRemote, ngBegan, ngVec, ngSession, ngItems, ngSync, ngRounds>>

\* The vector is of the time of the query; nothing else changes the relay's events here.
RelayStores ==
    /\ ngServer = "store"
    /\ ngServer' = ""
    /\ ngSession' = Seal(ngBegan.remote)
    /\ UNCHANGED <<ngMode, ngLocal, ngRemote, ngBegan, ngVec, ngToRelay, ngToClient, ngItems, ngSync, ngRounds, ngFaults>>

RelayAnswers ==
    /\ ngToRelay # <<>> /\ Head(ngToRelay).label = "NEG-MSG"
    /\ ngToRelay' = Tail(ngToRelay)
    /\ IF ngSession = NoVector THEN Answer77("NEG-ERROR", <<>>)
       ELSE Answer77("NEG-MSG", ReconcileAux(Head(ngToRelay).body, ngSession, FALSE, FALSE).out.put)
    /\ UNCHANGED <<ngMode, ngLocal, ngRemote, ngBegan, ngVec, ngSession, ngServer, ngItems, ngSync, ngRounds, ngFaults>>

RelayCloses ==
    /\ ngToRelay # <<>> /\ Head(ngToRelay).label = "NEG-CLOSE"
    /\ ngToRelay' = Tail(ngToRelay)
    /\ ngSession' = NoVector
    /\ UNCHANGED <<ngMode, ngLocal, ngRemote, ngBegan, ngVec, ngServer, ngToClient, ngItems, ngSync, ngRounds, ngFaults>>

\* Two minutes without a message.
SessionExpires ==
    /\ ngSession # NoVector
    /\ ngFaults < NgMaxFaults
    /\ ngFaults' = ngFaults + 1
    /\ ngSession' = NoVector
    /\ UNCHANGED <<ngMode, ngLocal, ngRemote, ngBegan, ngVec, ngServer, ngToRelay, ngToClient, ngItems, ngSync, ngRounds>>

ClientStep77 == SyncStarts \/ HandlerReads \/ HandlerReadsError \/ SyncReturns
ReaderStep77(d) == SyncTakes(d) \/ SyncDirectionEnds(d)
RelayStep77 == RelayOpens \/ RelayAnswers \/ RelayCloses

NegentropyNext ==
    \/ ClientStep77 \/ RelayStep77 \/ RelayStores \/ SyncContextEnds \/ SessionExpires
    \/ \E d \in Directions : ReaderStep77(d)

\* Every goroutine goes on while it can; contexts and sessions need not end.
NegentropyFairness ==
    /\ WF_ngVars(ClientStep77) /\ WF_ngVars(RelayStep77) /\ WF_ngVars(RelayStores)
    /\ \A d \in Directions : WF_ngVars(ReaderStep77(d))

-----------------------------------------------------------------------------
(* Properties *)

\* A sync that returns nil has brought every event that its sides want across, but those that a
\* move lost without a word: what the client lacked, and what the relay lacked when the client
\* uploads; and it has moved nothing else.
SyncExact ==
    LET both == ngBegan.local \cup ngBegan.remote
    IN  ngSync = "nil" =>
            /\ Downloads => ngLocal = both \ ngItems["haveNots"].lost
            /\ ngRemote = (IF Uploads THEN both \ ngItems["haves"].lost ELSE ngBegan.remote)

\* Not so in the code: a sync that returns nil has brought everything across (nip77.go:167-176
\* drops the errors of Publish, and QueryEvents has none to give).
SyncIsWhole == ngSync = "nil" => \A d \in Directions : ngItems[d].lost = {}

\* A sync that may download needs fewer messages of the client than MaxRounds: every exchange
\* makes the ranges that differ smaller, until they are lists of ids, and a list ends its range.
FewRounds == ngRounds < MaxRounds

\* NegentropySync brings both sides together, up to what its moves lose, and without going round
\* in circles.
SyncConverges == SyncExact /\ FewRounds

\* nip77.go:30 of the target of NegentropySync: "if it is nil the sync will be unidirectional:
\* upload-only".  Such a sync comes to an end.
UploadEnds == <>(ngSync # "running" /\ ngSync # "new")
=============================================================================
