----------------------------- MODULE Dataloader -----------------------------
(***************************************************************************)
(* sdk/dataloader and the two loaders built on it, for replaceable and for *)
(* addressable events.  Calls of Load are collected for a while or up to a *)
(* number; then one goroutine asks the relays of all keys together and     *)
(* every call gets its part of the answer.  The batch that is collected is *)
(* shared by its callers and its timer, which may fire as the last of them *)
(* comes; the query is shared as well, and ends early only when the        *)
(* contexts of all callers have ended.                                     *)
(***************************************************************************)
EXTENDS Integers, Sequences, FiniteSets, SequencesExt
CONSTANTS
    LdLoads, LdKeys,       \* calls of Load, and the keys they may ask for
    BatchCap,              \* MaxThreshold
    LdRelays, LdHolds,     \* the relays, and the events each of them has
    LdOutbox, LdFallback,  \* relays known for a key, and those for any key
    RelaysPerKey,          \* how many are wanted
    MaxContextsEnd         \* bound: contexts that end

\* An event is a record of its author (by), its "d" tag, its date and a number
\* that tells apart versions of one second.
LdEvents == UNION {LdHolds[r] : r \in LdRelays}

ASSUME LoaderAssumption ==
    /\ DOMAIN LdOutbox = LdKeys
    /\ \A e \in LdEvents : {"by", "d", "at", "n"} \subseteq DOMAIN e /\ e.at \in Int
    /\ LdFallback # {} /\ LdFallback \subseteq LdRelays
    /\ \A k \in LdKeys : LdOutbox[k] \subseteq LdRelays

VARIABLES
    ldFor,      \* "replaceable" or "addressable"
    ldLoad,     \* where each call is and what it has returned
    ldChannel,  \* what its channel holds
    ldDone,     \* the calls whose context has ended
    ldBatches   \* every batcher there was; the last one is curBatcher

ldVars == <<ldFor, ldLoad, ldChannel, ldDone, ldBatches>>

\* A channel that is closed without a value holds the empty result.
NothingSent == {}
NoKey == ""

NewBatcher ==
    [pc |-> "open", requests |-> <<>>, reached |-> FALSE,
     todo |-> {},       \* requests whose relays are being looked for
     waiting |-> {},    \* requests whose context is being watched
     asked |-> {},      \* relays with the keys they are asked for
     cancelled |-> FALSE, results |-> <<>>,
     received |-> {}]   \* all that came, for the properties

DataloaderInit ==
    /\ ldFor \in {"replaceable", "addressable"}
    /\ ldLoad = [l \in LdLoads |-> [pc |-> "out", key |-> NoKey, got |-> NothingSent]]
    /\ ldChannel = [l \in LdLoads |-> NothingSent]
    /\ ldDone = {} /\ ldBatches = <<NewBatcher>>

Current == Len(ldBatches)

-----------------------------------------------------------------------------
(* Load and the goroutine of a batch *)

\* Under batchLock: the first call of a batch starts its goroutine, the last
\* one that fits closes it.
LoadJoins(l, key) ==
    LET requests == Append(ldBatches[Current].requests, l)
        joined == [ldBatches EXCEPT ![Current].requests = requests,
                                    ![Current].reached = Len(requests) = BatchCap,
                                    ![Current].pc = IF Len(requests) = 1 THEN "waiting" ELSE @]
    IN  /\ ldLoad[l].pc = "out"
        /\ ldLoad' = [ldLoad EXCEPT ![l].pc = "wait", ![l].key = key]
        /\ ldBatches' = IF Len(requests) = BatchCap THEN Append(joined, NewBatcher) ELSE joined
        /\ UNCHANGED <<ldFor, ldChannel, ldDone>>

\* batchFn begins: one goroutine for every request, repeated keys included.
Started(b) ==
    [ldBatches EXCEPT ![b].pc = "prepare",
                      ![b].todo = DOMAIN ldBatches[b].requests,
                      ![b].waiting = DOMAIN ldBatches[b].requests]

ThresholdReached(b) ==
    /\ ldBatches[b].pc = "waiting" /\ ldBatches[b].reached
    /\ ldBatches' = Started(b)
    /\ UNCHANGED <<ldFor, ldLoad, ldChannel, ldDone>>

\* Mutant: the batch stays the current one.
TimerFiresKeeping(b) ==
    /\ ldBatches[b].pc = "waiting"
    /\ ldBatches' = Started(b)
    /\ UNCHANGED <<ldFor, ldLoad, ldChannel, ldDone>>

\* The timer may fire for a batch that was full before it had the lock.
TimerFires(b) ==
    /\ ldBatches[b].pc = "waiting"
    /\ ldBatches' = IF b = Current THEN Append(Started(b), NewBatcher) ELSE Started(b)
    /\ UNCHANGED <<ldFor, ldLoad, ldChannel, ldDone>>

\* Calls that get their answer, and those that do not wait for it.
LoadReturns(l) ==
    /\ ldLoad[l].pc = "wait" /\ ldChannel[l] # NothingSent
    /\ ldLoad' = [ldLoad EXCEPT ![l].pc = "back", ![l].got = ldChannel[l]]
    /\ UNCHANGED <<ldFor, ldChannel, ldDone, ldBatches>>

LoadGivesUp(l) ==
    /\ ldLoad[l].pc = "wait" /\ l \in ldDone
    /\ ldLoad' = [ldLoad EXCEPT ![l].pc = "gone"]
    /\ UNCHANGED <<ldFor, ldChannel, ldDone, ldBatches>>

ContextEnds(l) ==
    /\ l \notin ldDone /\ ldLoad[l].pc = "wait"
    /\ Cardinality(ldDone) < MaxContextsEnd
    /\ ldDone' = ldDone \cup {l}
    /\ UNCHANGED <<ldFor, ldLoad, ldChannel, ldBatches>>

-----------------------------------------------------------------------------
(* batchLoadReplaceableEvents and batchLoadAddressableEvents *)

\* Known relays first, then as many others as are missing; the rotation may
\* give one twice, which is added once.
DetermineRelaysToQuery(key) ==
    LET needed == RelaysPerKey - Cardinality(LdOutbox[key])
    IN  IF needed <= 0 THEN {LdOutbox[key]}
        ELSE {LdOutbox[key] \cup more : more \in {m \in SUBSET LdFallback :
                                                    m # {} /\ Cardinality(m) <= needed}}

\* The query starts when the last key has found its relays.
PrepareKey(b, i) ==
    LET key == ldLoad[ldBatches[b].requests[i]].key
    IN  /\ ldBatches[b].pc = "prepare" /\ i \in ldBatches[b].todo
        /\ \E relays \in DetermineRelaysToQuery(key) :
             ldBatches' = [ldBatches EXCEPT ![b].asked = @ \cup (relays \X {key}),
                                            ![b].todo = @ \ {i},
                                            ![b].pc = IF ldBatches[b].todo = {i} THEN "query" ELSE @]
        /\ UNCHANGED <<ldFor, ldLoad, ldChannel, ldDone>>

\* The last context that ends cancels the query.
WatchContext(b, i) ==
    /\ ldBatches[b].pc \in {"prepare", "query"}
    /\ i \in ldBatches[b].waiting \ ldBatches[b].todo /\ ldBatches[b].requests[i] \in ldDone
    /\ ldBatches' = [ldBatches EXCEPT ![b].waiting = @ \ {i},
                                      ![b].cancelled = ldBatches[b].waiting = {i}]
    /\ UNCHANGED <<ldFor, ldLoad, ldChannel, ldDone>>

\* Of versions of one second the first that came is kept.
KeepReplaceable(found, e) == IF found = <<>> \/ found[1].at < e.at THEN <<e>> ELSE found

KeepAddressable(found, e) ==
    LET same == {i \in DOMAIN found : found[i].d = e.d}
    IN  IF same = {} THEN Append(found, e)
        ELSE [i \in DOMAIN found |-> IF i \in same /\ found[i].at < e.at THEN e ELSE found[i]]

Keep(found, e) == IF ldFor = "replaceable" THEN KeepReplaceable(found, e) ELSE KeepAddressable(found, e)

Found(results, key) == IF key \in DOMAIN results THEN results[key] ELSE <<>>

\* An event of several relays comes once (PoolQueries).
EventArrives(b) ==
    /\ ldBatches[b].pc = "query"
    /\ \E rk \in ldBatches[b].asked :
         \E e \in LdHolds[rk[1]] \ ldBatches[b].received :
           /\ e.by = rk[2]
           /\ LET results == ldBatches[b].results
                  kept == [k \in DOMAIN results \cup {e.by} |->
                             IF k = e.by THEN Keep(Found(results, k), e) ELSE results[k]]
              IN  ldBatches' = [ldBatches EXCEPT ![b].results = kept, ![b].received = @ \cup {e}]
    /\ UNCHANGED <<ldFor, ldLoad, ldChannel, ldDone>>

\* Every channel gets the result of its key, if there is one, and is closed; the
\* deferred cancels end the goroutines that watch the contexts, and what was local
\* to batchFn is gone.
Answer(b) ==
    /\ ldBatches' = [ldBatches EXCEPT ![b].pc = "answered", ![b].waiting = {}, ![b].asked = {},
                                      ![b].results = <<>>]
    /\ ldChannel' = [l \in LdLoads |-> IF l \in ToSet(ldBatches[b].requests)
                                       THEN {Found(ldBatches[b].results, ldLoad[l].key)} ELSE ldChannel[l]]
    /\ UNCHANGED <<ldFor, ldLoad, ldDone>>

\* All relays have said all, failed or taken too long.
QueryEnds(b) == ldBatches[b].pc = "query" /\ Answer(b)

QueryCancelled(b) == ldBatches[b].pc = "query" /\ ldBatches[b].cancelled /\ Answer(b)

DataloaderNext ==
    \/ \E l \in LdLoads :
         \/ \E key \in LdKeys : LoadJoins(l, key)
         \/ LoadReturns(l) \/ LoadGivesUp(l) \/ ContextEnds(l)
    \/ \E b \in DOMAIN ldBatches :
         \/ ThresholdReached(b) \/ TimerFires(b) \/ EventArrives(b) \/ QueryEnds(b) \/ QueryCancelled(b)
         \/ \E i \in DOMAIN ldBatches[b].requests : PrepareKey(b, i) \/ WatchContext(b, i)

-----------------------------------------------------------------------------
(* Properties *)

BatchesOf(l) == {b \in DOMAIN ldBatches : l \in ToSet(ldBatches[b].requests)}

\* Nobody waits for a batch that is over: a waiting call is in one batch, whose
\* goroutine is still to answer it unless it has.
Collected ==
    \A l \in LdLoads : ldLoad[l].pc = "wait" =>
        /\ Cardinality(BatchesOf(l)) = 1
        /\ \A b \in BatchesOf(l) : ldBatches[b].pc \in {"open", "answered"} => ldChannel[l] # NothingSent

SameSlot(e, f) == e.by = f.by /\ (ldFor = "replaceable" \/ e.d = f.d)

\* What is returned is of the key, one version of each event, none older than
\* one that came; and nothing is returned only if nothing came.
ReturnsNewest(l, b) ==
    LET came == {e \in ldBatches[b].received : e.by = ldLoad[l].key}
    IN  \A got \in ldLoad[l].got :
          /\ ToSet(got) \subseteq came
          /\ \A i, j \in DOMAIN got : SameSlot(got[i], got[j]) => i = j
          /\ \A e \in came : \E i \in DOMAIN got : SameSlot(got[i], e) /\ e.at <= got[i].at

\* One caller's context does not end the query of the others.
CancelledByAll == \A b \in DOMAIN ldBatches : ldBatches[b].cancelled => ToSet(ldBatches[b].requests) \subseteq ldDone

\* Every call of Load is answered by the one batch it is part of, with the newest
\* of what the relays of its batch sent for its key, whoever else has given up.
LoadsAreAnswered ==
    /\ Collected /\ CancelledByAll
    /\ \A l \in LdLoads : ldLoad[l].pc = "back" => \A b \in BatchesOf(l) : ReturnsNewest(l, b)
=============================================================================
