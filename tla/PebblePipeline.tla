--------------------------- MODULE PebblePipeline ---------------------------
(***************************************************************************)
(* The write pipeline of pebbledb2 (store.go): callers hand requests to a  *)
(* single writer through a channel; the writer commits them by groups, in  *)
(* one batch with the rollup counters; Close drains the channel.           *)
(***************************************************************************)
EXTENDS KVIndex, Sequences

CONSTANTS
    Callers,
    QueueSize,      \* capacity of writeCh (4 * WriteGroupMax)
    WriteGroupMax,
    MaxRequests,    \* bound on the calls
    PipelineEvents, \* the events that are written
    CounterHour, CounterDay,    \* their lengths (3600, 86400)
    Targets         \* event -> what it counts for in the sketches (nip45)

ASSUME PipelineAssumption == {QueueSize, WriteGroupMax, CounterHour, CounterDay} \subseteq Nat \ {0} /\ PipelineEvents \subseteq Events

VARIABLES
    ppRaw, ppKeys, ppCounters, ppSketches,  \* the database
    ppQueue,    \* writeCh
    ppOpen,     \* is writeCh open?
    ppClosed,   \* s.closed
    ppCaller,   \* caller -> where it is, its request and its answer
    ppCloser,   \* where Close is
    ppWriter,   \* where the writer is
    ppGroup,    \* the requests of the group that are not decided yet
    ppBatch,    \* the batch, and what commitGroup remembers of the group
    ppCalls,
    ppSpared    \* history: versions that were kept beside the one that replaced them

ppVars == <<ppRaw, ppKeys, ppCounters, ppSketches, ppQueue, ppOpen, ppClosed, ppCaller, ppCloser,
            ppWriter, ppGroup, ppBatch, ppCalls, ppSpared>>

-----------------------------------------------------------------------------
(* Keys and counters *)

AllCounters(e) ==
    {<<"kindDay", Kind[e], CreatedAt[e] \div CounterDay>>, <<"day", CreatedAt[e] \div CounterDay>>,
     <<"kindHour", Kind[e], CreatedAt[e] \div CounterHour>>, <<"hour", CreatedAt[e] \div CounterHour>>,
     <<"pkKind", Author[e], Kind[e]>>}

CounterKeys == UNION {AllCounters(e) : e \in PipelineEvents}

Bump(counters, e, d) ==
    [k \in CounterKeys |-> IF k \in AllCounters(e) THEN counters[k] + d ELSE counters[k]]

\* The merge operator sums the deltas of a counter.
Merge(counters, deltas) == [k \in CounterKeys |-> counters[k] + deltas[k]]

\* The tuple of which one version is kept.
ReplaceKey(e) == <<Author[e], Kind[e], IF IsAddressable(Kind[e]) THEN GetD(e) ELSE "">>

\* What the index finds, with the filter applied: an event without a d tag does
\* not match the empty value that GetD gives for it.
FindReplaceVersions(e) ==
    {x \in ppRaw : /\ <<"pubkeyKind", Author[e], Kind[e]>> \in Pebble2IndexKeys(x)
                   /\ IsAddressable(Kind[e]) => ContainsAny(x, "d", {GetD(e)})}

\* The newest of them by timestamp; of equal ones the first, with the highest id.
NewestOf(S) ==
    CHOOSE x \in S : \A y \in S : CreatedAt[y] < CreatedAt[x] \/ (CreatedAt[y] = CreatedAt[x] /\ y <= x)

EmptyBatch ==
    [raw |-> ppRaw, keys |-> ppKeys, deltas |-> [k \in CounterKeys |-> 0], sketches |-> {},
     seenSave |-> {}, seenDel |-> {}, pending |-> {}, ledger |-> <<>>, known |-> {}]

PipelineInit ==
    /\ ppRaw = {} /\ ppKeys = {} /\ ppCounters = [k \in CounterKeys |-> 0] /\ ppSketches = {}
    /\ ppQueue = <<>> /\ ppOpen = TRUE /\ ppClosed = FALSE /\ ppCalls = 0 /\ ppSpared = {}
    /\ ppCaller = [c \in Callers |-> [pc |-> "idle", op |-> "save", ev |-> 0, answer |-> "none"]]
    /\ ppCloser = "idle" /\ ppWriter = "receive" /\ ppGroup = <<>>
    /\ ppBatch = EmptyBatch

Database == <<ppRaw, ppKeys, ppCounters, ppSketches>>

-----------------------------------------------------------------------------
(* Callers *)

Goto(c, pc) == ppCaller' = [ppCaller EXCEPT ![c].pc = pc]

Return(c, answer) == ppCaller' = [ppCaller EXCEPT ![c].pc = "idle", ![c].answer = answer]

CallerStep == UNCHANGED <<Database, ppOpen, ppClosed, ppCloser, ppWriter, ppGroup, ppBatch, ppSpared>>

\* ReplaceEvent of a regular kind is a save.
OpFor(e) == IF IsReplaceable(Kind[e]) \/ IsAddressable(Kind[e]) THEN "replace" ELSE "save"

\* The first look at closed, and for a delete the load of the event.
CallWrite(c, e) ==
    /\ ppCaller[c].pc = "idle" /\ ppCalls < MaxRequests /\ ppCalls' = ppCalls + 1
    /\ ppCaller' = [ppCaller EXCEPT ![c] = [pc |-> IF ppClosed THEN "idle" ELSE "lock", op |-> OpFor(e), ev |-> e,
                                            answer |-> IF ppClosed THEN "closed" ELSE "none"]]
    /\ CallerStep /\ UNCHANGED ppQueue

CallDelete(c, e) ==
    /\ ppCaller[c].pc = "idle" /\ ppCalls < MaxRequests /\ ppCalls' = ppCalls + 1
    /\ LET goes == ~ppClosed /\ e \in ppRaw
       IN  ppCaller' = [ppCaller EXCEPT ![c] = [pc |-> IF goes THEN "lock" ELSE "idle", op |-> "delete", ev |-> e,
                                                answer |-> IF goes THEN "none" ELSE IF ppClosed THEN "closed" ELSE "no"]]
    /\ CallerStep /\ UNCHANGED ppQueue

\* sendMu.RLock waits for a Close that holds or awaits the lock; then closed is
\* looked at again.
CallerLocks(c) ==
    /\ ppCaller[c].pc = "lock" /\ ppCloser # "locking"
    /\ IF ppClosed THEN Return(c, "closed") ELSE Goto(c, "send")
    /\ CallerStep /\ UNCHANGED <<ppQueue, ppCalls>>

\* A full channel blocks the caller.
CallerSends(c) ==
    /\ ppCaller[c].pc = "send" /\ Len(ppQueue) < QueueSize
    /\ ppQueue' = Append(ppQueue, [caller |-> c, op |-> ppCaller[c].op, ev |-> ppCaller[c].ev])
    /\ Goto(c, "wait")
    /\ CallerStep /\ UNCHANGED ppCalls

\* The answer is taken and the read lock released.
CallerReturns(c) ==
    /\ ppCaller[c].pc = "wait" /\ ppCaller[c].answer # "none"
    /\ Goto(c, "idle")
    /\ CallerStep /\ UNCHANGED <<ppQueue, ppCalls>>

\* The read lock is held from before the send until the answer is there.
Reading == {c \in Callers : ppCaller[c].pc \in {"send", "wait"}}

-----------------------------------------------------------------------------
(* Close *)

CloseStep == UNCHANGED <<Database, ppQueue, ppCaller, ppWriter, ppGroup, ppBatch, ppCalls, ppSpared>>

CloseStart ==
    /\ ppCloser = "idle" /\ ppClosed' = TRUE /\ ppCloser' = "locking"
    /\ CloseStep /\ UNCHANGED ppOpen

\* sendMu.Lock, close of the channel, Unlock
CloseChannel ==
    /\ ppCloser = "locking" /\ Reading = {}
    /\ ppOpen' = FALSE /\ ppCloser' = "draining"
    /\ CloseStep /\ UNCHANGED ppClosed

\* wg.Wait, then the database is closed
CloseEnds ==
    /\ ppCloser = "draining" /\ ppWriter = "ended" /\ ppCloser' = "done"
    /\ CloseStep /\ UNCHANGED <<ppOpen, ppClosed>>

-----------------------------------------------------------------------------
(* The writer *)

WriterKeeps == UNCHANGED <<ppOpen, ppClosed, ppCloser, ppCalls>>

\* The first request of a group, or the end of the channel.
WriterReceives ==
    /\ ppWriter = "receive"
    /\ \/ /\ ppQueue # <<>>
          /\ ppGroup' = <<Head(ppQueue)>> /\ ppQueue' = Tail(ppQueue) /\ ppWriter' = "collect"
       \/ /\ ppQueue = <<>> /\ ~ppOpen
          /\ ppWriter' = "ended" /\ UNCHANGED <<ppGroup, ppQueue>>
    /\ WriterKeeps /\ UNCHANGED <<Database, ppCaller, ppBatch, ppSpared>>

WriterCollects ==
    /\ ppWriter = "collect" /\ ppQueue # <<>> /\ Len(ppGroup) < WriteGroupMax
    /\ ppGroup' = Append(ppGroup, Head(ppQueue)) /\ ppQueue' = Tail(ppQueue)
    /\ WriterKeeps /\ UNCHANGED <<Database, ppCaller, ppBatch, ppWriter, ppSpared>>

\* No backlog, a full group or the timer.  The ids to be saved are looked up
\* first: known are those that the database has.
GroupStarts ==
    /\ ppWriter = "collect" /\ ppWriter' = "decide"
    /\ ppQueue = <<>> \/ Len(ppGroup) > 1 \/ Len(ppGroup) = WriteGroupMax
    /\ ppBatch' = [EmptyBatch EXCEPT !.known = {e \in ppRaw : \E i \in DOMAIN ppGroup : ppGroup[i].op = "save" /\ ppGroup[i].ev = e}]
    /\ WriterKeeps /\ UNCHANGED <<Database, ppQueue, ppCaller, ppGroup, ppSpared>>

Answer(caller, c, answer) == [caller EXCEPT ![c].answer = answer]

\* Set of the locator, the body and the index keys, sketches and counters.
Put(b, e) ==
    [b EXCEPT !.raw = @ \cup {e}, !.keys = @ \cup Entries("pebble2", {e}),
              !.sketches = @ \cup {<<t, Author[e]>> : t \in Targets[e]}, !.deltas = Bump(@, e, 1)]

\* The sketches stay.
Drop(b, e) ==
    [b EXCEPT !.raw = @ \ {e}, !.keys = @ \ Entries("pebble2", {e}), !.deltas = Bump(@, e, -1)]

DecideKeeps == WriterKeeps /\ UNCHANGED <<Database, ppQueue, ppWriter>>

Refuse(c, b) == ppBatch' = b /\ ppCaller' = Answer(ppCaller, c, "no")

\* The answer of an accepted request waits for the commit.
Pend(c, b) == ppBatch' = [b EXCEPT !.pending = @ \cup {c}] /\ UNCHANGED ppCaller

DecideSave ==
    /\ ppWriter = "decide" /\ ppGroup # <<>> /\ Head(ppGroup).op = "save"
    /\ LET e == Head(ppGroup).ev
           b == [ppBatch EXCEPT !.seenSave = @ \cup {e}]
       IN  IF e \in ppBatch.seenSave \cup ppBatch.known THEN Refuse(Head(ppGroup).caller, b)
           ELSE Pend(Head(ppGroup).caller, Put(b, e))
    /\ ppGroup' = Tail(ppGroup) /\ DecideKeeps /\ UNCHANGED ppSpared

DecideDeleteTwice ==
    /\ ppWriter = "decide" /\ ppGroup # <<>> /\ Head(ppGroup).op = "delete"
    /\ IF Head(ppGroup).ev \notin ppRaw THEN Refuse(Head(ppGroup).caller, ppBatch)
       ELSE Pend(Head(ppGroup).caller, Drop(ppBatch, Head(ppGroup).ev))
    /\ ppGroup' = Tail(ppGroup) /\ DecideKeeps /\ UNCHANGED ppSpared

\* The lookup is of the database: what the batch does to it is not seen.
DecideDelete ==
    /\ ppWriter = "decide" /\ ppGroup # <<>> /\ Head(ppGroup).op = "delete"
    /\ LET e == Head(ppGroup).ev
           b == [ppBatch EXCEPT !.seenDel = @ \cup {e}]
       IN  IF e \in ppBatch.seenDel \/ e \notin ppRaw THEN Refuse(Head(ppGroup).caller, b)
           ELSE Pend(Head(ppGroup).caller, Drop(b, e))
    /\ ppGroup' = Tail(ppGroup) /\ DecideKeeps /\ UNCHANGED ppSpared

LedgerOfDatabase(e) ==
    LET found == FindReplaceVersions(e)
    IN  [newest |-> IF found = {} THEN {} ELSE {NewestOf(found)}, old |-> found]

\* The ledger: per tuple the newest version so far and those to be deleted.
LedgerOf(e) ==
    IF ReplaceKey(e) \in DOMAIN ppBatch.ledger THEN ppBatch.ledger[ReplaceKey(e)]
    ELSE LET found == FindReplaceVersions(e)
         IN  [newest |-> IF found = {} THEN {} ELSE {NewestOf(found)}, old |-> found]

Record(ledger, key, entry) ==
    [k \in DOMAIN ledger \cup {key} |-> IF k = key THEN entry ELSE ledger[k]]

DropAll(b, S) ==
    [b EXCEPT !.raw = @ \ S, !.keys = @ \ Entries("pebble2", S),
              !.deltas = [k \in CounterKeys |-> b.deltas[k] - Cardinality({x \in S : k \in AllCounters(x)})]]

\* A version as new as this one refuses it.  Otherwise all that came before go,
\* each once in the group: what a deletion has named already is passed over, even
\* if the deletion found nothing and the version was written after it.
DecideReplace ==
    /\ ppWriter = "decide" /\ ppGroup # <<>> /\ Head(ppGroup).op = "replace"
    /\ LET e == Head(ppGroup).ev
           c == Head(ppGroup).caller
           st == LedgerOf(e)
           before == (st.old \cup st.newest) \ {e}
           old == before \ ppBatch.seenDel
           wins == \A x \in st.newest : CreatedAt[x] < CreatedAt[e]
           refused == [ppBatch EXCEPT !.ledger = Record(@, ReplaceKey(e), st)]
           won == [ppBatch EXCEPT !.ledger = Record(@, ReplaceKey(e), [newest |-> {e}, old |-> {}]),
                                  !.seenDel = @ \cup old, !.seenSave = @ \cup {e}]
       IN  /\ IF ~wins THEN Refuse(c, refused)
              ELSE IF e \in ppBatch.seenSave THEN Refuse(c, won)
              ELSE Pend(c, DropAll(Put(won, e), old))
           /\ ppSpared' = IF wins THEN ppSpared \cup (before \cap ppBatch.seenDel \cap ppBatch.raw) ELSE ppSpared
    /\ ppGroup' = Tail(ppGroup) /\ DecideKeeps

\* One batch for events, keys and counters.
GroupCommits ==
    /\ ppWriter = "decide" /\ ppGroup = <<>>
    /\ ppRaw' = ppBatch.raw /\ ppKeys' = ppBatch.keys
    /\ ppCounters' = Merge(ppCounters, ppBatch.deltas) /\ ppSketches' = ppSketches \cup ppBatch.sketches
    /\ ppCaller' = [c \in Callers |-> IF c \in ppBatch.pending THEN [ppCaller[c] EXCEPT !.answer = "stored"] ELSE ppCaller[c]]
    /\ ppWriter' = "receive" /\ ppBatch' = [ppBatch EXCEPT !.pending = {}]
    /\ WriterKeeps /\ UNCHANGED <<ppQueue, ppGroup, ppSpared>>

GroupFailsSilently ==
    /\ ppWriter = "decide" /\ ppGroup = <<>>
    /\ ppWriter' = "receive" /\ ppBatch' = [ppBatch EXCEPT !.pending = {}]
    /\ WriterKeeps /\ UNCHANGED <<Database, ppQueue, ppCaller, ppGroup, ppSpared>>

\* A batch that cannot be committed: nothing of it is written.
GroupFails ==
    /\ ppWriter = "decide" /\ ppGroup = <<>>
    /\ ppCaller' = [c \in Callers |-> IF c \in ppBatch.pending THEN [ppCaller[c] EXCEPT !.answer = "error"] ELSE ppCaller[c]]
    /\ ppWriter' = "receive" /\ ppBatch' = [ppBatch EXCEPT !.pending = {}]
    /\ WriterKeeps /\ UNCHANGED <<Database, ppQueue, ppGroup, ppSpared>>

PipelineNext ==
    \/ \E c \in Callers : CallerLocks(c) \/ CallerSends(c) \/ CallerReturns(c)
    \/ \E c \in Callers, e \in PipelineEvents : CallWrite(c, e) \/ CallDelete(c, e)
    \/ CloseStart \/ CloseChannel \/ CloseEnds
    \/ WriterReceives \/ WriterCollects \/ GroupStarts
    \/ DecideSave \/ DecideDelete \/ DecideReplace \/ GroupCommits \/ GroupFails

\* The goroutines run; the calls themselves and Close need not happen.
PipelineFairness ==
    /\ WF_ppVars(WriterReceives \/ WriterCollects \/ GroupStarts \/ DecideSave \/ DecideDelete \/ DecideReplace
                 \/ GroupCommits \/ GroupFails)
    /\ WF_ppVars(CloseChannel \/ CloseEnds)
    /\ \A c \in Callers : WF_ppVars(CallerLocks(c) \/ CallerSends(c) \/ CallerReturns(c))

-----------------------------------------------------------------------------
(* Properties *)

\* Events that a version of is found again by its d.
HasItsD(e) == IsAddressable(Kind[e]) => D[e] # NoD

\* The counters that CountEvents trusts are the numbers of stored events, after
\* any grouping of saves, deletions and replacements and whichever commits fail,
\* as long as no addressable event without a d tag is counted by them.
CountersExact ==
    /\ ppKeys = Entries("pebble2", ppRaw)
    /\ \A k \in CounterKeys :
         (\A e \in PipelineEvents : k \in AllCounters(e) => HasItsD(e)) =>
             ppCounters[k] = Cardinality({e \in ppRaw : k \in AllCounters(e)})

\* Two versions of which ReplaceEvent is to keep one.
AreVersions(e, x) ==
    /\ x # e /\ OpFor(e) = "replace" /\ HasItsD(e) /\ HasItsD(x)
    /\ ReplaceKey(x) = ReplaceKey(e)

\* Replacements that meet in one group leave one version, as those of different
\* groups do, except for a version that a deletion of the group has hidden.
PipelineKeepsOneVersion ==
    \A e, x \in ppRaw : AreVersions(e, x) => {x, e} \cap ppSpared # {}

\* Close takes the channel away only when no caller can send to it, and every
\* caller that waits has its request in the queue, in the group or in the batch,
\* or its answer.
NoSendAfterClose ==
    /\ \A c \in Callers : ppCaller[c].pc = "send" => ppOpen
    /\ \A c \in Callers : ppCaller[c].pc = "wait" /\ ppCaller[c].answer = "none" =>
         \/ \E i \in DOMAIN ppQueue : ppQueue[i].caller = c
         \/ \E i \in DOMAIN ppGroup : ppGroup[i].caller = c
         \/ c \in ppBatch.pending

\* The writer's group commits: keys and counters agree with the events, no version
\* is left beside its replacement, no request is sent on a closed channel.
PipelineIsSafe == CountersExact /\ PipelineKeepsOneVersion /\ NoSendAfterClose

\* Every call returns, though the channel is full, the commit fails or Close
\* comes in between, and Close returns once the channel is drained.
PipelineDrains ==
    /\ \A c \in Callers : ppCaller[c].pc # "idle" ~> ppCaller[c].pc = "idle"
    /\ ppCloser # "idle" ~> ppCloser = "done"

(* What a comment of the code says, and the code does not do *)

\* The comments of commitGroup say that of replacements in one group not all survive
\* and that the one that wins removes every prior version.  A deletion that finds
\* nothing, because another one was faster, still marks its id as deleted, and a
\* version written after it in the group stays beside the one that replaces it.
EveryPriorVersionRemoved == \A e, x \in ppRaw : ~AreVersions(e, x)
=============================================================================
