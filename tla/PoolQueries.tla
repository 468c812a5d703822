---------------------------- MODULE PoolQueries ----------------------------
(***************************************************************************)
(* The operations of the client's pool on many relays (pool.go): subMany,  *)
(* subManyEose, FetchManyReplaceable, QuerySingle, the batched forms,      *)
(* PublishMany and CountMany.  Each starts a goroutine per URL; they share *)
(* the duplicate maps, the output channel and the wait groups.  A          *)
(* subscription is what module Subscription shows of it: events wait in    *)
(* goroutines, the EOSE comes after the stored ones, cancelling ends in a  *)
(* closed Events channel.  EnsureRelay is module Pool, Publish and Auth    *)
(* are modules of their own: here they succeed or fail.                    *)
(***************************************************************************)
EXTENDS Naturals, Sequences, FiniteSets

CONSTANTS
    PoolOps,      \* operations to start with, a subset of AllPoolOps
    PoolUrls,     \* the list of URLs of the call; a URL may repeat
    PoolEvents,   \* events: a set of numbers, the later the newer
    KeyOf,        \* event -> its ReplaceableKey
    RelayHolds,   \* operation -> URL -> events the relay holds for its filter
    BadAt,        \* URL -> events of which the relay sends a forged copy
    MaxTries,     \* bound: connection attempts of a goroutine
    MaxFaults     \* bound: failed attempts, CLOSEDs, disconnections and cancellations

AllPoolOps == {"sub", "fetch", "single", "latest", "batchQuery", "batchSub", "publish", "count"}

ASSUME PoolAssumption ==
    /\ PoolOps \subseteq AllPoolOps /\ {MaxTries, MaxFaults} \subseteq Nat /\ PoolEvents \subseteq Nat \ {0}
    /\ \A o \in PoolOps, i \in DOMAIN PoolUrls : {RelayHolds[o][PoolUrls[i]], BadAt[PoolUrls[i]]} \subseteq SUBSET PoolEvents

\* The URLs are a list.
ASSUME UrlsAssumption == PoolUrls \in Seq({PoolUrls[i] : i \in DOMAIN PoolUrls})

VARIABLES
    pqOp,     \* the operation
    pqW,      \* the goroutine of each URL of the list, with its subscription
    pqMaps,   \* seen: seenAlready; latest: seenAlreadyLatest; results: the map of
              \* FetchManyReplaceable; register: one register of CountMany's hll
    pqChan,   \* ctx: the call's context is live; closed: the output channel is;
              \* eoseClosed: eoseChan is; eoseWg: the counter of eoseWg;
              \* reading: the consumer reads
    pqHist    \* history. out: event -> deliveries, or stores; spoiled: events whose first copy was
              \* forged or given up; forgotten: ids the ticker dropped; answers: results;
              \* cancelled: the application cancelled; faults: how many there were

pqVars == <<pqOp, pqW, pqMaps, pqChan, pqHist>>

Workers == DOMAIN PoolUrls
Nothing == 0
PoolKeys == {KeyOf[e] : e \in PoolEvents}
Held(i) == RelayHolds[pqOp][PoolUrls[i]]
Staying == {"sub", "batchSub"}                       \* operations that run subMany
Batched == {"batchQuery", "batchSub"}

\* phase: none, open, cancelled (its context is done), closed (sub.Events is);
\* eose: EndOfStoredEvents holds a value; reason: so does ClosedReason.
NoSub == [phase |-> "none", eosed |-> FALSE, timedOut |-> FALSE, eose |-> "none",
          reason |-> "none", sent |-> {}]

\* hand: what the goroutine took from a channel; old: the timer of a
\* subscription it abandoned still runs; waiting: events in goroutines of
\* dispatchEvent; forward: what the forwarder of a batched form holds.
NewWorker(l) ==
    [pc |-> l, hand |-> Nothing, authed |-> FALSE, tries |-> 0, sub |-> NoSub, waiting |-> {},
     old |-> FALSE, sinceNow |-> FALSE, eosed |-> FALSE, forward |-> Nothing, finished |-> FALSE]

SetW(i, w) == pqW' = [pqW EXCEPT ![i] = w]
GotoW(i, l) == SetW(i, [pqW[i] EXCEPT !.pc = l])
\* Connections fail a bounded number of times in a behaviour.
Fault == pqHist.faults < MaxFaults /\ pqHist' = [pqHist EXCEPT !.faults = @ + 1]
Lost(ids) == pqHist' = [pqHist EXCEPT !.spoiled = @ \cup ids]
EventIds(ws) == {w.id : w \in ws}

-----------------------------------------------------------------------------
(* The goroutine of a URL: connecting and subscribing *)

\* Mutant: the counter goes down at every EOSE.
CountEveryEose(i) ==
    pqChan' = [pqChan EXCEPT !.eoseWg = IF @ = 0 THEN @ ELSE @ - 1]

\* eosed.CompareAndSwap(false, true) and eoseWg.Done(): once per goroutine.
CountEose(i) ==
    pqChan' = [pqChan EXCEPT !.eoseWg = IF pqW[i].eosed THEN @ ELSE @ - 1]

\* What is left of a goroutine that has returned: its subscription.
Remains(w) ==
    [NewWorker("done") EXCEPT !.eosed = TRUE, !.waiting = w.waiting, !.forward = w.forward,
        !.finished = w.finished, !.sub = [w.sub EXCEPT !.eosed = TRUE, !.reason = "none",
                                                       !.timedOut = @ \/ w.sub.eose # "taken"]]

\* Leaving: the deferred function of subMany counts the EOSE too.
Leaves(i, w) == SetW(i, Remains(w)) /\ CountEose(i)

\* An error of EnsureRelay or Subscribe: subMany tries again, the others leave.
Fails(i, w) ==
    \/ pqOp \in Staying /\ SetW(i, [w EXCEPT !.pc = "sleep"]) /\ UNCHANGED pqChan
    \/ pqOp = "publish" /\ SetW(i, [w EXCEPT !.pc = "answer", !.hand = "error"]) /\ UNCHANGED pqChan
    \/ pqOp \notin Staying \cup {"publish"} /\ Leaves(i, w)

\* subMany looks at the context before every attempt.
EnsureOne(i) ==
    LET w == [pqW[i] EXCEPT !.tries = @ + 1] IN
    /\ pqW[i].pc = "ensure"
    /\ IF pqOp \in Staying /\ ~pqChan.ctx THEN Leaves(i, pqW[i]) /\ UNCHANGED pqHist
       ELSE /\ pqW[i].tries < MaxTries
            /\ \/ /\ SetW(i, [w EXCEPT !.authed = FALSE,
                                       !.pc = IF pqOp \in {"publish", "count"} THEN pqOp ELSE "subscribe"])
                  /\ UNCHANGED <<pqChan, pqHist>>
               \/ Fails(i, w) /\ Fault
    /\ UNCHANGED <<pqOp, pqMaps>>

\* relay.Subscribe: a fresh subscription, or an error. What waited in an old
\* one is lost; its timer goes on.
SubscribeOne(i) ==
    LET w == pqW[i] IN
    /\ w.pc = "subscribe"
    /\ \/ /\ SetW(i, [w EXCEPT !.sub = [NoSub EXCEPT !.phase = "open"], !.waiting = {}, !.pc = "loop",
                               !.old = @ \/ (w.sub.phase # "none" /\ ~w.sub.eosed)])
          /\ Lost(EventIds(w.waiting)) /\ UNCHANGED pqChan
       \/ Fails(i, w) /\ Fault
    /\ UNCHANGED <<pqOp, pqMaps>>

\* time.Sleep(interval), whatever the context does.
SleepOne(i) == pqW[i].pc = "sleep" /\ GotoW(i, "ensure") /\ UNCHANGED <<pqOp, pqMaps, pqChan, pqHist>>

-----------------------------------------------------------------------------
(* What the relay sends, and handleMessage with it *)

\* Mutant: ids are forgotten when the goroutine has its EOSE.
IsDuplicateBeforeEose(i, e) ==
    IF pqOp = "latest" THEN e <= pqMaps.latest[KeyOf[e]]
    ELSE e \in pqMaps.seen /\ ~pqW[i].sub.eosed

\* CheckDuplicate, or CheckDuplicateReplaceable.
IsDuplicate(i, e) ==
    IF pqOp = "latest" THEN e <= pqMaps.latest[KeyOf[e]] ELSE e \in pqMaps.seen

\* Nobody looks at the EOSE or the reason of a subscription whose goroutine
\* has left, only at what its events do to the shared maps.
Watched(i) == pqW[i].pc # "done"

\* The hook runs before the message is parsed, matched and verified. After
\* filter.Since = Now() the relay has nothing stored for it.
EventArrives(i, e) ==
    LET w == pqW[i]
        sub == [w.sub EXCEPT !.sent = @ \cup {e}]
        forged == e \in BadAt[PoolUrls[i]] IN
    /\ w.sub.phase = "open" /\ ~w.sinceNow
    /\ e \in Held(i) \ w.sub.sent
    /\ IF IsDuplicate(i, e)
       THEN SetW(i, [w EXCEPT !.sub = sub]) /\ UNCHANGED <<pqMaps, pqHist>>
       ELSE /\ pqMaps' = IF pqOp = "latest" THEN [pqMaps EXCEPT !.latest[KeyOf[e]] = e]
                         ELSE [pqMaps EXCEPT !.seen = @ \cup {e}]
            /\ SetW(i, [w EXCEPT !.sub = sub,
                                !.waiting = IF forged THEN @ ELSE @ \cup {[id |-> e, stored |-> ~sub.eosed]}])
            /\ Lost({x \in {e} : forged})
    /\ UNCHANGED <<pqOp, pqChan>>

\* The goroutine of a stored event gives it up: the subscription was cancelled,
\* or the fake EOSE came. One of a later event does so at the end at the latest.
GiveUp(i, x) ==
    /\ x \in pqW[i].waiting
    /\ x.stored /\ (pqW[i].sub.phase = "cancelled" \/ pqW[i].sub.timedOut)
    /\ SetW(i, [pqW[i] EXCEPT !.waiting = @ \ {x}])
    /\ Lost({x.id})
    /\ UNCHANGED <<pqOp, pqMaps, pqChan>>

\* dispatchEose, by the relay's message after its events or by the timer.
EoseArrives(i, timer) ==
    LET s == pqW[i].sub IN
    /\ s.phase # "none" /\ ~s.eosed /\ Watched(i)
    /\ timer \/ (s.phase = "open" /\ (pqW[i].sinceNow \/ Held(i) \subseteq s.sent))
    /\ SetW(i, [pqW[i] EXCEPT !.sub.eosed = TRUE, !.sub.timedOut = timer])
    /\ UNCHANGED <<pqOp, pqMaps, pqChan, pqHist>>

\* Mutant: the EOSE does not wait for the stored events.
EoseAtOnce(i) ==
    /\ pqW[i].sub.eosed /\ pqW[i].sub.eose = "none" /\ Watched(i)
    /\ SetW(i, [pqW[i] EXCEPT !.sub.eose = "ready"])
    /\ UNCHANGED <<pqOp, pqMaps, pqChan, pqHist>>

\* EndOfStoredEvents gets its value when storedwg is down to zero.
EoseReady(i) ==
    /\ pqW[i].sub.eosed /\ pqW[i].sub.eose = "none" /\ Watched(i)
    /\ \A x \in pqW[i].waiting : ~x.stored
    /\ SetW(i, [pqW[i] EXCEPT !.sub.eose = "ready"])
    /\ UNCHANGED <<pqOp, pqMaps, pqChan, pqHist>>

\* close(sub.Events): what still waits is lost (module Subscription says what
\* else may happen to it).
EndSub(w) == [w EXCEPT !.sub = [NoSub EXCEPT !.phase = "closed", !.eosed = w.sub.eosed, !.eose = w.sub.eose,
                          !.reason = w.sub.reason, !.timedOut = w.sub.timedOut], !.waiting = {}]

\* handleClosed: ClosedReason first...
ClosedArrives(i, reason) ==
    /\ pqW[i].sub.phase = "open" /\ pqW[i].sub.reason = "none" /\ Watched(i)
    /\ SetW(i, [pqW[i] EXCEPT !.sub.reason = reason]) /\ Fault
    /\ UNCHANGED <<pqOp, pqMaps, pqChan>>

\* ...then the subscription's context; so does the end of the connection, and
\* that of the call's context. With nobody watching, the cleanup follows at once.
SubCancelled(i) ==
    /\ pqW[i].sub.phase = "open"
    /\ LET lost == IF Watched(i) THEN {} ELSE EventIds({x \in pqW[i].waiting : ~x.stored \/ pqW[i].sub.timedOut})
           fault == pqW[i].sub.reason = "none" /\ pqChan.ctx IN
       /\ fault => pqHist.faults < MaxFaults
       /\ pqHist' = [pqHist EXCEPT !.spoiled = @ \cup lost, !.faults = IF fault THEN @ + 1 ELSE @]
    /\ SetW(i, IF Watched(i) THEN [pqW[i] EXCEPT !.sub.phase = "cancelled"] ELSE EndSub(pqW[i]))
    /\ UNCHANGED <<pqOp, pqMaps, pqChan>>

\* The cleanup goroutine.
EventsClosed(i) ==
    /\ pqW[i].sub.phase = "cancelled"
    /\ SetW(i, EndSub(pqW[i]))
    /\ Lost(EventIds(pqW[i].waiting))
    /\ UNCHANGED <<pqOp, pqMaps, pqChan>>

-----------------------------------------------------------------------------
(* The select of the goroutine *)

InLoop(i) == pqW[i].pc = "loop"

TakeEvent(i, x) ==
    /\ InLoop(i) /\ x \in pqW[i].waiting
    /\ SetW(i, [pqW[i] EXCEPT !.waiting = @ \ {x}, !.hand = x.id,
                              !.pc = IF pqOp = "latest" THEN "store" ELSE "send"])
    /\ UNCHANGED <<pqOp, pqMaps, pqChan, pqHist>>

\* sub.Events is closed: subMany asks for what is new from now on.
TakeEnd(i) ==
    /\ InLoop(i) /\ pqW[i].sub.phase = "closed"
    /\ IF pqOp \in Staying
       THEN SetW(i, [pqW[i] EXCEPT !.sinceNow = TRUE, !.pc = "sleep"]) /\ UNCHANGED pqChan
       ELSE Leaves(i, pqW[i])
    /\ UNCHANGED <<pqOp, pqMaps, pqHist>>

\* subManyEose and FetchManyReplaceable leave at the EOSE.
TakeEose(i) ==
    /\ InLoop(i) /\ pqOp \notin Staying /\ pqW[i].sub.eose = "ready"
    /\ Leaves(i, [pqW[i] EXCEPT !.sub.eose = "taken"])
    /\ UNCHANGED <<pqOp, pqMaps, pqHist>>

\* A CLOSED: one AUTH and another try, else the goroutine ends.
TakeReason(i) ==
    LET w == [pqW[i] EXCEPT !.sub.reason = "taken"] IN
    /\ InLoop(i) /\ pqW[i].sub.reason \in {"auth", "other"}
    /\ SetW(i, [w EXCEPT !.pc = IF pqW[i].sub.reason = "auth" /\ ~w.authed THEN "auth" ELSE "tell"])
    /\ UNCHANGED <<pqOp, pqMaps, pqChan, pqHist>>

\* relay.Auth; the reason, marked as handled, goes to closedChan.
AuthOne(i) ==
    /\ pqW[i].pc = "auth"
    /\ \/ SetW(i, [pqW[i] EXCEPT !.authed = TRUE, !.pc = "subscribe"])
       \/ GotoW(i, "tell")
    /\ UNCHANGED <<pqOp, pqMaps, pqChan, pqHist>>

TellClosed(i) ==
    /\ pqW[i].pc = "tell"
    /\ Leaves(i, pqW[i])
    /\ UNCHANGED <<pqOp, pqMaps, pqHist>>

TakeDone(i) ==
    /\ InLoop(i) /\ ~pqChan.ctx
    /\ Leaves(i, pqW[i])
    /\ UNCHANGED <<pqOp, pqMaps, pqHist>>

\* The ticker drops ids that are more than a minute old, when this goroutine
\* has its EOSE.
TakeTick(i, ids) ==
    /\ pqOp = "sub" /\ InLoop(i) /\ pqW[i].eosed /\ pqChan.ctx
    /\ ids \subseteq pqMaps.seen /\ ids # {}
    /\ pqMaps' = [pqMaps EXCEPT !.seen = @ \ ids]
    /\ pqHist' = [pqHist EXCEPT !.forgotten = @ \cup ids]
    /\ UNCHANGED <<pqOp, pqW, pqChan>>

\* The consumer of QuerySingle takes one event, cancels and is gone.
Consume(e) ==
    /\ pqHist' = [pqHist EXCEPT !.out[e] = @ + 1]
    /\ pqChan' = IF pqOp = "single" THEN [pqChan EXCEPT !.ctx = FALSE, !.reading = FALSE] ELSE pqChan

\* Mutant: the context is not looked at while sending.
SendOnly(i) ==
    LET w == pqW[i] IN
    /\ w.pc = "send" /\ pqChan.reading /\ pqOp \notin Batched
    /\ SetW(i, [w EXCEPT !.pc = "loop", !.hand = Nothing]) /\ Consume(w.hand)
    /\ UNCHANGED <<pqOp, pqMaps>>

\* events <- ie, or ctx.Done(); in a batched form the forwarder is the reader.
SendOne(i) ==
    LET w == pqW[i] IN
    /\ w.pc = "send"
    /\ \/ /\ pqOp \notin Batched /\ pqChan.reading
          /\ SetW(i, [w EXCEPT !.pc = "loop", !.hand = Nothing]) /\ Consume(w.hand)
       \/ /\ pqOp \in Batched /\ w.forward = Nothing /\ ~w.finished
          /\ SetW(i, [w EXCEPT !.pc = "loop", !.hand = Nothing, !.forward = w.hand])
          /\ UNCHANGED <<pqChan, pqHist>>
       \/ ~pqChan.ctx /\ Leaves(i, w) /\ UNCHANGED pqHist
    /\ UNCHANGED <<pqOp, pqMaps>>

\* res <- ie, or ctx.Done(), after which the forwarder is gone.
Forward(i) ==
    LET w == pqW[i] IN
    /\ w.forward # Nothing /\ ~w.finished
    /\ \/ SetW(i, [w EXCEPT !.forward = Nothing]) /\ Consume(w.forward)
       \/ ~pqChan.ctx /\ SetW(i, [w EXCEPT !.finished = TRUE]) /\ UNCHANGED <<pqChan, pqHist>>
    /\ UNCHANGED <<pqOp, pqMaps>>

\* The inner channel is closed: the forwarder ends.
ForwardEnds(i) ==
    /\ pqOp \in Batched /\ pqW[i].pc = "done" /\ pqW[i].forward = Nothing /\ ~pqW[i].finished
    /\ SetW(i, [pqW[i] EXCEPT !.finished = TRUE])
    /\ UNCHANGED <<pqOp, pqMaps, pqChan, pqHist>>

\* results.Store of FetchManyReplaceable, some time after the check.
StoreResult(i) ==
    LET e == pqW[i].hand IN
    /\ pqW[i].pc = "store"
    /\ pqMaps' = [pqMaps EXCEPT !.results[KeyOf[e]] = e]
    /\ SetW(i, [pqW[i] EXCEPT !.pc = "loop", !.hand = Nothing])
    /\ pqHist' = [pqHist EXCEPT !.out[e] = @ + 1]
    /\ UNCHANGED <<pqOp, pqChan>>

\* The goroutine subMany starts for the EOSE of a subscription; one of an
\* abandoned subscription gets the fake EOSE.
EoseNoticed(i) ==
    /\ pqOp \in Staying /\ CountEose(i)
    /\ \/ pqW[i].sub.eose = "ready" /\ SetW(i, [pqW[i] EXCEPT !.sub.eose = "taken", !.eosed = TRUE])
       \/ pqW[i].old /\ SetW(i, [pqW[i] EXCEPT !.old = FALSE, !.eosed = TRUE])
    /\ UNCHANGED <<pqOp, pqMaps, pqHist>>

-----------------------------------------------------------------------------
(* PublishMany and CountMany *)

\* relay.Publish: accepted, refused, or refused for want of an AUTH; after a
\* successful Auth it is tried once more.
PublishOne(i) ==
    LET w == pqW[i] IN
    /\ \/ w.pc = "publish" /\ \E r \in {"ok", "error", "auth"} :
            SetW(i, [w EXCEPT !.hand = r, !.pc = IF r = "auth" THEN "publishAuth" ELSE "answer"])
       \/ w.pc = "publishAuth" /\ GotoW(i, "publishAgain")
       \/ w.pc \in {"publishAuth", "publishAgain"} /\ SetW(i, [w EXCEPT !.hand = "error", !.pc = "answer"])
       \/ w.pc = "publishAgain" /\ SetW(i, [w EXCEPT !.hand = "ok", !.pc = "answer"])
    /\ UNCHANGED <<pqOp, pqMaps, pqChan, pqHist>>

\* The result goes to a channel with room for every URL.
AnswerOne(i) ==
    /\ pqW[i].pc = "answer"
    /\ pqHist' = [pqHist EXCEPT !.answers[i] = @ + 1]
    /\ Leaves(i, pqW[i])
    /\ UNCHANGED <<pqOp, pqMaps>>

\* countInternal gives registers, or an error, or a count without registers.
CountOne(i) ==
    LET w == pqW[i] IN
    /\ w.pc = "count"
    /\ \/ \E v \in 1..2 : SetW(i, [w EXCEPT !.hand = v, !.pc = "compare"]) /\ UNCHANGED pqChan
       \/ Leaves(i, w)
    /\ UNCHANGED <<pqOp, pqMaps, pqHist>>

\* MergeRegisters without a lock: a register is compared, then written.
MergeOne(i) ==
    LET w == pqW[i] IN
    /\ \/ /\ w.pc = "compare" /\ w.hand > pqMaps.register
          /\ GotoW(i, "merge") /\ UNCHANGED <<pqMaps, pqChan>>
       \/ w.pc = "compare" /\ w.hand <= pqMaps.register /\ Leaves(i, w) /\ UNCHANGED pqMaps
       \/ w.pc = "merge" /\ pqMaps' = [pqMaps EXCEPT !.register = w.hand] /\ Leaves(i, w)
    /\ UNCHANGED <<pqOp, pqHist>>

-----------------------------------------------------------------------------
(* The call *)

\* The goroutine that waits for all others closes the channel and, but for
\* PublishMany and CountMany, cancels the context.
AllEnded ==
    /\ ~pqChan.closed
    /\ \A i \in Workers : IF pqOp \in Batched THEN pqW[i].finished ELSE pqW[i].pc = "done"
    /\ pqChan' = [pqChan EXCEPT !.closed = TRUE, !.ctx = @ /\ pqOp \in {"publish", "count"}]
    /\ UNCHANGED <<pqOp, pqW, pqMaps, pqHist>>

EoseChanCloses ==
    /\ pqOp = "sub" /\ ~pqChan.eoseClosed /\ pqChan.eoseWg = 0
    /\ pqChan' = [pqChan EXCEPT !.eoseClosed = TRUE]
    /\ UNCHANGED <<pqOp, pqW, pqMaps, pqHist>>

\* The application cancels the context and stops reading.
CancelCall ==
    /\ pqChan.ctx /\ pqHist.faults < MaxFaults
    /\ pqChan' = [pqChan EXCEPT !.ctx = FALSE, !.reading = FALSE]
    /\ pqHist' = [pqHist EXCEPT !.cancelled = TRUE, !.faults = @ + 1]
    /\ UNCHANGED <<pqOp, pqW, pqMaps>>

\* subMany and PublishMany skip a URL that was in the list before.
Repeats(i) == \E j \in 1..(i - 1) : PoolUrls[j] = PoolUrls[i]

PoolQueriesInit ==
    /\ pqOp \in PoolOps
    /\ LET skipped == {i \in Workers : pqOp \in {"sub", "publish"} /\ Repeats(i)} IN
       /\ pqW = [i \in Workers |-> IF i \in skipped THEN [NewWorker("done") EXCEPT !.eosed = TRUE]
                                   ELSE NewWorker("ensure")]
       /\ pqChan = [ctx |-> TRUE, closed |-> FALSE, eoseClosed |-> FALSE, reading |-> TRUE,
                    eoseWg |-> Len(PoolUrls) - Cardinality(skipped)]
    /\ pqMaps = [seen |-> {}, latest |-> [k \in PoolKeys |-> 0], results |-> [k \in PoolKeys |-> 0],
                 register |-> 0]
    /\ pqHist = [out |-> [e \in PoolEvents |-> 0], spoiled |-> {}, forgotten |-> {},
                 answers |-> [i \in Workers |-> 0], cancelled |-> FALSE, faults |-> 0]

\* Messages and timers after the end of the call's context change nothing that
\* anybody sees.
RelayStep(i) ==
    /\ pqChan.ctx
    /\ \/ \E e \in PoolEvents : EventArrives(i, e)
       \/ EoseArrives(i, FALSE) \/ ClosedArrives(i, "auth") \/ ClosedArrives(i, "other")

SubscriptionStep(i) ==
    \/ pqChan.ctx /\ EoseArrives(i, TRUE)
    \/ EoseReady(i) \/ EventsClosed(i)
    \/ (pqW[i].sub.reason # "none" \/ ~pqChan.ctx) /\ SubCancelled(i)

WorkerStep(i) ==
    \/ EnsureOne(i) \/ SubscribeOne(i) \/ SleepOne(i)
    \/ (\E x \in pqW[i].waiting : TakeEvent(i, x)) \/ TakeEnd(i) \/ TakeEose(i) \/ TakeReason(i)
    \/ AuthOne(i) \/ TellClosed(i) \/ TakeDone(i)
    \/ SendOne(i) \/ Forward(i) \/ ForwardEnds(i) \/ StoreResult(i)
    \/ PublishOne(i) \/ AnswerOne(i) \/ CountOne(i) \/ MergeOne(i)

PoolQueriesNext ==
    \/ \E i \in Workers :
        \/ RelayStep(i) \/ SubscriptionStep(i) \/ SubCancelled(i) \/ WorkerStep(i) \/ EoseNoticed(i)
        \/ \E x \in pqW[i].waiting : GiveUp(i, x)
        \/ \E ids \in SUBSET pqMaps.seen : TakeTick(i, ids)
    \/ AllEnded \/ EoseChanCloses \/ CancelCall

\* Goroutines run, timers fire, Publish, Auth and Count return; a relay need
\* not send anything.
PoolQueriesFairness ==
    /\ \A i \in Workers :
        /\ WF_pqVars(SubscriptionStep(i)) /\ WF_pqVars(WorkerStep(i)) /\ WF_pqVars(EoseNoticed(i))
        /\ WF_pqVars(\E x \in pqW[i].waiting : GiveUp(i, x))
    /\ WF_pqVars(AllEnded) /\ WF_pqVars(EoseChanCloses)

-----------------------------------------------------------------------------
(* Properties *)

\* However many relays have an event, and however often the goroutine of one
\* subscribes again, the consumer gets it once; only the ticker of
\* SubscribeMany, which forgets ids after a minute, can make it come again.
DeliveredOnce == \A e \in PoolEvents : pqHist.out[e] <= 1 \/ e \in pqHist.forgotten

\* FetchMany has returned and all its subscriptions are gone: what a relay
\* sent before its own EOSE came to the consumer, from this relay or another,
\* unless the copy that came first was forged or died with its subscription.
FetchComplete ==
    /\ pqOp \in {"fetch", "batchQuery"} /\ pqChan.closed /\ ~pqHist.cancelled
    /\ \A i \in Workers : pqW[i].sub.phase \in {"none", "closed"}
    => \A i \in Workers : \A e \in Held(i) :
          pqW[i].sub.eose = "taken" /\ ~pqW[i].sub.timedOut =>
              pqHist.out[e] = 1 \/ e \in pqHist.spoiled

\* The channel of SubscribeManyNotifyEOSE is closed once, when every relay has
\* sent its EOSE, kept it back for too long or been given up, even if some of
\* them were subscribed several times.
EoseWhenAll ==
    pqOp = "sub" =>
        /\ pqChan.eoseWg = Cardinality({i \in Workers : ~pqW[i].eosed})
        /\ pqChan.eoseClosed => \A i \in Workers : pqW[i].eosed

\* Every call ends: the fetching, publishing and counting ones by themselves,
\* since each subscription has an EOSE at the latest when its timer fires, the
\* subscribing ones when their context is cancelled.
PoolCallsEnd ==
    /\ pqOp \notin Staying ~> pqChan.closed
    /\ ~pqChan.ctx ~> pqChan.closed

(* What a comment of the code says, and the code does not do *)

\* FetchManyReplaceable "returns only the latest for each d tag": no version it
\* stored is newer than the one it returns.
NewestReturned ==
    pqOp = "latest" /\ pqChan.closed =>
        \A e \in PoolEvents : pqHist.out[e] > 0 => pqMaps.results[KeyOf[e]] >= e
=============================================================================
