---------------------------- MODULE Subscription ----------------------------
(***************************************************************************)
(* A subscription of the client library (subscription.go, and its life in  *)
(* relay.go): the main loop of the connection handles the messages of the  *)
(* relay one by one and starts a goroutine for every event; other          *)
(* goroutines dispatch EOSE when the stored events are out, give up on     *)
(* EOSE after a while, pass CLOSED on, and clean up when the context of    *)
(* the subscription ends.  The application reads the three channels.       *)
(***************************************************************************)
EXTENDS Naturals, FiniteSets

CONSTANTS
    SubEvents,   \* events the relay may send, once each
    NoEvent,     \* the main loop has no event in hand
    SubInWindow, \* those inside the filter's since and until
    HasTimer,    \* MaxWaitForEOSE is not math.MaxInt64
    MaxClosed    \* bound: CLOSED messages of the relay

ASSUME EventsAssumption == IsFiniteSet(SubEvents) /\ SubInWindow \subseteq SubEvents /\ NoEvent \notin SubEvents
ASSUME BoundAssumption == HasTimer \in BOOLEAN /\ MaxClosed \in Nat

VARIABLES
    fire,      \* Fire: prepared | live | fired | failed
    subConn,   \* the relay connection is up
    ctx,       \* the context of the subscription is not done
    live,      \* sub.live
    inMap,     \* sub is in relay.Subscriptions
    main,      \* the main loop: what it is doing with which event
    g,         \* event -> the goroutine that dispatches it
    subStored, \* events that were dispatched as stored
    storedwg,  \* the WaitGroup
    eosed,     \* sub.eosed
    strict,    \* sub.match is Filter.Matches
    timer,     \* the MaxWaitForEOSE goroutine: sleep | closed | swapped | over
    eoser,     \* EOSE goroutines waiting for the stored events
    eoseChan,  \* values in EndOfStoredEvents (capacity 1)
    eoseSent,  \* EOSEs dispatched so far
    closers,   \* CLOSED message -> the goroutine that handles it
    reasons,   \* values in ClosedReason (capacity 1)
    cleanup,   \* the cleanup goroutine: wait | write | delete | close | over
    events,    \* the Events channel is open
    closeSent  \* the CLOSE message was written

lifeVars == <<fire, subConn, ctx, live>>
endVars == <<inMap, cleanup, events, closeSent>>
dispatchVars == <<main, g, subStored, storedwg>>
eoseVars == <<eosed, strict, timer, eoser, eoseChan, eoseSent>>
closedVars == <<closers, reasons>>
subVars == <<lifeVars, endVars, dispatchVars, eoseVars, closedVars>>

ClosedIds == 1..MaxClosed
Idle == [pc |-> "idle", event |-> NoEvent]
TimedOut == timer \in {"closed", "swapped", "over"}    \* eoseTimedOut is closed
Running == {"load", "select"}                          \* dispatching goroutines

-----------------------------------------------------------------------------
(* Fire and cancellation *)

FireLive ==
    /\ fire = "prepared"
    /\ fire' = "live" /\ live' = TRUE
    /\ UNCHANGED <<subConn, ctx, endVars, dispatchVars, eoseVars, closedVars>>

\* The main loop takes the REQ from the write queue, between two messages.
FireWritten ==
    /\ fire = "live" /\ subConn /\ main = Idle
    /\ fire' = "fired"
    /\ UNCHANGED <<subConn, ctx, live, endVars, dispatchVars, eoseVars, closedVars>>

FireFailed ==
    /\ fire = "live" /\ ~subConn
    /\ fire' = "failed" /\ ctx' = FALSE
    /\ UNCHANGED <<subConn, live, endVars, dispatchVars, eoseVars, closedVars>>

\* Unsub, or the end of the context the application gave to Subscribe.
Unsub ==
    /\ ctx /\ ctx' = FALSE
    /\ UNCHANGED <<fire, subConn, live, endVars, dispatchVars, eoseVars, closedVars>>

ConnectionLost ==
    /\ subConn /\ subConn' = FALSE
    /\ UNCHANGED <<fire, ctx, live, endVars, dispatchVars, eoseVars, closedVars>>

\* "if the relay connection dies, cancel this subscription"
Watch ==
    /\ ~subConn /\ ctx /\ ctx' = FALSE
    /\ UNCHANGED <<fire, subConn, live, endVars, dispatchVars, eoseVars, closedVars>>

-----------------------------------------------------------------------------
(* The main loop *)

Readable == subConn /\ fire = "fired" /\ inMap /\ main = Idle

\* An EVENT that passes sub.match, whose timestamp test is on before EOSE.
HandleEvent(e) ==
    /\ Readable /\ g[e] = "none"
    /\ strict => e \in SubInWindow
    /\ main' = [pc |-> "matched", event |-> e]
    /\ UNCHANGED <<lifeVars, endVars, g, subStored, storedwg, eoseVars, closedVars>>

\* dispatchEvent looks at eosed...
LoadEosed ==
    /\ main.pc = "matched"
    /\ main' = [main EXCEPT !.pc = IF eosed THEN "live" ELSE "stored"]
    /\ UNCHANGED <<lifeVars, endVars, g, subStored, storedwg, eoseVars, closedVars>>

\* ...counts the event if it is a stored one, and starts its goroutine.
Spawn ==
    /\ main.pc \in {"stored", "live"}
    /\ g' = [g EXCEPT ![main.event] = "load"]
    /\ IF main.pc = "stored"
       THEN subStored' = subStored \cup {main.event} /\ storedwg' = storedwg + 1
       ELSE UNCHANGED <<subStored, storedwg>>
    /\ main' = Idle
    /\ UNCHANGED <<lifeVars, endVars, eoseVars, closedVars>>

\* dispatchEose, called by the main loop.
HandleEose ==
    /\ Readable /\ ~eosed
    /\ eosed' = TRUE /\ strict' = FALSE /\ eoser' = eoser + 1
    /\ UNCHANGED <<lifeVars, endVars, dispatchVars, timer, eoseChan, eoseSent, closedVars>>

\* handleClosed
HandleClosed(i) ==
    /\ Readable /\ closers[i] = "none"
    /\ closers' = [closers EXCEPT ![i] = "send"]
    /\ UNCHANGED <<lifeVars, endVars, dispatchVars, eoseVars, reasons>>

-----------------------------------------------------------------------------
(* The goroutines of dispatchEvent *)

Done(e) == storedwg' = IF e \in subStored THEN storedwg - 1 ELSE storedwg

LoadLive(e) ==
    /\ g[e] = "load"
    /\ IF live THEN g' = [g EXCEPT ![e] = "select"] /\ UNCHANGED storedwg
               ELSE g' = [g EXCEPT ![e] = "dropped"] /\ Done(e)
    /\ UNCHANGED <<lifeVars, endVars, main, subStored, eoseVars, closedVars>>

\* The application receives the event: the channel has no buffer.
Deliver(e) ==
    /\ g[e] = "select" /\ events
    /\ g' = [g EXCEPT ![e] = "sent"] /\ Done(e)
    /\ UNCHANGED <<lifeVars, endVars, main, subStored, eoseVars, closedVars>>

\* Mutant: a stored event is not given up when the wait for EOSE times out.
GiveUpNoTimeout(e) ==
    /\ g[e] = "select" /\ ~ctx
    /\ g' = [g EXCEPT ![e] = "dropped"] /\ Done(e)
    /\ UNCHANGED <<lifeVars, endVars, main, subStored, eoseVars, closedVars>>

\* The goroutine gives up: the context is done, or a stored event is late.
GiveUp(e) ==
    /\ g[e] = "select"
    /\ ~ctx \/ (e \in subStored /\ TimedOut)
    /\ g' = [g EXCEPT ![e] = "dropped"] /\ Done(e)
    /\ UNCHANGED <<lifeVars, endVars, main, subStored, eoseVars, closedVars>>

\* select finds the channel closed and picks that case: the program panics.
SendOnClosed(e) ==
    /\ g[e] = "select" /\ ~events
    /\ g' = [g EXCEPT ![e] = "panic"]
    /\ UNCHANGED <<lifeVars, endVars, main, subStored, storedwg, eoseVars, closedVars>>

-----------------------------------------------------------------------------
(* EOSE *)

TimerClose ==
    /\ timer = "sleep" /\ timer' = "closed"
    /\ UNCHANGED <<lifeVars, endVars, dispatchVars, eosed, strict, eoser, eoseChan, eoseSent, closedVars>>

\* dispatchEose, called by the timer: the swap, and if it succeeds the change
\* of sub.match and the goroutine.
TimerSwap ==
    /\ timer = "closed"
    /\ timer' = IF eosed THEN "over" ELSE "swapped"
    /\ eosed' = TRUE
    /\ UNCHANGED <<lifeVars, endVars, dispatchVars, strict, eoser, eoseChan, eoseSent, closedVars>>

TimerMatch ==
    /\ timer = "swapped"
    /\ timer' = "over" /\ strict' = FALSE /\ eoser' = eoser + 1
    /\ UNCHANGED <<lifeVars, endVars, dispatchVars, eosed, eoseChan, eoseSent, closedVars>>

\* Mutant: EOSE does not wait for the stored events.
PassEoseAtOnce ==
    /\ eoser > 0 /\ eoseChan < 1
    /\ eoser' = eoser - 1 /\ eoseChan' = eoseChan + 1 /\ eoseSent' = eoseSent + 1
    /\ UNCHANGED <<lifeVars, endVars, dispatchVars, eosed, strict, timer, closedVars>>

PassEose ==
    /\ eoser > 0 /\ storedwg = 0 /\ eoseChan < 1
    /\ eoser' = eoser - 1 /\ eoseChan' = eoseChan + 1 /\ eoseSent' = eoseSent + 1
    /\ UNCHANGED <<lifeVars, endVars, dispatchVars, eosed, strict, timer, closedVars>>

ReceiveEose ==
    /\ eoseChan > 0 /\ eoseChan' = eoseChan - 1
    /\ UNCHANGED <<lifeVars, endVars, dispatchVars, eosed, strict, timer, eoser, eoseSent, closedVars>>

-----------------------------------------------------------------------------
(* CLOSED *)

SendReason(i) ==
    /\ closers[i] = "send" /\ reasons < 1
    /\ reasons' = reasons + 1 /\ closers' = [closers EXCEPT ![i] = "unlive"]
    /\ UNCHANGED <<lifeVars, endVars, dispatchVars, eoseVars>>

ClosedUnlive(i) ==
    /\ closers[i] = "unlive"
    /\ live' = FALSE /\ closers' = [closers EXCEPT ![i] = "cancel"]
    /\ UNCHANGED <<fire, subConn, ctx, endVars, dispatchVars, eoseVars, reasons>>

ClosedCancel(i) ==
    /\ closers[i] = "cancel"
    /\ ctx' = FALSE /\ closers' = [closers EXCEPT ![i] = "over"]
    /\ UNCHANGED <<fire, subConn, live, endVars, dispatchVars, eoseVars, reasons>>

ReceiveReason ==
    /\ reasons > 0 /\ reasons' = reasons - 1
    /\ UNCHANGED <<lifeVars, endVars, dispatchVars, eoseVars, closers>>

-----------------------------------------------------------------------------
(* The cleanup goroutine *)

\* live is swapped to false; only the one that swapped it sends a CLOSE.
CleanupSwap ==
    /\ cleanup = "wait" /\ ~ctx
    /\ cleanup' = IF live THEN "write" ELSE "delete"
    /\ live' = FALSE
    /\ UNCHANGED <<fire, subConn, ctx, inMap, events, closeSent, dispatchVars, eoseVars, closedVars>>

\* The CLOSE goes through the main loop, or fails with the connection, which
\* is then closed (again).
CleanupWrite ==
    /\ cleanup = "write" /\ cleanup' = "delete"
    /\ \/ subConn /\ main = Idle /\ closeSent' = TRUE
       \/ ~subConn /\ UNCHANGED closeSent
    /\ UNCHANGED <<lifeVars, inMap, events, dispatchVars, eoseVars, closedVars>>

\* Mutant: the subscription stays in the map.
CleanupDeleteNot ==
    /\ cleanup = "delete" /\ cleanup' = "close"
    /\ UNCHANGED <<lifeVars, inMap, events, closeSent, dispatchVars, eoseVars, closedVars>>

CleanupDelete ==
    /\ cleanup = "delete" /\ cleanup' = "close" /\ inMap' = FALSE
    /\ UNCHANGED <<lifeVars, events, closeSent, dispatchVars, eoseVars, closedVars>>

CleanupClose ==
    /\ cleanup = "close" /\ cleanup' = "over" /\ events' = FALSE
    /\ UNCHANGED <<lifeVars, inMap, closeSent, dispatchVars, eoseVars, closedVars>>

-----------------------------------------------------------------------------

\* PrepareSubscription
SubscriptionInit ==
    /\ fire = "prepared" /\ subConn = TRUE /\ ctx = TRUE /\ live = FALSE /\ inMap = TRUE
    /\ main = Idle
    /\ g = [e \in SubEvents |-> "none"]
    /\ subStored = {} /\ storedwg = 0
    /\ eosed = FALSE /\ strict = TRUE
    /\ timer = IF HasTimer THEN "sleep" ELSE "off"
    /\ eoser = 0 /\ eoseChan = 0 /\ eoseSent = 0
    /\ closers = [i \in ClosedIds |-> "none"] /\ reasons = 0
    /\ cleanup = "wait" /\ events = TRUE /\ closeSent = FALSE

Goroutine(e) == LoadLive(e) \/ GiveUp(e) \/ SendOnClosed(e)
Timer == TimerClose \/ TimerSwap \/ TimerMatch
Closer(i) == SendReason(i) \/ ClosedUnlive(i) \/ ClosedCancel(i)
Cleanup == CleanupSwap \/ CleanupWrite \/ CleanupDelete \/ CleanupClose
Fire == FireLive \/ FireWritten \/ FireFailed
Main == LoadEosed \/ Spawn

SubscriptionNext ==
    \/ Fire \/ Main \/ Timer \/ Cleanup \/ Watch \/ PassEose
    \/ Unsub \/ ConnectionLost \/ HandleEose \/ ReceiveEose \/ ReceiveReason
    \/ \E e \in SubEvents : HandleEvent(e) \/ Goroutine(e) \/ Deliver(e)
    \/ \E i \in ClosedIds : HandleClosed(i) \/ Closer(i)

SubscriptionSafety == SubscriptionInit /\ [][SubscriptionNext]_subVars

\* The goroutines of the library run when they can, and time passes. Neither
\* the relay nor the application is obliged to do anything: no fairness for
\* messages, Unsub, the connection or the application's receives. The main
\* loop's select chooses at random, so a write that keeps waiting is served.
SubscriptionFairness ==
    /\ WF_subVars(Fire) /\ WF_subVars(Main) /\ WF_subVars(Timer) /\ WF_subVars(Watch) /\ WF_subVars(PassEose)
    /\ SF_subVars(Cleanup)
    /\ \A e \in SubEvents : WF_subVars(LoadLive(e) \/ GiveUp(e))
    /\ \A i \in ClosedIds : WF_subVars(Closer(i))

SubscriptionSpec == SubscriptionSafety /\ SubscriptionFairness

-----------------------------------------------------------------------------
(* Properties *)

LifeTypeOK ==
    /\ fire \in {"prepared", "live", "fired", "failed"}
    /\ subConn \in BOOLEAN /\ ctx \in BOOLEAN /\ live \in BOOLEAN

EndTypeOK ==
    /\ inMap \in BOOLEAN /\ events \in BOOLEAN /\ closeSent \in BOOLEAN
    /\ cleanup \in {"wait", "write", "delete", "close", "over"}

DispatchTypeOK ==
    /\ main \in [pc : {"idle", "matched", "stored", "live"}, event : SubEvents \cup {NoEvent}]
    /\ main.pc # "idle" => main.event \in SubEvents /\ g[main.event] = "none"
    /\ g \in [SubEvents -> {"none", "load", "select", "sent", "dropped", "panic"}]
    /\ subStored \subseteq SubEvents /\ storedwg \in Nat

EoseTypeOK ==
    /\ eosed \in BOOLEAN /\ strict \in BOOLEAN
    /\ timer \in {"off", "sleep", "closed", "swapped", "over"}
    /\ eoser \in Nat /\ eoseSent \in Nat /\ eoseChan \in 0..1

ClosedTypeOK ==
    /\ closers \in [ClosedIds -> {"none", "send", "unlive", "cancel", "over"}]
    /\ reasons \in 0..1

\* The channels stay within their capacity, the WaitGroup does not go below
\* zero, and everything has its type.
TypeOK == LifeTypeOK /\ EndTypeOK /\ DispatchTypeOK /\ EoseTypeOK /\ ClosedTypeOK

\* EndOfStoredEvents says what it means: when it has received its value, every
\* event that came before the relay's EOSE has been received by the
\* application, unless the subscription ended or the wait for EOSE timed out.
EoseAfterStored ==
    eoseSent > 0 /\ ctx /\ live /\ ~TimedOut => \A e \in subStored : g[e] = "sent"

\* The WaitGroup counts the goroutines of stored events that are not done, so
\* it is never negative (a panic in Go) and reaches zero when they are.
WaitGroupExact ==
    storedwg = Cardinality({e \in subStored : g[e] \in Running \cup {"panic"}})

\* EOSE is dispatched once, by the relay's message or by the timer: the
\* channel has room for one value, and a second one would wait forever.
EoseOnce == eoseSent + eoser <= 1

\* Events dispatched as stored satisfy since and until: the switch to the
\* filter without timestamps is not seen before eosed is.
StoredInWindow == subStored \subseteq SubInWindow

\* When the context ends (Unsub, the application's context, CLOSED, a lost
\* connection) the subscription leaves the map and the Events channel is
\* closed, whatever the application does.
EndsClean == ~ctx ~> (~inMap /\ ~events)

\* No goroutine is left behind by a subscription that ended.
NoGoroutineLeft == ~ctx ~> \A e \in SubEvents : g[e] \notin Running

\* The end of a subscription (PrepareSubscription's goroutines): out of the map,
\* Events closed, and every goroutine of dispatchEvent gone.
LeavesNothing == EndsClean /\ NoGoroutineLeft

\* With a timer, the EndOfStoredEvents channel gets its value in the end even
\* if the relay never sends EOSE or the application does not read the events.
EoseComes == HasTimer => <>(eoseSent = 1 \/ \E e \in SubEvents : g[e] = "panic")

(* What a comment of the code says, and the code does not do *)

\* PrepareSubscription: "do this so we don't have the possibility of closing
\* the Events channel and then trying to send to it".
NoSendOnClosed == \A e \in SubEvents : g[e] # "panic"
=============================================================================
