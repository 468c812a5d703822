-------------------------- MODULE RelayConnection --------------------------
(***************************************************************************)
(* A connection of the client library (relay.go): NewRelay and the         *)
(* goroutine that closes the socket, Connect, the main loop with pings and *)
(* writes, the read loop, WriteWithError, Close, and COUNT, the request    *)
(* whose answer the main loop hands over itself.  EVENT, EOSE and CLOSED   *)
(* of other requests are module Subscription, OK is Publish, AUTH is       *)
(* ClientAuth: their messages are left out here.                           *)
(***************************************************************************)
EXTENDS Naturals, Sequences

CONSTANTS
    AppWriters,   \* callers of WriteWithError
    QueueMax,     \* capacity of readQueue and writeQueue (64 in the code)
    PingMax,      \* failed pings that close the connection (3 in the code)
    MaxAnswers    \* bound: answers the relay sends to one COUNT

ASSUME ConnectionBounds == {QueueMax, PingMax} \subseteq Nat \ {0} /\ MaxAnswers \in Nat

VARIABLES
    rcCtx,      \* connectionContext is not done
    rcDial,     \* Connect: idle | dialing | assigned | failed | up, or late: up after a Close
    rcConn,     \* r.conn is set
    rcSocket,   \* the websocket: none | open | broken | closed
    rcFlag,     \* the value of the current r.closed
    rcCloser,   \* the goroutine of NewRelay: waits | closes | ended
    rcMain,     \* the main loop: none | loop | count1, count2 (a COUNT answer in hand) | ended
    rcReader,   \* the read loop: none | reading | message | ended
    rcGot,      \* what the read loop holds
    rcReads,    \* readQueue
    rcWrites,   \* writeQueue
    rcPings,    \* pingAttempt
    rcWriter,   \* caller of WriteWithError -> idle | queue | wait | ok | error
    rcCount,    \* countInternal: idle | fire | wait | auth | ended, for which subscription
    rcSubs,     \* 1..2 -> the subscription of the COUNT, and of its second try
    rcSent,     \* answers of the relay so far
    rcPanic     \* send on a closed channel

rcVars == <<rcCtx, rcDial, rcConn, rcSocket, rcFlag, rcCloser, rcMain, rcReader, rcGot, rcReads,
            rcWrites, rcPings, rcWriter, rcCount, rcSubs, rcSent, rcPanic>>
rcLink == <<rcDial, rcConn, rcSocket, rcFlag, rcCloser>>
rcLoops == <<rcMain, rcReader, rcGot, rcReads, rcPings, rcSent>>
rcCalls == <<rcWriter, rcWrites, rcCount, rcSubs>>

CountSubs == 1..2
\* mapped: in r.Subscriptions; live, cancelled: its flag and context; result:
\* countResult; reason: ClosedReason; cleanup: the goroutine of PrepareSubscription.
NewSub == [mapped |-> TRUE, live |-> TRUE, cancelled |-> FALSE, result |-> "empty",
           reason |-> "none", cleanup |-> "waits"]
UnusedSub == [NewSub EXCEPT !.mapped = FALSE, !.live = FALSE, !.cleanup = "ended"]
RcWriters == {<<"app", w>> : w \in AppWriters} \cup ({"fire", "close"} \X CountSubs)

SetWriter(w, l) == rcWriter' = [rcWriter EXCEPT ![w] = l]
SubIs(k, s) == rcSubs' = [rcSubs EXCEPT ![k] = s]

\* r.close: the context is done, with the first cause it was given.
CloseRelay == rcCtx' = FALSE

IsConnected == ~rcFlag /\ rcConn /\ rcCtx

-----------------------------------------------------------------------------
(* NewRelay, Connect, Close *)

\* The dial runs under the context of Connect, not under the connection's.
DialStarts ==
    /\ rcDial = "idle" /\ rcCtx
    /\ rcDial' = "dialing"
    /\ UNCHANGED <<rcCtx, rcConn, rcSocket, rcFlag, rcCloser, rcLoops, rcCalls, rcPanic>>

\* r.conn and r.writeQueue are assigned, or Connect fails.
DialEnds ==
    /\ rcDial = "dialing"
    /\ \/ rcDial' = "failed" /\ UNCHANGED <<rcConn, rcSocket>>
       \/ rcDial' = "assigned" /\ rcConn' = TRUE /\ rcSocket' = "open"
    /\ UNCHANGED <<rcCtx, rcFlag, rcCloser, rcLoops, rcCalls, rcPanic>>

\* r.closed is replaced by a fresh flag; the loops start.
LoopsStart ==
    /\ rcDial = "assigned"
    /\ rcDial' = (IF rcCtx THEN "up" ELSE "late") /\ rcFlag' = FALSE /\ rcMain' = "loop" /\ rcReader' = "reading"
    /\ UNCHANGED <<rcCtx, rcConn, rcSocket, rcCloser, rcGot, rcReads, rcPings, rcSent, rcCalls, rcPanic>>

\* r.closed.Swap(true) once the context is done...
CloserSwaps ==
    /\ rcCloser = "waits" /\ ~rcCtx
    /\ rcFlag' = TRUE
    /\ rcCloser' = IF rcFlag THEN "ended" ELSE "closes"
    /\ UNCHANGED <<rcCtx, rcDial, rcConn, rcSocket, rcLoops, rcCalls, rcPanic>>

\* ...and r.conn.Close, if there is one.
CloserCloses ==
    /\ rcCloser = "closes"
    /\ rcCloser' = "ended"
    /\ rcSocket' = IF rcConn THEN "closed" ELSE rcSocket
    /\ UNCHANGED <<rcCtx, rcDial, rcConn, rcFlag, rcLoops, rcCalls, rcPanic>>

\* Close(), or the end of the context given to NewRelay.
CloseCalled == rcCtx /\ CloseRelay /\ UNCHANGED <<rcLink, rcLoops, rcCalls, rcPanic>>

SocketBreaks ==
    /\ rcSocket = "open"
    /\ rcSocket' = "broken"
    /\ UNCHANGED <<rcCtx, rcDial, rcConn, rcFlag, rcCloser, rcLoops, rcCalls, rcPanic>>

-----------------------------------------------------------------------------
(* The read loop *)

\* Messages the relay may send: answers to a COUNT it has been sent.
FromRelay ==
    {"count", "closed", "auth"} \X
        {k \in CountSubs : rcWriter[<<"fire", k>>] = "ok" /\ rcSent[k] < MaxAnswers}

ReaderGets(m) ==
    /\ rcReader = "reading" /\ rcSocket = "open" /\ rcCtx /\ m \in FromRelay
    /\ rcReader' = "message" /\ rcGot' = m
    /\ rcSent' = [rcSent EXCEPT ![m[2]] = @ + 1]
    /\ UNCHANGED <<rcCtx, rcLink, rcMain, rcReads, rcPings, rcCalls, rcPanic>>

ReaderPushes ==
    /\ rcReader = "message"
    /\ \/ /\ Len(rcReads) < QueueMax
          /\ rcReads' = Append(rcReads, rcGot) /\ rcReader' = "reading"
       \/ ~rcCtx /\ rcReader' = "ended" /\ UNCHANGED rcReads
    /\ rcGot' = <<"none", 0>>
    /\ UNCHANGED <<rcCtx, rcLink, rcMain, rcPings, rcSent, rcCalls, rcPanic>>

\* c.Reader or the copy fails: the socket is gone, or the context is done (the
\* library then closes the socket, if it got as far as reading from it).
ReaderFails ==
    /\ rcReader = "reading" /\ (rcSocket # "open" \/ ~rcCtx)
    /\ \/ rcSocket' = "closed"
       \/ ~rcCtx /\ UNCHANGED rcSocket
    /\ CloseRelay /\ rcReader' = "ended"
    /\ UNCHANGED <<rcDial, rcConn, rcFlag, rcCloser, rcMain, rcGot, rcReads, rcPings, rcSent, rcCalls, rcPanic>>

-----------------------------------------------------------------------------
(* The main loop *)

MainLeaves ==
    /\ rcMain = "loop" /\ ~rcCtx
    /\ rcMain' = "ended"
    /\ UNCHANGED <<rcCtx, rcLink, rcReader, rcGot, rcReads, rcPings, rcSent, rcCalls, rcPanic>>

\* A ping every 19 seconds; a number of failures in a row closes the connection.
MainPings ==
    /\ rcMain = "loop"
    /\ \/ rcSocket = "open" /\ rcPings' = 0 /\ UNCHANGED rcCtx
       \/ /\ rcPings' = IF rcPings < PingMax THEN rcPings + 1 ELSE PingMax
          /\ rcCtx' = (rcCtx /\ rcPings' < PingMax)
    /\ UNCHANGED <<rcLink, rcMain, rcReader, rcGot, rcReads, rcSent, rcCalls, rcPanic>>

\* A write is sent and answered, or fails and ends the loop.
MainWrites ==
    /\ rcMain = "loop" /\ rcWrites # <<>>
    /\ LET w == Head(rcWrites)
           answer(l) == IF rcWriter[w] = "wait" THEN SetWriter(w, l) ELSE UNCHANGED rcWriter IN
       \/ rcSocket = "open" /\ rcCtx /\ answer("ok") /\ UNCHANGED <<rcCtx, rcMain>>
       \/ CloseRelay /\ answer("error") /\ rcMain' = "ended"
    /\ rcWrites' = Tail(rcWrites)
    /\ UNCHANGED <<rcLink, rcReader, rcGot, rcReads, rcPings, rcSent, rcCount, rcSubs, rcPanic>>

\* handleMessage: the subscription of a COUNT answer is looked up; a CLOSED
\* goes to ClosedReason and cancels (handleClosed).
MainHandles ==
    /\ rcMain = "loop" /\ rcReads # <<>>
    /\ LET m == Head(rcReads) k == m[2] IN
       /\ rcMain' = IF m[1] = "count" /\ rcSubs[k].mapped THEN (IF k = 1 THEN "count1" ELSE "count2")
                    ELSE "loop"
       /\ IF m[1] \in {"closed", "auth"} /\ rcSubs[k].mapped
          THEN SubIs(k, [rcSubs[k] EXCEPT !.reason = m[1], !.live = FALSE, !.cancelled = TRUE])
          ELSE UNCHANGED rcSubs
    /\ rcReads' = Tail(rcReads)
    /\ UNCHANGED <<rcCtx, rcLink, rcReader, rcGot, rcPings, rcSent, rcWriter, rcWrites, rcCount, rcPanic>>

\* subscription.countResult <- *env: the channel holds one, and may be closed
\* by now.
MainAnswers(k) ==
    /\ rcMain = (IF k = 1 THEN "count1" ELSE "count2")
    /\ \/ rcSubs[k].result = "empty" /\ SubIs(k, [rcSubs[k] EXCEPT !.result = "full"])
          /\ rcMain' = "loop" /\ UNCHANGED rcPanic
       \/ rcSubs[k].result = "closed" /\ rcPanic' = TRUE /\ UNCHANGED <<rcSubs, rcMain>>
    /\ UNCHANGED <<rcCtx, rcLink, rcReader, rcGot, rcReads, rcPings, rcSent, rcWriter, rcWrites, rcCount>>

-----------------------------------------------------------------------------
(* WriteWithError *)

\* With no queue yet it returns nil at once.
WriteStarts(w) ==
    /\ rcWriter[w] = "idle"
    /\ SetWriter(w, IF rcConn THEN "queue" ELSE "ok")
    /\ UNCHANGED <<rcCtx, rcLink, rcLoops, rcWrites, rcCount, rcSubs, rcPanic>>

WriteQueues(w) ==
    /\ rcWriter[w] = "queue"
    /\ \/ ~rcCtx /\ SetWriter(w, "error") /\ UNCHANGED rcWrites
       \/ Len(rcWrites) < QueueMax /\ SetWriter(w, "wait") /\ rcWrites' = Append(rcWrites, w)
    /\ UNCHANGED <<rcCtx, rcLink, rcLoops, rcCount, rcSubs, rcPanic>>

\* Mutant: the caller waits for the main loop.
WriteWaits(w) ==
    /\ rcWriter[w] = "wait" /\ ~rcCtx /\ rcMain # "ended"
    /\ SetWriter(w, "error")
    /\ UNCHANGED <<rcCtx, rcLink, rcLoops, rcWrites, rcCount, rcSubs, rcPanic>>

WriteGivesUp(w) ==
    /\ rcWriter[w] = "wait" /\ ~rcCtx
    /\ SetWriter(w, "error")
    /\ UNCHANGED <<rcCtx, rcLink, rcLoops, rcWrites, rcCount, rcSubs, rcPanic>>

-----------------------------------------------------------------------------
(* COUNT *)

\* IsConnected, PrepareSubscription and the start of Fire.
CountStarts ==
    /\ rcCount = <<"idle", 1>>
    /\ IF IsConnected
       THEN rcCount' = <<"fire", 1>> /\ SubIs(1, NewSub) /\ SetWriter(<<"fire", 1>>, "queue")
       ELSE rcCount' = <<"ended", 1>> /\ UNCHANGED <<rcSubs, rcWriter>>
    /\ UNCHANGED <<rcCtx, rcLink, rcLoops, rcWrites, rcPanic>>

\* Fire returns: an error cancels the subscription.
CountFired(k) ==
    /\ rcCount = <<"fire", k>> /\ rcWriter[<<"fire", k>>] \in {"ok", "error"}
    /\ IF rcWriter[<<"fire", k>>] = "ok"
       THEN rcCount' = <<"wait", k>> /\ UNCHANGED rcSubs
       ELSE rcCount' = <<"ended", k>> /\ SubIs(k, [rcSubs[k] EXCEPT !.cancelled = TRUE])
    /\ UNCHANGED <<rcCtx, rcLink, rcLoops, rcWriter, rcWrites, rcPanic>>

\* The select: a result or a closed channel, a reason, either context (the
\* timer of 7 seconds). Every way out cancels the subscription.
CountSelects(k) ==
    LET s == rcSubs[k]
        gone == [s EXCEPT !.cancelled = TRUE] IN
    /\ rcCount = <<"wait", k>>
    /\ \/ s.result = "full" /\ SubIs(k, [gone EXCEPT !.result = "empty"]) /\ rcCount' = <<"ended", k>>
       \/ s.result = "closed" /\ SubIs(k, gone) /\ rcCount' = <<"ended", k>>
       \/ /\ s.reason # "none" /\ SubIs(k, [gone EXCEPT !.reason = "none"])
          /\ rcCount' = <<IF s.reason = "auth" /\ k = 1 THEN "auth" ELSE "ended", k>>
       \/ SubIs(k, gone) /\ rcCount' = <<"ended", k>>
    /\ UNCHANGED <<rcCtx, rcLink, rcLoops, rcWriter, rcWrites, rcPanic>>

\* r.Auth: after a success the COUNT is sent again, once.
CountAuths ==
    /\ rcCount[1] = "auth"
    /\ \/ rcCount' = <<"ended", 1>> /\ UNCHANGED <<rcSubs, rcWriter>>
       \/ rcCount' = <<"fire", 2>> /\ SubIs(2, NewSub) /\ SetWriter(<<"fire", 2>>, "queue")
    /\ UNCHANGED <<rcCtx, rcLink, rcLoops, rcWrites, rcPanic>>

\* The watcher of PrepareSubscription: the connection died.
SubWatches(k) ==
    /\ rcSubs[k].cleanup # "ended" /\ ~rcSubs[k].cancelled /\ ~rcCtx
    /\ SubIs(k, [rcSubs[k] EXCEPT !.cancelled = TRUE])
    /\ UNCHANGED <<rcCtx, rcLink, rcLoops, rcWriter, rcWrites, rcCount, rcPanic>>

\* The cleanup: a CLOSE if the subscription is live...
SubCleans(k) ==
    LET s == rcSubs[k] IN
    /\ s.cleanup = "waits" /\ s.cancelled
    /\ SubIs(k, [s EXCEPT !.live = FALSE, !.cleanup = IF s.live THEN "closing" ELSE "closed"])
    /\ IF s.live THEN SetWriter(<<"close", k>>, "queue") ELSE UNCHANGED rcWriter
    /\ UNCHANGED <<rcCtx, rcLink, rcLoops, rcWrites, rcCount, rcPanic>>

\* ...whose failure closes the connection...
SubWroteClose(k) ==
    /\ rcSubs[k].cleanup = "closing" /\ rcWriter[<<"close", k>>] \in {"ok", "error"}
    /\ rcCtx' = (rcCtx /\ rcWriter[<<"close", k>>] = "ok")
    /\ SubIs(k, [rcSubs[k] EXCEPT !.cleanup = "closed"])
    /\ UNCHANGED <<rcLink, rcLoops, rcWriter, rcWrites, rcCount, rcPanic>>

\* ...then it leaves the map, and countResult is closed.
SubForgotten(k) ==
    /\ rcSubs[k].cleanup = "closed"
    /\ IF rcSubs[k].mapped THEN SubIs(k, [rcSubs[k] EXCEPT !.mapped = FALSE])
       ELSE SubIs(k, [rcSubs[k] EXCEPT !.cleanup = "ended", !.result = "closed"])
    /\ UNCHANGED <<rcCtx, rcLink, rcLoops, rcWriter, rcWrites, rcCount, rcPanic>>

-----------------------------------------------------------------------------

ConnectionInit ==
    /\ rcCtx = TRUE /\ rcDial = "idle" /\ rcConn = FALSE /\ rcSocket = "none" /\ rcFlag = FALSE
    /\ rcCloser = "waits"
    /\ rcMain = "none" /\ rcReader = "none" /\ rcGot = <<"none", 0>> /\ rcReads = <<>> /\ rcWrites = <<>>
    /\ rcPings = 0 /\ rcWriter = [w \in RcWriters |-> "idle"]
    /\ rcCount = <<"idle", 1>> /\ rcSubs = [k \in CountSubs |-> UnusedSub]
    /\ rcSent = [k \in CountSubs |-> 0] /\ rcPanic = FALSE

LinkStep == DialEnds \/ LoopsStart \/ CloserSwaps \/ CloserCloses
ReaderStep == ReaderPushes \/ ReaderFails
MainStep == MainLeaves \/ MainPings \/ MainWrites \/ MainHandles \/ \E k \in CountSubs : MainAnswers(k)
WriterStep(w) == WriteQueues(w) \/ WriteGivesUp(w)
CountStep(k) == CountFired(k) \/ CountSelects(k) \/ SubWatches(k) \/ SubCleans(k) \/ SubWroteClose(k) \/ SubForgotten(k)

ConnectionNext ==
    /\ ~rcPanic
    /\ \/ DialStarts \/ LinkStep \/ CloseCalled \/ SocketBreaks
       \/ (\E m \in FromRelay : ReaderGets(m)) \/ ReaderStep \/ MainStep
       \/ \E w \in RcWriters : WriterStep(w)
       \/ \E a \in AppWriters : WriteStarts(<<"app", a>>)
       \/ CountStarts \/ CountAuths \/ \E k \in CountSubs : CountStep(k)

-----------------------------------------------------------------------------
(* Properties *)

\* Steps the library takes by itself: goroutines run; a dial, a write and an
\* Auth end within their timeouts; the timer of a COUNT fires. All of them use
\* something up, so they come to an end.
LibraryStep ==
    \/ LinkStep \/ ReaderStep \/ MainLeaves \/ MainWrites \/ MainHandles \/ CountAuths
    \/ \E k \in CountSubs : MainAnswers(k) \/ CountStep(k)
    \/ \E w \in RcWriters : WriterStep(w)

\* A relay answers a COUNT once. The code relies on it: a second answer finds
\* the channel full or closed, and stops the main loop or the program.
AnswersOnce == \A k \in CountSubs : rcSent[k] <= 1

\* When the library has nothing left to do, nobody waits for anybody: every
\* WriteWithError and every COUNT has returned, whether the relay answered, was
\* silent or broke the connection at any step; the main loop is not stuck with
\* an answer that nobody reads; and if the connection's context is done, both
\* loops have ended and the socket is closed (a Close that overtakes the dial
\* may leave the socket to the library).
NobodyStuck ==
    ~rcPanic /\ AnswersOnce /\ ~ENABLED LibraryStep =>
        /\ \A w \in RcWriters : rcWriter[w] \in {"idle", "ok", "error"}
        /\ rcCount[1] \in {"idle", "ended"} /\ rcMain \notin {"count1", "count2"}
        /\ ~rcCtx /\ rcDial \in {"up", "late"} =>
              rcMain = "ended" /\ rcReader = "ended" /\ (rcDial = "up" => rcSocket = "closed")
=============================================================================
