------------------------------- MODULE Publish -------------------------------
(***************************************************************************)
(* Publishing from the client library (relay.go: publish, WriteWithError   *)
(* and the OK case of handleMessage).  A call registers a callback for the *)
(* id of its event, writes the message and waits for the callback, for its *)
(* own timeout or for the end of the connection.  Callbacks of calls that  *)
(* publish the same event are chained: a callback puts the one that was    *)
(* there before it back when it is called.                                 *)
(***************************************************************************)
EXTENDS Naturals, FiniteSets

CONSTANTS
    Calls,     \* calls of publish (Publish and Auth both end there)
    Ids,       \* event ids
    IdOf,      \* call -> the id of its event
    None,      \* no callback
    MaxExtra   \* bound: OK messages of the relay that answer no EVENT

ASSUME CallAssumption == IsFiniteSet(Calls) /\ None \notin Calls /\ IdOf \in [Calls -> Ids]
ASSUME ExtraAssumption == MaxExtra \in Nat

VARIABLES
    conn,         \* the connection's context is not done
    pc,           \* call -> idle | write | wait | expire | returned
    expired,      \* call -> its context is done
    okCallbacks,  \* id -> the call whose callback is registered, or None
    previous,     \* call -> the callback its own one puts back, or None
    gotOk,        \* call -> what its callback was called with: none | ok | refused | timeout
    mutex,        \* holder of okCallbacksMutex: free | main | call
    main,         \* the main loop: idle, calling a callback, or gone
    called,       \* call -> the callback it loaded when its context expired
    sent,         \* call -> its message was written
    oks,          \* id -> OK messages handled
    accepted,     \* history: ids the relay has sent an OK true for
    extra,        \* history: OK messages that answered no EVENT
    result        \* call -> none | ok | refused | timeout | expired | lost

callVars == <<pc, expired, previous, called, sent, result>>
vars == <<conn, okCallbacks, gotOk, mutex, main, oks, accepted, extra, callVars>>

Free == [holder |-> "free", call |-> None]
MainHolds == [holder |-> "main", call |-> None]
HeldBy(p) == [holder |-> "call", call |-> p]
MainIdle == [pc |-> "idle", cb |-> None, ok |-> "none"]

-----------------------------------------------------------------------------
(* publish *)

\* Mutant: the second call for an id does not keep the first one's callback.
RegisterOverwriting(p) ==
    /\ pc[p] = "idle" /\ mutex = Free
    /\ okCallbacks' = [okCallbacks EXCEPT ![IdOf[p]] = p]
    /\ pc' = [pc EXCEPT ![p] = "write"]
    /\ UNCHANGED <<conn, expired, previous, gotOk, mutex, main, called, sent, oks, accepted, extra, result>>

\* The callback is registered, on top of the one that is there.
Register(p) ==
    /\ pc[p] = "idle" /\ mutex = Free
    /\ previous' = [previous EXCEPT ![p] = okCallbacks[IdOf[p]]]
    /\ okCallbacks' = [okCallbacks EXCEPT ![IdOf[p]] = p]
    /\ pc' = [pc EXCEPT ![p] = "write"]
    /\ UNCHANGED <<conn, expired, gotOk, mutex, main, called, sent, oks, accepted, extra, result>>

Return(p, r) == pc' = [pc EXCEPT ![p] = "returned"] /\ result' = [result EXCEPT ![p] = r]

\* WriteWithError: the main loop writes the message and closes the answer
\* channel.
Write(p) ==
    /\ pc[p] = "write" /\ conn /\ main.pc = "idle"
    /\ pc' = [pc EXCEPT ![p] = "wait"] /\ sent' = [sent EXCEPT ![p] = TRUE]
    /\ UNCHANGED <<conn, expired, okCallbacks, previous, gotOk, mutex, main, called, oks, accepted, extra, result>>

\* WriteWithError fails with the connection; the callback stays registered.
WriteFails(p) ==
    /\ pc[p] = "write" /\ ~conn
    /\ Return(p, "lost")
    /\ UNCHANGED <<conn, expired, okCallbacks, previous, gotOk, mutex, main, called, sent, oks, accepted, extra>>

\* The three cases of the select: the callback was called...
GotOk(p) ==
    /\ pc[p] = "wait" /\ gotOk[p] # "none"
    /\ Return(p, gotOk[p])
    /\ UNCHANGED <<conn, expired, okCallbacks, previous, gotOk, mutex, main, called, sent, oks, accepted, extra>>

\* ...the context is done: the callback that is on top, whose ever it is, is
\* loaded and called with "timeout"...
Expired(p) ==
    /\ pc[p] = "wait" /\ expired[p] /\ mutex = Free
    /\ LET cb == okCallbacks[IdOf[p]]
       IN  IF cb = None THEN Return(p, "expired") /\ UNCHANGED <<mutex, called>>
           ELSE /\ mutex' = HeldBy(p) /\ called' = [called EXCEPT ![p] = cb]
                /\ pc' = [pc EXCEPT ![p] = "expire"] /\ UNCHANGED result
    /\ UNCHANGED <<conn, expired, okCallbacks, previous, gotOk, main, sent, oks, accepted, extra>>

\* ...or the connection is gone: the map is replaced, without the mutex.
ConnectionGone(p) ==
    /\ pc[p] = "wait" /\ ~conn
    /\ okCallbacks' = [id \in Ids |-> None]
    /\ Return(p, "lost")
    /\ UNCHANGED <<conn, expired, previous, gotOk, mutex, main, called, sent, oks, accepted, extra>>

-----------------------------------------------------------------------------
(* Callbacks *)

\* Mutant: the callback does not remove itself.
CallStaying(cb, ok) ==
    /\ gotOk[cb] = "none"
    /\ gotOk' = [gotOk EXCEPT ![cb] = ok]
    /\ UNCHANGED okCallbacks

\* The callback of cb sends to gotOk, which has room for one value, and then
\* restores what was there before (delete if there was nothing).
Call(cb, ok) ==
    /\ gotOk[cb] = "none"
    /\ gotOk' = [gotOk EXCEPT ![cb] = ok]
    /\ okCallbacks' = [okCallbacks EXCEPT ![IdOf[cb]] = previous[cb]]

ExpiredCall(p) ==
    /\ pc[p] = "expire"
    /\ Call(called[p], "timeout")
    /\ mutex' = Free
    /\ Return(p, "expired")
    /\ UNCHANGED <<conn, expired, previous, main, called, sent, oks, accepted, extra>>

\* The relay answers every EVENT it was sent with an OK, and may repeat itself.
Sent(id) == Cardinality({p \in Calls : IdOf[p] = id /\ sent[p]})

\* handleMessage takes an OK of the relay and looks its callback up.
HandleOk(id, ok) ==
    /\ main.pc = "idle" /\ mutex = Free
    /\ \/ oks[id] < Sent(id) /\ UNCHANGED extra
       \/ oks[id] >= Sent(id) /\ extra < MaxExtra /\ extra' = extra + 1
    /\ oks' = [oks EXCEPT ![id] = @ + 1]
    /\ accepted' = IF ok = "ok" THEN accepted \cup {id} ELSE accepted
    /\ IF okCallbacks[id] = None THEN UNCHANGED <<main, mutex>>
       ELSE main' = [pc |-> "call", cb |-> okCallbacks[id], ok |-> ok] /\ mutex' = MainHolds
    /\ UNCHANGED <<conn, okCallbacks, gotOk, callVars>>

HandleOkCall ==
    /\ main.pc = "call"
    /\ Call(main.cb, main.ok)
    /\ main' = MainIdle /\ mutex' = Free
    /\ UNCHANGED <<conn, oks, accepted, extra, callVars>>

-----------------------------------------------------------------------------
(* Environment *)

\* Mutant: publish gives its context no deadline.
ExpireNever(p) == FALSE /\ UNCHANGED vars

Expire(p) ==
    /\ pc[p] # "idle" /\ ~expired[p]
    /\ expired' = [expired EXCEPT ![p] = TRUE]
    /\ UNCHANGED <<conn, pc, okCallbacks, previous, gotOk, mutex, main, called, sent, oks, accepted, extra, result>>

ConnectionLost ==
    /\ conn /\ conn' = FALSE
    /\ UNCHANGED <<okCallbacks, gotOk, mutex, main, oks, accepted, extra, callVars>>

\* The main loop sees the end of the connection between two messages.
MainExit ==
    /\ ~conn /\ main.pc = "idle"
    /\ main' = [MainIdle EXCEPT !.pc = "gone"]
    /\ UNCHANGED <<conn, okCallbacks, gotOk, mutex, oks, accepted, extra, callVars>>

Init ==
    /\ conn = TRUE
    /\ pc = [p \in Calls |-> "idle"]
    /\ expired = [p \in Calls |-> FALSE]
    /\ okCallbacks = [id \in Ids |-> None]
    /\ previous = [p \in Calls |-> None]
    /\ gotOk = [p \in Calls |-> "none"]
    /\ mutex = Free
    /\ main = MainIdle
    /\ called = [p \in Calls |-> None]
    /\ sent = [p \in Calls |-> FALSE]
    /\ oks = [id \in Ids |-> 0] /\ accepted = {} /\ extra = 0
    /\ result = [p \in Calls |-> "none"]

GoesOn(p) ==
    \/ Write(p) \/ WriteFails(p) \/ GotOk(p) \/ Expired(p) \/ ConnectionGone(p) \/ ExpiredCall(p)

Next ==
    \/ \E p \in Calls : Register(p) \/ GoesOn(p) \/ Expire(p)
    \/ \E id \in Ids, ok \in {"ok", "refused"} : HandleOk(id, ok)
    \/ HandleOkCall \/ ConnectionLost \/ MainExit

SafetySpec == Init /\ [][Next]_vars

\* publish gives its context a deadline when it has none, so time ends every
\* call. The main loop's select and the mutex serve who keeps asking. The
\* relay owes nothing.
PublishFairness ==
    /\ WF_vars(HandleOkCall) /\ WF_vars(MainExit)
    /\ \A p \in Calls : WF_vars(Expire(p)) /\ SF_vars(GoesOn(p))

Spec == SafetySpec /\ PublishFairness

-----------------------------------------------------------------------------
(* Properties *)

Answers == {"none", "ok", "refused", "timeout"}

\* Everything holds values of its type, and the mutex is held by the main loop
\* exactly while it calls a callback.
TypeOK ==
    /\ conn \in BOOLEAN
    /\ pc \in [Calls -> {"idle", "write", "wait", "expire", "returned"}]
    /\ expired \in [Calls -> BOOLEAN] /\ sent \in [Calls -> BOOLEAN]
    /\ okCallbacks \in [Ids -> Calls \cup {None}]
    /\ previous \in [Calls -> Calls \cup {None}]
    /\ called \in [Calls -> Calls \cup {None}]
    /\ gotOk \in [Calls -> Answers]
    /\ mutex \in {Free, MainHolds} \cup {HeldBy(p) : p \in Calls}
    /\ main \in [pc : {"idle", "call", "gone"}, cb : Calls \cup {None}, ok : Answers]
    /\ oks \in [Ids -> Nat] /\ accepted \subseteq Ids /\ extra \in Nat
    /\ result \in [Calls -> Answers \cup {"expired", "lost"}]
    /\ main.pc = "call" <=> mutex = MainHolds

\* A callback is called once: gotOk has room for one value and the callback
\* runs with okCallbacksMutex held, so a second value would stop the main loop
\* of the connection for good. Neither chains, timeouts, repeated OKs nor the
\* map that is replaced without the mutex bring a called callback back.
CallbackNeverBlocks ==
    /\ main.pc = "call" => gotOk[main.cb] = "none"
    /\ \A p \in Calls : pc[p] = "expire" => gotOk[called[p]] = "none"

\* Publish returns nil only after its own message was written and the relay
\* accepted the event.
NilMeansAccepted ==
    \A p \in Calls : result[p] = "ok" => sent[p] /\ IdOf[p] \in accepted

\* No OK is lost on the way: as long as the connection is up, no call has
\* expired and the relay has not repeated itself, every OK the relay sent for an id has answered one of the calls
\* that published it.
EveryOkAnswers ==
    extra = 0 /\ conn /\ main.pc = "idle" /\ (\A p \in Calls : ~expired[p]) =>
        \A id \in Ids :
            Cardinality({p \in Calls : IdOf[p] = id /\ gotOk[p] # "none"}) = oks[id]

\* Every call returns, whatever the relay does, also when several calls, the
\* main loop and the end of the connection meet at the map of callbacks.
PublishReturns == \A p \in Calls : pc[p] # "idle" ~> pc[p] = "returned"
=============================================================================
