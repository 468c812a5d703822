----------------------------- MODULE ClientAuth -----------------------------
(***************************************************************************)
(* NIP-42 authentication in the client library (relay.go: Auth and the     *)
(* AUTH case of handleMessage).  Auth is called by the application, by the *)
(* handler the main loop starts for a challenge, and by whoever got an     *)
(* auth-required answer.  A sync.Once keeps the calls from sending the     *)
(* AUTH twice; the main loop puts a fresh one in its place when the relay  *)
(* sends another challenge.  What publish does with the AUTH message is    *)
(* module Publish; here it ends with an OK of the relay or without.        *)
(***************************************************************************)
EXTENDS Naturals

CONSTANTS
    AuthCalls,     \* calls of Auth
    MaxChallenge   \* bound: challenges the relay sends

ASSUME ChallengeAssumption == MaxChallenge \in Nat

VARIABLES
    challenge,  \* r.challenge: the number of the last challenge, 0 for ""
    once,       \* r.performAuth: its done flag and its mutex
    authed,     \* r.authed
    auMain,     \* the main loop: idle, or between the two assignments
    auPc,       \* call -> idle | do | lock | sign | publish | done | unlock
                \*         | after | returned
    auFailed,   \* call -> err is not nil
    auSent,     \* history: challenge -> AUTH messages sent for it
    auAccepted, \* history: the relay said OK to an AUTH
    fatal       \* the runtime stopped the program: unlock of unlocked mutex

auVars == <<challenge, once, authed, auMain, auPc, auFailed, auSent, auAccepted, fatal>>

FreshOnce == [done |-> FALSE, locked |-> FALSE]
Goto(c, l) == auPc' = [auPc EXCEPT ![c] = l]

-----------------------------------------------------------------------------
(* An AUTH message of the relay *)

ChallengeOnce ==
    /\ auMain = "idle" /\ challenge < MaxChallenge
    /\ auMain' = "reset" /\ once' = FreshOnce
    /\ UNCHANGED <<challenge, authed, auPc, auFailed, auSent, auAccepted, fatal>>

Challenge ==
    /\ auMain = "reset"
    /\ auMain' = "idle" /\ challenge' = challenge + 1
    /\ UNCHANGED <<once, authed, auPc, auFailed, auSent, auAccepted, fatal>>

-----------------------------------------------------------------------------
(* Auth *)

Start(c) ==
    /\ auPc[c] = "idle"
    /\ auFailed' = [auFailed EXCEPT ![c] = ~authed /\ challenge = 0]
    /\ Goto(c, IF authed \/ challenge = 0 THEN "returned" ELSE "do")
    /\ UNCHANGED <<challenge, once, authed, auMain, auSent, auAccepted, fatal>>

\* Mutant: the AUTH is sent outside of the Once.
DoUnguarded(c) ==
    /\ auPc[c] = "do"
    /\ Goto(c, "sign")
    /\ UNCHANGED <<challenge, once, authed, auMain, auFailed, auSent, auAccepted, fatal>>

\* Once.Do looks at the flag...
Do(c) ==
    /\ auPc[c] = "do"
    /\ Goto(c, IF once.done THEN "after" ELSE "lock")
    /\ UNCHANGED <<challenge, once, authed, auMain, auFailed, auSent, auAccepted, fatal>>

\* ...takes the mutex and looks again.
Lock(c) ==
    /\ auPc[c] = "lock" /\ ~once.locked
    /\ once' = [once EXCEPT !.locked = TRUE]
    /\ Goto(c, IF once.done THEN "unlock" ELSE "sign")
    /\ UNCHANGED <<challenge, authed, auMain, auFailed, auSent, auAccepted, fatal>>

\* The AUTH event is made of the current challenge and published, also when
\* sign failed: its error goes to a variable of the inner scope.
Sign(c) ==
    /\ auPc[c] = "sign"
    /\ auSent' = [auSent EXCEPT ![challenge] = @ + 1]
    /\ Goto(c, "publish")
    /\ UNCHANGED <<challenge, once, authed, auMain, auFailed, auAccepted, fatal>>

Published(c) ==
    /\ auPc[c] = "publish"
    /\ \/ auAccepted' = TRUE /\ UNCHANGED auFailed
       \/ auFailed' = [auFailed EXCEPT ![c] = TRUE] /\ UNCHANGED auAccepted
    /\ Goto(c, "done")
    /\ UNCHANGED <<challenge, once, authed, auMain, auSent, fatal>>

OnceDone(c) ==
    /\ auPc[c] = "done"
    /\ once' = [once EXCEPT !.done = TRUE]
    /\ Goto(c, "unlock")
    /\ UNCHANGED <<challenge, authed, auMain, auFailed, auSent, auAccepted, fatal>>

OnceUnlock(c) ==
    /\ auPc[c] = "unlock"
    /\ fatal' = ~once.locked
    /\ once' = [once EXCEPT !.locked = FALSE]
    /\ Goto(c, "after")
    /\ UNCHANGED <<challenge, authed, auMain, auFailed, auSent, auAccepted>>

Finish(c) ==
    /\ auPc[c] = "after"
    /\ authed' = (authed \/ ~auFailed[c])
    /\ Goto(c, "returned")
    /\ UNCHANGED <<challenge, once, auMain, auFailed, auSent, auAccepted, fatal>>

AuthInit ==
    /\ challenge = 0 /\ once = FreshOnce /\ authed = FALSE /\ auMain = "idle"
    /\ auPc = [c \in AuthCalls |-> "idle"]
    /\ auFailed = [c \in AuthCalls |-> FALSE]
    /\ auSent = [n \in 0..MaxChallenge |-> 0]
    /\ auAccepted = FALSE /\ fatal = FALSE

AuthGoesOn(c) ==
    \/ Do(c) \/ Lock(c) \/ Sign(c) \/ Published(c) \/ OnceDone(c) \/ OnceUnlock(c) \/ Finish(c)

AuthNext ==
    /\ ~fatal
    /\ \/ ChallengeOnce \/ Challenge
       \/ \E c \in AuthCalls : Start(c) \/ AuthGoesOn(c)

\* publish returns (PublishReturns of module Publish), goroutines run, and the
\* mutex of the Once is served in order of arrival.
AuthFairness == WF_auVars(Challenge) /\ \A c \in AuthCalls : SF_auVars(~fatal /\ AuthGoesOn(c))

-----------------------------------------------------------------------------
(* Properties *)

\* The relay has not sent a second challenge. A second one replaces the Once
\* under the calls that are inside it, and nothing below holds any more.
FirstChallenge == challenge = 0 \/ (challenge = 1 /\ auMain = "idle")

\* However many calls of Auth meet at the first challenge, the relay gets one
\* AUTH for it, and no call unlocks the mutex of the Once under another, which
\* would end the program.
OneAuthPerChallenge == FirstChallenge /\ challenge = 1 => auSent[1] <= 1 /\ ~fatal

\* No call reports success while the AUTH is still on its way: those that come
\* second wait for the first.
NilAfterAnswer ==
    FirstChallenge /\ (\E c \in AuthCalls : auPc[c] = "returned" /\ ~auFailed[c]) =>
        \A c \in AuthCalls : auPc[c] \notin {"sign", "publish"}

\* Calls of Auth that meet at a challenge share one AUTH and wait for its answer.
AuthOnce == OneAuthPerChallenge /\ NilAfterAnswer

\* Every call of Auth returns.
AuthReturns ==
    \A c \in AuthCalls : auPc[c] = "do" ~> auPc[c] = "returned" \/ ~FirstChallenge

(* What a comment of the code says, and the code does not do *)

\* Auth: "sends an AUTH command client->relay as in NIP-42 and waits for an OK
\* response": a call that returns nil has an OK of the relay behind it.
AuthNilMeansAccepted == \A c \in AuthCalls : auPc[c] = "returned" /\ ~auFailed[c] => auAccepted
=============================================================================
