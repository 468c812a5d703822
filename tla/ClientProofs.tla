----------------------------- MODULE ClientProofs -----------------------------
(***************************************************************************)
(* Proofs about what a client sends, alone and through the pool.           *)
(*                                                                         *)
(* publish: no callback is called twice, for any number of calls, ids and  *)
(* OK messages.  A call is unanswered while its callback has not been      *)
(* called.  The argument is about the callbacks that are still reachable:  *)
(* the map and the unanswered calls point only to callbacks of unanswered  *)
(* calls (TopInv, PrevInv), no two of them to the same one (Unique,        *)
(* TopFresh), and nobody points to the one that the holder of the mutex    *)
(* has loaded, except the map itself (LoadedInv).                          *)
(*                                                                         *)
(* That no OK is lost needs the converse: while nobody has given up, the   *)
(* chain that starts at the map leads to every callback that waits         *)
(* (AllReachable), so an OK that is owed finds one, and OKs and answered   *)
(* calls can be counted against each other (OksCounted).                   *)
(*                                                                         *)
(* Auth: as long as the relay has sent one challenge, the holder of the    *)
(* mutex of the Once is the one call inside of it (OneInside), and the     *)
(* flag of the Once divides the calls that are at the AUTH from those that *)
(* are past it (DoneDivides).                                              *)
(*                                                                         *)
(* EnsureRelay keeps one connection to a URL, for any URLs, locks, calls,  *)
(* failures and uses of the penalty box: the mutex of the URL orders the   *)
(* calls, and what each of them knows between its steps is the rest.       *)
(*                                                                         *)
(* The operations that fan out over a list of URLs (PoolQueries), for any  *)
(* list, events and failures: an event is delivered once, EOSE is told     *)
(* when every relay has told it or is gone, and FetchMany returns what     *)
(* the relays sent.  Their many steps are reduced to twelve kinds first,   *)
(* and each invariant is proved over the kinds.                            *)
(***************************************************************************)
EXTENDS Publish, ClientAuth, Pool, PoolQueries, FiniteSetTheorems, TLAPS

-----------------------------------------------------------------------------
(* publish *)

Unanswered(p) == gotOk[p] = "none"

\* p is a callback for id that may be called.
Callable(p, id) == p \in Calls /\ IdOf[p] = id /\ Unanswered(p) /\ pc[p] # "idle"

TopInv == \A id \in Ids : okCallbacks[id] # None => Callable(okCallbacks[id], id)

PrevInv ==
    \A p \in Calls : Unanswered(p) /\ previous[p] # None =>
        Callable(previous[p], IdOf[p]) /\ previous[p] # p

Unique ==
    \A p, s \in Calls :
        Unanswered(p) /\ Unanswered(s) /\ previous[p] # None /\ previous[p] = previous[s] => p = s

TopFresh ==
    \A p \in Calls : Unanswered(p) /\ previous[p] # None => okCallbacks[IdOf[p]] # previous[p]

IdleInv == \A p \in Calls : pc[p] = "idle" => previous[p] = None /\ Unanswered(p)

Loaded(cb) ==
    /\ cb \in Calls /\ Callable(cb, IdOf[cb])
    /\ okCallbacks[IdOf[cb]] \in {cb, None}
    /\ \A s \in Calls : Unanswered(s) => previous[s] # cb

LoadedInv ==
    /\ main.pc = "call" => mutex = MainHolds /\ main.ok # "none" /\ Loaded(main.cb)
    /\ \A p \in Calls : pc[p] = "expire" => mutex = HeldBy(p) /\ Loaded(called[p])

ChainInv == TopInv /\ PrevInv /\ Unique /\ TopFresh /\ IdleInv

IInv == TypeOK /\ ChainInv /\ LoadedInv

-----------------------------------------------------------------------------

LEMMA MutexDistinct ==
    /\ Free # MainHolds
    /\ \A p \in Calls : HeldBy(p) # Free /\ HeldBy(p) # MainHolds
    /\ \A p, q \in Calls : HeldBy(p) = HeldBy(q) => p = q
  BY DEF Free, MainHolds, HeldBy

LEMMA InvInit == Init => IInv
  <1> USE CallAssumption, MutexDistinct
  <1>1. Init => TypeOK
    BY DEF Init, TypeOK, MainIdle, Answers
  <1>2. Init => ChainInv
    BY DEF Init, ChainInv, TopInv, PrevInv, Unique, TopFresh, IdleInv, Unanswered
  <1>3. Init => LoadedInv
    BY DEF Init, LoadedInv, MainIdle
  <1> QED
    BY <1>1, <1>2, <1>3 DEF IInv

\* A step that changes neither the chain nor what is loaded, and takes no call
\* back to idle.
LEMMA InvQuiet ==
    ASSUME IInv, TypeOK', UNCHANGED <<okCallbacks, previous, gotOk, mutex, main, called>>,
           \A p \in Calls : /\ (pc'[p] = "idle") <=> (pc[p] = "idle")
                            /\ pc'[p] = "expire" => pc[p] = "expire"
    PROVE  IInv'
  <1>1. ChainInv'
    BY CallAssumption
    DEF IInv, TypeOK, ChainInv, TopInv, PrevInv, Unique, TopFresh, IdleInv, Callable, Unanswered
  <1>2. \A cb : Loaded(cb) => Loaded(cb)'
    BY DEF Loaded, Callable, Unanswered
  <1>3. LoadedInv'
    BY <1>2 DEF IInv, LoadedInv
  <1> QED
    BY <1>1, <1>3 DEF IInv

\* A callback that was loaded is called, by the main loop or by a call.
LEMMA InvCall ==
    ASSUME IInv, NEW cb, Loaded(cb), NEW ok \in Answers \ {"none"}, Call(cb, ok), UNCHANGED previous,
           \A p \in Calls : (pc'[p] = "idle") <=> (pc[p] = "idle")
    PROVE  ChainInv'
  <1> USE CallAssumption
  <1>1. /\ cb \in Calls /\ Unanswered(cb) /\ pc[cb] # "idle"
        /\ \A p \in Calls : Unanswered(p)' <=> Unanswered(p) /\ p # cb
        /\ \A id \in Ids : okCallbacks'[id] = IF id = IdOf[cb] THEN previous[cb] ELSE okCallbacks[id]
        /\ \A p \in Calls : previous'[p] = previous[p]
    BY DEF Call, Loaded, Callable, Unanswered, IInv, TypeOK
  <1>2. \A p \in Calls : Unanswered(p) /\ previous[p] # None => previous[p] # cb
    BY DEF Loaded
  <1>3. TopInv'
    <2> SUFFICES ASSUME NEW id \in Ids, NEW q, q = okCallbacks'[id], q # None
                 PROVE  q \in Calls /\ IdOf[q] = id /\ Unanswered(q)' /\ pc'[q] # "idle"
      BY DEF TopInv, Callable
    <2>1. CASE id = IdOf[cb]
      BY <1>1, <2>1 DEF IInv, ChainInv, PrevInv, Callable
    <2>2. CASE id # IdOf[cb]
      BY <1>1, <2>2 DEF IInv, ChainInv, TopInv, Callable
    <2> QED
      BY <2>1, <2>2
  <1>4. PrevInv'
    BY <1>1, <1>2 DEF IInv, ChainInv, PrevInv, Callable
  <1>5. Unique'
    BY <1>1 DEF IInv, ChainInv, Unique
  <1>6. TopFresh'
    <2> SUFFICES ASSUME NEW p \in Calls, Unanswered(p)', previous[p] # None
                 PROVE  okCallbacks'[IdOf[p]] # previous[p]
      BY <1>1 DEF TopFresh
    <2>1. CASE IdOf[p] = IdOf[cb]
      <3>1. previous[cb] # previous[p]
        BY <1>1 DEF IInv, ChainInv, Unique
      <3> QED
        BY <1>1, <2>1, <3>1
    <2>2. CASE IdOf[p] # IdOf[cb]
      BY <1>1, <2>2 DEF IInv, ChainInv, TopFresh
    <2> QED
      BY <2>1, <2>2
  <1>7. IdleInv'
    BY <1>1 DEF IInv, ChainInv, IdleInv
  <1> QED
    BY <1>3, <1>4, <1>5, <1>6, <1>7 DEF ChainInv

\* The callback on top of the map may be loaded.
LEMMA TopIsLoadable ==
    ASSUME IInv, NEW id \in Ids, okCallbacks[id] # None
    PROVE  Loaded(okCallbacks[id])
  BY CallAssumption DEF IInv, ChainInv, TopInv, PrevInv, TopFresh, Loaded, Callable, TypeOK

LEMMA InvRegister ==
    ASSUME IInv, NEW p \in Calls, Register(p)
    PROVE  IInv'
  <1> USE CallAssumption, MutexDistinct
  <1> DEFINE top == okCallbacks[IdOf[p]]
  <1>1. TypeOK'
    BY DEF IInv, TypeOK, Register
  <1>2. /\ pc[p] = "idle" /\ mutex = Free /\ UNCHANGED <<gotOk, main, mutex, called>>
        /\ \A q \in Calls : pc'[q] = IF q = p THEN "write" ELSE pc[q]
        /\ \A q \in Calls : previous'[q] = IF q = p THEN top ELSE previous[q]
        /\ \A id \in Ids : okCallbacks'[id] = IF id = IdOf[p] THEN p ELSE okCallbacks[id]
        /\ \A q \in Calls : Unanswered(q)' <=> Unanswered(q)
    BY DEF Register, IInv, TypeOK, Unanswered
  <1>3. \A q \in Calls : pc[q] # "expire" /\ main.pc # "call"
    BY <1>2 DEF IInv, LoadedInv
  <1>4. LoadedInv'
    BY <1>2, <1>3 DEF LoadedInv
  <1>5. Unanswered(p)
    BY <1>2 DEF IInv, ChainInv, IdleInv
  <1>6. TopInv'
    BY <1>2, <1>5 DEF IInv, ChainInv, TopInv, Callable
  <1>7. PrevInv'
    BY <1>2 DEF IInv, ChainInv, TopInv, PrevInv, Callable
  <1>8. Unique'
    BY <1>2 DEF IInv, ChainInv, Unique, TopFresh, PrevInv, TopInv, Callable
  <1>9. TopFresh' /\ IdleInv'
    BY <1>2 DEF IInv, ChainInv, PrevInv, TopInv, TopFresh, IdleInv, Callable
  <1> QED
    BY <1>1, <1>4, <1>6, <1>7, <1>8, <1>9 DEF IInv, ChainInv

LEMMA InvStep == IInv /\ [Next]_vars => IInv'
  <1> SUFFICES ASSUME IInv, [Next]_vars PROVE IInv'
    OBVIOUS
  <1> USE CallAssumption, MutexDistinct
  <1>1. CASE UNCHANGED vars
    BY <1>1, InvQuiet DEF vars, callVars, IInv, TypeOK
  <1>2. ASSUME NEW p \in Calls, Register(p) PROVE IInv'
    BY <1>2, InvRegister
  <1>3. ASSUME NEW p \in Calls, Write(p) \/ WriteFails(p) \/ GotOk(p) \/ Expire(p) PROVE IInv'
    <2>1. TypeOK'
      BY <1>3 DEF IInv, TypeOK, Write, WriteFails, GotOk, Expire, Return, Answers
    <2> QED
      BY <1>3, <2>1, InvQuiet DEF IInv, TypeOK, Write, WriteFails, GotOk, Expire, Return
  <1>4. ASSUME NEW p \in Calls, Expired(p) PROVE IInv'
    <2>1. TypeOK'
      BY <1>4 DEF IInv, TypeOK, Expired, Return
    <2>2. CASE okCallbacks[IdOf[p]] = None
      BY <1>4, <2>1, <2>2, InvQuiet DEF Expired, Return, IInv, TypeOK
    <2>3. CASE okCallbacks[IdOf[p]] # None
      <3>1. Loaded(okCallbacks[IdOf[p]])
        BY <2>3, TopIsLoadable
      <3>2. /\ UNCHANGED <<okCallbacks, previous, gotOk, main>>
            /\ mutex = Free /\ mutex' = HeldBy(p) /\ called'[p] = okCallbacks[IdOf[p]]
            /\ \A q \in Calls : pc'[q] = IF q = p THEN "expire" ELSE pc[q]
            /\ pc[p] = "wait"
        BY <1>4, <2>3 DEF Expired, IInv, TypeOK
      <3>3. ChainInv'
        BY <3>2 DEF IInv, ChainInv, TopInv, PrevInv, Unique, TopFresh, IdleInv, Callable, Unanswered
      <3>4. \A cb : Loaded(cb) => Loaded(cb)'
        BY <3>2 DEF Loaded, Callable, Unanswered
      <3>5. main.pc # "call" /\ \A q \in Calls : pc[q] # "expire"
        BY <3>2 DEF IInv, LoadedInv
      <3>6. LoadedInv'
        BY <3>1, <3>2, <3>4, <3>5 DEF LoadedInv
      <3> QED
        BY <2>1, <3>3, <3>6 DEF IInv
    <2> QED
      BY <2>2, <2>3
  <1>5. ASSUME NEW p \in Calls, ConnectionGone(p) PROVE IInv'
    <2>1. TypeOK'
      BY <1>5 DEF IInv, TypeOK, ConnectionGone, Return
    <2>2. /\ UNCHANGED <<previous, gotOk, mutex, main, called>>
          /\ \A id \in Ids : okCallbacks'[id] = None
          /\ \A q \in Calls : /\ (pc'[q] = "idle") <=> (pc[q] = "idle")
                              /\ pc'[q] = "expire" => pc[q] = "expire"
      BY <1>5 DEF ConnectionGone, Return, IInv, TypeOK
    <2>3. ChainInv'
      BY <2>2 DEF IInv, ChainInv, TopInv, PrevInv, Unique, TopFresh, IdleInv, Callable, Unanswered
    <2>4. \A cb : Loaded(cb) => Loaded(cb)'
      BY <2>2 DEF Loaded, Callable, Unanswered
    <2>5. LoadedInv'
      BY <2>2, <2>4 DEF IInv, LoadedInv
    <2> QED
      BY <2>1, <2>3, <2>5 DEF IInv
  <1>6. ASSUME NEW p \in Calls, ExpiredCall(p) PROVE IInv'
    <2>1. Loaded(called[p]) /\ mutex = HeldBy(p) /\ called[p] \in Calls
      BY <1>6 DEF ExpiredCall, IInv, LoadedInv, Loaded
    <2>2. TypeOK'
      BY <1>6, <2>1 DEF IInv, TypeOK, ExpiredCall, Call, Return, Answers
    <2>3. UNCHANGED <<previous, main>> /\ \A q \in Calls : pc'[q] = IF q = p THEN "returned" ELSE pc[q]
      BY <1>6 DEF ExpiredCall, Return, IInv, TypeOK
    <2>4. Call(called[p], "timeout") /\ pc[p] = "expire"
      BY <1>6 DEF ExpiredCall
    <2>5. ChainInv'
      BY <2>1, <2>3, <2>4, InvCall DEF Answers
    <2>6. main.pc # "call" /\ \A q \in Calls : pc[q] = "expire" => q = p
      BY <2>1 DEF IInv, LoadedInv
    <2>7. LoadedInv'
      BY <2>3, <2>6 DEF LoadedInv
    <2> QED
      BY <2>2, <2>5, <2>7 DEF IInv
  <1>7. ASSUME NEW id \in Ids, NEW ok \in {"ok", "refused"}, HandleOk(id, ok) PROVE IInv'
    <2>1. TypeOK'
      BY <1>7 DEF IInv, TypeOK, HandleOk, callVars, MainHolds, Free, Answers
    <2>2. CASE okCallbacks[id] = None
      BY <1>7, <2>1, <2>2, InvQuiet DEF HandleOk, callVars, IInv, TypeOK
    <2>3. CASE okCallbacks[id] # None
      <3>1. Loaded(okCallbacks[id])
        BY <2>3, TopIsLoadable
      <3>2. /\ UNCHANGED <<okCallbacks, previous, gotOk, called, pc>> /\ mutex = Free
            /\ mutex' = MainHolds /\ main'.cb = okCallbacks[id] /\ main'.ok = ok
        BY <1>7, <2>3 DEF HandleOk, callVars
      <3>3. ChainInv'
        BY <3>2 DEF IInv, ChainInv, TopInv, PrevInv, Unique, TopFresh, IdleInv, Callable, Unanswered
      <3>4. \A cb : Loaded(cb) => Loaded(cb)'
        BY <3>2 DEF Loaded, Callable, Unanswered
      <3>5. \A q \in Calls : pc[q] # "expire"
        BY <3>2 DEF IInv, LoadedInv
      <3>6. LoadedInv'
        BY <3>1, <3>2, <3>4, <3>5 DEF LoadedInv
      <3> QED
        BY <2>1, <3>3, <3>6 DEF IInv
    <2> QED
      BY <2>2, <2>3
  <1>8. ASSUME HandleOkCall PROVE IInv'
    <2>1. Loaded(main.cb) /\ mutex = MainHolds /\ main.cb \in Calls /\ main.ok \in Answers \ {"none"}
      BY <1>8 DEF HandleOkCall, IInv, LoadedInv, Loaded, TypeOK
    <2>2. TypeOK'
      BY <1>8, <2>1 DEF IInv, TypeOK, HandleOkCall, Call, callVars, MainIdle, Answers
    <2>3. UNCHANGED <<previous, pc>> /\ main'.pc = "idle" /\ Call(main.cb, main.ok)
      BY <1>8 DEF HandleOkCall, callVars, MainIdle
    <2>4. ChainInv'
      BY <2>1, <2>3, InvCall
    <2>5. \A q \in Calls : pc[q] # "expire"
      BY <2>1 DEF IInv, LoadedInv
    <2>6. LoadedInv'
      BY <2>3, <2>5 DEF LoadedInv
    <2> QED
      BY <2>2, <2>4, <2>6 DEF IInv
  <1>9. ASSUME ConnectionLost PROVE IInv'
    <2>1. TypeOK'
      BY <1>9 DEF IInv, TypeOK, ConnectionLost, callVars
    <2> QED
      BY <1>9, <2>1, InvQuiet DEF ConnectionLost, callVars
  <1>10. ASSUME MainExit PROVE IInv'
    <2>1. TypeOK'
      BY <1>10 DEF IInv, TypeOK, MainExit, callVars, MainIdle, Answers
    <2>2. /\ UNCHANGED <<okCallbacks, previous, gotOk, mutex, called, pc>>
          /\ main.pc = "idle" /\ main'.pc = "gone"
      BY <1>10 DEF MainExit, callVars, MainIdle
    <2>3. ChainInv'
      BY <2>2 DEF IInv, ChainInv, TopInv, PrevInv, Unique, TopFresh, IdleInv, Callable, Unanswered
    <2>4. \A cb : Loaded(cb) => Loaded(cb)'
      BY <2>2 DEF Loaded, Callable, Unanswered
    <2>5. LoadedInv'
      BY <2>2, <2>4 DEF IInv, LoadedInv
    <2> QED
      BY <2>1, <2>3, <2>5 DEF IInv
  <1> QED
    BY <1>1, <1>2, <1>3, <1>4, <1>5, <1>6, <1>7, <1>8, <1>9, <1>10 DEF Next, GoesOn

-----------------------------------------------------------------------------

\* Everything holds values of its type and okCallbacksMutex is the main loop's
\* exactly while it calls a callback.
THEOREM PublishTypes == SafetySpec => []TypeOK
  <1>1. IInv => TypeOK
    BY DEF IInv
  <1> QED
    BY <1>1, InvInit, InvStep, PTL DEF SafetySpec

\* No callback is called twice, so the one that calls it with the mutex held is
\* never stuck on the full channel: for every number of calls that publish the
\* same or different events, however OKs, timeouts and the loss of the
\* connection interleave.
THEOREM PublishNeverBlocks == SafetySpec => []CallbackNeverBlocks
  <1>1. IInv => CallbackNeverBlocks
    BY DEF IInv, LoadedInv, Loaded, Callable, Unanswered, CallbackNeverBlocks
  <1> QED
    BY <1>1, InvInit, InvStep, PTL DEF SafetySpec

-----------------------------------------------------------------------------
(* What nil means *)

\* An answer "ok" anywhere on its way to the caller comes from the relay, and
\* a call that waits has written its message.
AcceptedInv ==
    /\ main.pc = "call" /\ main.ok = "ok" => IdOf[main.cb] \in accepted
    /\ \A p \in Calls : gotOk[p] = "ok" => IdOf[p] \in accepted
    /\ \A p \in Calls : pc[p] \in {"wait", "expire"} => sent[p]
    /\ NilMeansAccepted

\* Publish returns nil only when the relay accepted the event and its own
\* message was written: a timeout or the OK of another call does not turn
\* into a success.
THEOREM NilIsAccepted == SafetySpec => []NilMeansAccepted
  <1> USE CallAssumption
  <1>1. Init => AcceptedInv
    BY DEF Init, AcceptedInv, NilMeansAccepted, MainIdle
  <1>2. IInv /\ AcceptedInv /\ [Next]_vars => AcceptedInv'
    <2> SUFFICES ASSUME IInv, AcceptedInv, [Next]_vars PROVE AcceptedInv'
      OBVIOUS
    <2> USE DEF IInv, TypeOK, AcceptedInv, NilMeansAccepted
    <2>1. CASE UNCHANGED vars
      BY <2>1 DEF vars, callVars
    <2>2. ASSUME NEW p \in Calls, Register(p) \/ Expire(p) \/ Write(p) PROVE AcceptedInv'
      BY <2>2 DEF Register, Expire, Write
    <2>3. ASSUME NEW p \in Calls, WriteFails(p) \/ GotOk(p) \/ Expired(p) \/ ConnectionGone(p)
          PROVE AcceptedInv'
      BY <2>3 DEF WriteFails, GotOk, Expired, ConnectionGone, Return
    <2>4. ASSUME NEW p \in Calls, ExpiredCall(p) PROVE AcceptedInv'
      <3>1. called[p] \in Calls
        BY <2>4 DEF ExpiredCall, LoadedInv, Loaded
      <3> QED
        BY <2>4, <3>1 DEF ExpiredCall, Call, Return
    <2>5. ASSUME NEW id \in Ids, NEW ok \in {"ok", "refused"}, HandleOk(id, ok) PROVE AcceptedInv'
      <3>1. okCallbacks[id] # None => IdOf[okCallbacks[id]] = id
        BY DEF ChainInv, TopInv, Callable
      <3>2. accepted \subseteq accepted' /\ (ok = "ok" => id \in accepted')
        BY <2>5 DEF HandleOk
      <3> QED
        BY <2>5, <3>1, <3>2 DEF HandleOk, callVars
    <2>6. ASSUME HandleOkCall PROVE AcceptedInv'
      <3>1. main.cb \in Calls
        BY <2>6 DEF HandleOkCall, LoadedInv, Loaded
      <3> QED
        BY <2>6, <3>1 DEF HandleOkCall, Call, callVars, MainIdle
    <2>7. ASSUME ConnectionLost \/ MainExit PROVE AcceptedInv'
      BY <2>7 DEF ConnectionLost, MainExit, callVars, MainIdle
    <2> QED
      BY <2>1, <2>2, <2>3, <2>4, <2>5, <2>6, <2>7 DEF Next, GoesOn
  <1>3. AcceptedInv => NilMeansAccepted
    BY DEF AcceptedInv
  <1> QED
    BY <1>1, <1>2, <1>3, InvInit, InvStep, PTL DEF SafetySpec

-----------------------------------------------------------------------------
(* No OK is lost *)

Registered(p) == pc[p] # "idle" /\ Unanswered(p)

\* The callbacks for id that are in S include the one on top and the ones it
\* and the others put back.
Closed(S, id) ==
    /\ okCallbacks[id] # None => okCallbacks[id] \in S
    /\ \A q \in S : Registered(q) /\ previous[q] # None => previous[q] \in S

\* From the map of callbacks one gets to p.
Reachable(p) == \A S \in SUBSET Calls : Closed(S, IdOf[p]) => p \in S

Answered(id) == {p \in Calls : IdOf[p] = id /\ gotOk[p] # "none"}
InFlight(id) == IF main.pc = "call" /\ IdOf[main.cb] = id THEN 1 ELSE 0

\* Nothing has happened yet that may cost an answer.
Untroubled == extra = 0 /\ conn /\ \A p \in Calls : ~expired[p]

PcInv ==
    \A p \in Calls : /\ sent[p] => pc[p] # "idle"
                     /\ pc[p] = "expire" => expired[p]

OnTop == main.pc = "call" => okCallbacks[IdOf[main.cb]] = main.cb

AllReachable == \A p \in Calls : Registered(p) => Reachable(p)

OksCounted == \A id \in Ids : oks[id] = Cardinality(Answered(id)) + InFlight(id)

OkInv == PcInv /\ (Untroubled => OnTop /\ AllReachable /\ OksCounted)

LEMMA AnsweredFinite ==
    ASSUME NEW id
    PROVE  IsFiniteSet(Answered(id)) /\ Cardinality(Answered(id)) \in Nat
  BY CallAssumption, FS_Subset, FS_CardinalityType DEF Answered

\* The relay still owes an OK for id: the call it is for can be found.
LEMMA OwedIsRegistered ==
    ASSUME IInv, OkInv, Untroubled, NEW id \in Ids, main.pc # "call", oks[id] < Sent(id)
    PROVE  okCallbacks[id] # None
  <1> DEFINE S == {p \in Calls : IdOf[p] = id /\ sent[p]}
  <1>1. IsFiniteSet(S) /\ Cardinality(S) \in Nat
    BY CallAssumption, FS_Subset, FS_CardinalityType
  <1>2. oks[id] = Cardinality(Answered(id)) /\ Cardinality(S) = Sent(id)
    BY AnsweredFinite DEF OkInv, OksCounted, InFlight, Sent
  <1>3. ~(S \subseteq Answered(id))
    BY <1>1, <1>2, AnsweredFinite, FS_Subset
  <1>4. PICK p \in Calls : IdOf[p] = id /\ sent[p] /\ gotOk[p] = "none"
    BY <1>3 DEF Answered
  <1>5. Reachable(p)
    BY <1>4 DEF OkInv, PcInv, AllReachable, Registered, Unanswered
  <1>6. ~Closed({}, id)
    BY <1>4, <1>5 DEF Reachable
  <1> QED
    BY <1>6 DEF Closed

LEMMA OkQuiet ==
    ASSUME OkInv, PcInv', UNCHANGED <<okCallbacks, previous, gotOk, main, oks>>,
           Untroubled' => Untroubled,
           \A p \in Calls : (pc'[p] = "idle") <=> (pc[p] = "idle")
    PROVE  OkInv'
  <1>1. \A p \in Calls : Registered(p)' <=> Registered(p)
    BY DEF Registered, Unanswered
  <1>2. \A S \in SUBSET Calls : \A id : Closed(S, id)' <=> Closed(S, id)
    BY <1>1 DEF Closed
  <1>3. AllReachable => AllReachable'
    BY <1>1, <1>2 DEF AllReachable, Reachable
  <1>4. OnTop => OnTop'
    BY DEF OnTop
  <1>5. OksCounted => OksCounted'
    BY DEF OksCounted, Answered, InFlight
  <1> QED
    BY <1>3, <1>4, <1>5 DEF OkInv

LEMMA OkRegister ==
    ASSUME IInv, OkInv, NEW p \in Calls, Register(p)
    PROVE  OkInv'
  <1> DEFINE top == okCallbacks[IdOf[p]]
  <1>1. /\ pc[p] = "idle" /\ UNCHANGED <<gotOk, main, sent, expired, oks, extra, conn>>
        /\ \A q \in Calls : pc'[q] = IF q = p THEN "write" ELSE pc[q]
        /\ \A q \in Calls : previous'[q] = IF q = p THEN top ELSE previous[q]
        /\ \A id \in Ids : okCallbacks'[id] = IF id = IdOf[p] THEN p ELSE okCallbacks[id]
        /\ main.pc # "call" /\ p # None /\ IdOf[p] \in Ids
    BY CallAssumption, MutexDistinct DEF Register, IInv, TypeOK
  <1>2. PcInv'
    BY <1>1 DEF OkInv, PcInv
  <1>3. Untroubled' => Untroubled
    BY <1>1 DEF Untroubled
  <1>4. OksCounted => OksCounted'
    BY <1>1 DEF OksCounted, Answered, InFlight
  <1>5. OnTop'
    BY <1>1 DEF OnTop
  <1>6. ASSUME AllReachable
        PROVE  AllReachable'
    <2> SUFFICES ASSUME NEW q \in Calls, Registered(q)', NEW S \in SUBSET Calls, Closed(S, IdOf[q])'
                 PROVE  q \in S
      BY DEF AllReachable, Reachable
    <2>1. IdOf[q] \in Ids
      BY CallAssumption
    <2>2. \A s \in Calls : s # p => (Registered(s)' <=> Registered(s))
      BY <1>1 DEF Registered, Unanswered
    <2>3. ~Registered(p)
      BY <1>1 DEF Registered
    <2>4. Registered(p)'
      BY <1>1 DEF Registered, Unanswered, IInv, ChainInv, IdleInv
    <2>5. IdOf[q] = IdOf[p] => p \in S /\ (top # None => top \in S)
      BY <1>1, <2>1, <2>4 DEF Closed
    <2>6. Closed(S, IdOf[q])
      <3>1. okCallbacks[IdOf[q]] # None => okCallbacks[IdOf[q]] \in S
        BY <1>1, <2>1, <2>5 DEF Closed
      <3>2. \A s \in S : Registered(s) /\ previous[s] # None => previous[s] \in S
        BY <1>1, <2>2, <2>3 DEF Closed
      <3> QED
        BY <3>1, <3>2 DEF Closed
    <2>7. CASE q = p
      BY <2>5, <2>7
    <2>8. CASE q # p
      BY <1>6, <2>2, <2>6, <2>8 DEF AllReachable, Reachable
    <2> QED
      BY <2>7, <2>8
  <1> QED
    BY <1>2, <1>3, <1>4, <1>5, <1>6 DEF OkInv

LEMMA OkHandled ==
    ASSUME IInv, OkInv, HandleOkCall
    PROVE  OkInv'
  <1> DEFINE cb == main.cb
  <1>1. /\ cb \in Calls /\ Unanswered(cb) /\ IdOf[cb] \in Ids /\ main.pc = "call"
        /\ \A s \in Calls : Unanswered(s) => previous[s] # cb
    BY CallAssumption DEF HandleOkCall, IInv, LoadedInv, Loaded, Callable
  <1>2. /\ main'.pc = "idle" /\ UNCHANGED <<conn, extra, oks, pc, sent, expired, previous>>
        /\ \A q \in Calls : gotOk'[q] = IF q = cb THEN main.ok ELSE gotOk[q]
        /\ \A id \in Ids : okCallbacks'[id] = IF id = IdOf[cb] THEN previous[cb] ELSE okCallbacks[id]
        /\ main.ok # "none"
    BY <1>1 DEF HandleOkCall, Call, callVars, MainIdle, IInv, TypeOK, LoadedInv
  <1>3. PcInv'
    BY <1>2 DEF OkInv, PcInv
  <1>4. Untroubled' => Untroubled
    BY <1>2 DEF Untroubled
  <1>5. OnTop'
    BY <1>2 DEF OnTop
  <1>6. ASSUME OksCounted
        PROVE  OksCounted'
    <2> SUFFICES ASSUME NEW id \in Ids
                 PROVE  oks[id] = Cardinality(Answered(id)') + InFlight(id)'
      BY <1>2 DEF OksCounted
    <2>1. InFlight(id)' = 0
      BY <1>2 DEF InFlight
    <2>2. CASE id = IdOf[cb]
      <3>1. Answered(id)' = Answered(id) \cup {cb} /\ cb \notin Answered(id)
        BY <1>1, <1>2, <2>2 DEF Answered, Unanswered
      <3>2. Cardinality(Answered(id)') = Cardinality(Answered(id)) + 1
        BY <3>1, AnsweredFinite, FS_AddElement
      <3>3. InFlight(id) = 1
        BY <1>1, <2>2 DEF InFlight
      <3> QED
        BY <1>6, <2>1, <3>2, <3>3, AnsweredFinite DEF OksCounted
    <2>3. CASE id # IdOf[cb]
      <3>1. Answered(id)' = Answered(id)
        BY <1>1, <1>2, <2>3 DEF Answered
      <3>2. InFlight(id) = 0
        BY <2>3 DEF InFlight
      <3> QED
        BY <1>6, <2>1, <3>1, <3>2 DEF OksCounted
    <2> QED
      BY <2>2, <2>3
  <1>7. ASSUME AllReachable, OnTop
        PROVE  AllReachable'
    <2> SUFFICES ASSUME NEW q \in Calls, Registered(q)', NEW S \in SUBSET Calls, Closed(S, IdOf[q])'
                 PROVE  q \in S
      BY DEF AllReachable, Reachable
    <2>1. IdOf[q] \in Ids /\ okCallbacks[IdOf[cb]] = cb
      BY <1>1, <1>7, CallAssumption DEF OnTop
    <2>2. /\ Registered(q) /\ q # cb
          /\ \A s \in Calls : s # cb => (Registered(s)' <=> Registered(s))
      BY <1>2 DEF Registered, Unanswered
    <2> DEFINE T == IF IdOf[q] = IdOf[cb] THEN S \cup {cb} ELSE S \ {cb}
    <2>3. Closed(T, IdOf[q])
      <3>1. okCallbacks[IdOf[q]] # None => okCallbacks[IdOf[q]] \in T
        BY <1>1, <1>2, <2>1 DEF Closed, IInv, ChainInv, TopInv, Callable
      <3>2. IdOf[q] = IdOf[cb] => (previous[cb] # None => previous[cb] \in S)
        BY <1>2, <2>1 DEF Closed
      <3>3. ASSUME NEW s \in T, Registered(s), previous[s] # None, s # cb
            PROVE  previous[s] \in T
        <4>1. s \in S /\ s \in Calls
          BY <3>3
        <4>2. Registered(s)' /\ previous'[s] = previous[s]
          BY <1>2, <2>2, <3>3, <4>1
        <4>3. previous[s] \in S
          BY <3>3, <4>1, <4>2 DEF Closed
        <4>4. previous[s] # cb
          BY <1>1, <3>3, <4>1 DEF Registered
        <4> QED
          BY <4>3, <4>4
      <3>4. IdOf[q] = IdOf[cb] => (previous[cb] # None => previous[cb] \in T)
        BY <3>2
      <3> QED
        BY <3>1, <3>3, <3>4 DEF Closed
    <2>4. q \in T
      BY <1>1, <1>7, <2>2, <2>3 DEF AllReachable, Reachable
    <2> QED
      BY <2>2, <2>4
  <1> QED
    BY <1>3, <1>4, <1>5, <1>6, <1>7 DEF OkInv

LEMMA OkArrives ==
    ASSUME IInv, OkInv, NEW id \in Ids, NEW ok \in {"ok", "refused"}, HandleOk(id, ok)
    PROVE  OkInv'
  <1>1. /\ UNCHANGED <<conn, okCallbacks, gotOk, pc, expired, previous, sent>> /\ main.pc = "idle"
        /\ \A i \in Ids : oks'[i] = IF i = id THEN oks[i] + 1 ELSE oks[i]
        /\ extra \in Nat /\ oks \in [Ids -> Nat]
    BY DEF HandleOk, callVars, IInv, TypeOK
  <1>2. PcInv'
    BY <1>1 DEF OkInv, PcInv
  <1>3. Untroubled' => Untroubled /\ oks[id] < Sent(id)
    BY <1>1 DEF Untroubled, HandleOk
  <1>4. ASSUME Untroubled'
        PROVE  OnTop' /\ AllReachable' /\ OksCounted'
    <2> DEFINE top == okCallbacks[id]
    <2>1. top # None /\ Untroubled
      BY <1>1, <1>3, <1>4, OwedIsRegistered
    <2>2. main' = [pc |-> "call", cb |-> top, ok |-> ok] /\ IdOf[top] = id
      BY <2>1 DEF HandleOk, IInv, ChainInv, TopInv, Callable
    <2>3. OnTop'
      BY <1>1, <2>2 DEF OnTop
    <2>4. \A p \in Calls : Registered(p)' <=> Registered(p)
      BY <1>1 DEF Registered, Unanswered
    <2>5. \A S \in SUBSET Calls : \A i : Closed(S, i)' <=> Closed(S, i)
      BY <1>1, <2>4 DEF Closed
    <2>6. AllReachable'
      BY <2>1, <2>4, <2>5 DEF OkInv, AllReachable, Reachable
    <2>7. OksCounted'
      <3> SUFFICES ASSUME NEW i \in Ids
                   PROVE  oks'[i] = Cardinality(Answered(i)') + InFlight(i)'
        BY DEF OksCounted
      <3>1. Answered(i)' = Answered(i) /\ oks[i] = Cardinality(Answered(i)) + InFlight(i)
        BY <1>1, <2>1 DEF Answered, OkInv, OksCounted
      <3>2. InFlight(i) = 0 /\ InFlight(i)' = IF i = id THEN 1 ELSE 0
        BY <1>1, <2>2 DEF InFlight
      <3> QED
        BY <1>1, <3>1, <3>2, AnsweredFinite
    <2> QED
      BY <2>3, <2>6, <2>7
  <1> QED
    BY <1>2, <1>4 DEF OkInv

LEMMA OkStep ==
    ASSUME IInv, OkInv, [Next]_vars
    PROVE  OkInv'
  <1> USE CallAssumption
  <1>1. CASE UNCHANGED vars
    <2>1. PcInv' /\ (Untroubled' => Untroubled)
      BY <1>1 DEF vars, callVars, OkInv, PcInv, Untroubled
    <2> QED
      BY <1>1, <2>1, OkQuiet DEF vars, callVars
  <1>2. ASSUME NEW p \in Calls, Write(p) \/ WriteFails(p) \/ GotOk(p) \/ Expire(p)
        PROVE  OkInv'
    <2>1. /\ PcInv' /\ UNCHANGED <<okCallbacks, previous, gotOk, main, oks, extra, conn>>
          /\ \A q \in Calls : (pc'[q] = "idle") <=> (pc[q] = "idle")
          /\ \A q \in Calls : expired[q] => expired'[q]
      BY <1>2 DEF Write, WriteFails, GotOk, Expire, Return, OkInv, PcInv, IInv, TypeOK
    <2> QED
      BY <2>1, OkQuiet DEF Untroubled
  \* Here an answer may be lost, and it is said so.
  <1>3. ASSUME NEW p \in Calls, Expired(p) \/ ConnectionGone(p) \/ ExpiredCall(p)
        PROVE  OkInv'
    <2>1. PcInv'
      BY <1>3 DEF Expired, ConnectionGone, ExpiredCall, Return, OkInv, PcInv, IInv, TypeOK
    <2>2. ~Untroubled'
      BY <1>3 DEF Expired, ConnectionGone, ExpiredCall, OkInv, PcInv, Untroubled
    <2> QED
      BY <2>1, <2>2 DEF OkInv
  <1>4. CASE ConnectionLost \/ MainExit
    <2>1. PcInv' /\ ~Untroubled'
      BY <1>4 DEF ConnectionLost, MainExit, callVars, OkInv, PcInv, Untroubled
    <2> QED
      BY <2>1 DEF OkInv
  <1> QED
    BY <1>1, <1>2, <1>3, <1>4, OkRegister, OkArrives, OkHandled DEF Next, GoesOn

\* As long as the connection is up, nobody has given up and the relay has not
\* repeated itself, every OK of the relay has answered exactly one of the calls
\* that published its event: the chain of callbacks loses none of them,
\* whatever the number of calls that publish the same event.
THEOREM PublishAnswersEveryOk == SafetySpec => []EveryOkAnswers
  <1>1. Init => OkInv
    <2> SUFFICES ASSUME Init PROVE OkInv
      OBVIOUS
    <2>1. PcInv /\ OnTop /\ AllReachable
      BY DEF Init, PcInv, OnTop, AllReachable, Registered, MainIdle
    <2>2. OksCounted
      <3>1. \A id \in Ids : Answered(id) = {} /\ InFlight(id) = 0 /\ oks[id] = 0
        BY DEF Init, Answered, InFlight, MainIdle
      <3> QED
        BY <3>1, FS_EmptySet DEF OksCounted
    <2> QED
      BY <2>1, <2>2 DEF OkInv
  <1>2. OkInv => EveryOkAnswers
    <2> SUFFICES ASSUME OkInv, extra = 0, conn, main.pc = "idle", \A p \in Calls : ~expired[p],
                        NEW id \in Ids
                 PROVE  Cardinality(Answered(id)) = oks[id]
      BY DEF EveryOkAnswers, Answered
    <2> QED
      BY AnsweredFinite DEF OkInv, Untroubled, OksCounted, InFlight
  <1>3. IInv /\ OkInv /\ [Next]_vars => IInv' /\ OkInv'
    BY InvStep, OkStep
  <1> QED
    BY <1>1, <1>2, <1>3, InvInit, PTL DEF SafetySpec

-----------------------------------------------------------------------------
(* Authentication: calls of Auth that meet at the first challenge *)

AuthSteps == {"idle", "do", "lock", "sign", "publish", "done", "unlock", "after", "returned"}

AuthType ==
    /\ challenge \in Nat /\ challenge <= MaxChallenge
    /\ once \in [done : BOOLEAN, locked : BOOLEAN]
    /\ authed \in BOOLEAN /\ fatal \in BOOLEAN
    /\ auMain \in {"idle", "reset"} /\ (auMain = "reset" => challenge < MaxChallenge)
    /\ auPc \in [AuthCalls -> AuthSteps]
    /\ auFailed \in [AuthCalls -> BOOLEAN]
    /\ auSent \in [0..MaxChallenge -> Nat]

\* A call inside of the function that Once.Do runs, or about to leave it.
InOnce(c) == auPc[c] \in {"sign", "publish", "done", "unlock"}

\* Before the first challenge every call has failed.
NoneYet ==
    challenge = 0 => /\ once = FreshOnce /\ ~authed
                     /\ \A c \in AuthCalls : auPc[c] = "idle" \/ (auPc[c] = "returned" /\ auFailed[c])

\* The mutex of the Once is held by the one call that is inside.
OneInside ==
    /\ \A c, d \in AuthCalls : InOnce(c) /\ InOnce(d) => c = d
    /\ once.locked <=> \E c \in AuthCalls : InOnce(c)

\* The flag divides the calls that are at the AUTH from those that are past it.
DoneDivides ==
    /\ \A c \in AuthCalls : auPc[c] \in {"sign", "publish", "done"} => ~once.done
    /\ \A c \in AuthCalls : auPc[c] \in {"unlock", "after"} => once.done
    /\ \A c \in AuthCalls : auPc[c] = "returned" /\ ~auFailed[c] => once.done
    /\ authed => once.done

\* No AUTH was sent before a call is past "sign".
SentByOne ==
    MaxChallenge >= 1 =>
        /\ auSent[1] <= 1
        /\ auSent[1] # 0 => once.done \/ \E c \in AuthCalls : auPc[c] \in {"publish", "done"}

FirstInv == NoneYet /\ OneInside /\ DoneDivides /\ SentByOne /\ ~fatal

AuthInv == AuthType /\ (FirstChallenge => FirstInv)

LEMMA AuthInvInit == AuthInit => AuthInv
  <1> SUFFICES ASSUME AuthInit PROVE AuthInv
    OBVIOUS
  <1>1. AuthType
    <2>1. auPc \in [AuthCalls -> AuthSteps] /\ auFailed \in [AuthCalls -> BOOLEAN]
      BY DEF AuthInit, AuthSteps
    <2>2. auSent \in [0..MaxChallenge -> Nat]
      BY DEF AuthInit
    <2>3. once \in [done : BOOLEAN, locked : BOOLEAN]
      BY DEF AuthInit, FreshOnce
    <2>4. challenge \in Nat /\ challenge <= MaxChallenge /\ auMain \in {"idle", "reset"} /\ auMain # "reset"
      BY ChallengeAssumption DEF AuthInit
    <2>5. authed \in BOOLEAN /\ fatal \in BOOLEAN
      BY DEF AuthInit
    <2> QED
      BY <2>1, <2>2, <2>3, <2>4, <2>5 DEF AuthType
  <1>2. NoneYet /\ OneInside /\ DoneDivides /\ ~fatal
    BY DEF AuthInit, NoneYet, OneInside, DoneDivides, InOnce, FreshOnce
  <1>3. SentByOne
    BY ChallengeAssumption DEF AuthInit, SentByOne
  <1> QED
    BY <1>1, <1>2, <1>3 DEF AuthInv, FirstInv

LEMMA AuthTypeStep ==
    ASSUME AuthType, [AuthNext]_auVars
    PROVE  AuthType'
  <1> USE ChallengeAssumption DEF AuthType, AuthSteps
  <1>1. CASE UNCHANGED auVars
    BY <1>1 DEF auVars
  <1>2. CASE ChallengeOnce \/ Challenge
    <2>1. UNCHANGED <<authed, auPc, auFailed, auSent, fatal>> /\ once' \in {once, FreshOnce}
      BY <1>2 DEF ChallengeOnce, Challenge
    <2> FreshOnce \in [done : BOOLEAN, locked : BOOLEAN]
      BY DEF FreshOnce
    <2>2. challenge' \in Nat /\ challenge' <= MaxChallenge /\ auMain' \in {"idle", "reset"}
      BY <1>2 DEF ChallengeOnce, Challenge
    <2>3. auMain' = "reset" => challenge' < MaxChallenge
      BY <1>2 DEF ChallengeOnce, Challenge
    <2> QED
      BY <2>1, <2>2, <2>3
  <1>3. ASSUME NEW c \in AuthCalls, Start(c) \/ Do(c) \/ Published(c) \/ Finish(c)
        PROVE  AuthType'
    BY <1>3 DEF Start, Do, Published, Finish, Goto
  <1>4. ASSUME NEW c \in AuthCalls, Sign(c)
        PROVE  AuthType'
    BY <1>4 DEF Sign, Goto
  <1>5. ASSUME NEW c \in AuthCalls, Lock(c) \/ OnceDone(c) \/ OnceUnlock(c)
        PROVE  AuthType'
    BY <1>5 DEF Lock, OnceDone, OnceUnlock, Goto
  <1> HIDE DEF AuthType
  <1> QED
    BY <1>1, <1>2, <1>3, <1>4, <1>5 DEF AuthNext, AuthGoesOn

\* The calls that meet at the first challenge keep to the Once.
LEMMA FirstStep ==
    ASSUME AuthType, FirstChallenge, FirstInv, AuthNext, FirstChallenge'
    PROVE  FirstInv'
  <1> USE ChallengeAssumption DEF AuthType
  <1>1. CASE ChallengeOnce
    <2>1. challenge = 0 /\ UNCHANGED <<challenge, authed, auPc, auFailed, auSent, fatal>> /\ once' = once
      BY <1>1 DEF ChallengeOnce, FirstInv, NoneYet, FirstChallenge
    <2> QED
      BY <2>1 DEF FirstInv, NoneYet, OneInside, DoneDivides, SentByOne, InOnce
  <1>2. CASE Challenge
    BY <1>2 DEF Challenge, FirstInv, NoneYet, OneInside, DoneDivides, SentByOne, InOnce
  <1>3. ASSUME NEW c \in AuthCalls, Start(c) \/ AuthGoesOn(c)
        PROVE  FirstInv'
    <2>1. UNCHANGED <<challenge, auMain>>
      BY <1>3 DEF Start, AuthGoesOn, Do, Lock, Sign, Published, OnceDone, OnceUnlock, Finish
    <2>2. \A d \in AuthCalls : d # c => auPc'[d] = auPc[d] /\ auFailed'[d] = auFailed[d]
      BY <1>3 DEF Start, AuthGoesOn, Do, Lock, Sign, Published, OnceDone, OnceUnlock, Finish, Goto
    <2>3. ~Start(c) => challenge = 1
      BY <1>3 DEF FirstInv, NoneYet, FirstChallenge, AuthGoesOn, Do, Lock, Sign, Published, OnceDone,
                  OnceUnlock, Finish
    <2>4. CASE Start(c)
      <3>1. /\ UNCHANGED <<once, authed, auSent, fatal>> /\ auPc[c] = "idle"
            /\ auFailed'[c] = (~authed /\ challenge = 0)
            /\ auPc'[c] = IF authed \/ challenge = 0 THEN "returned" ELSE "do"
        BY <2>4 DEF Start, Goto
      <3> QED
        BY <2>1, <2>2, <3>1 DEF FirstInv, NoneYet, OneInside, DoneDivides, SentByOne, InOnce
    <2>5. CASE Do(c)
      <3>1. /\ UNCHANGED <<once, authed, auSent, auFailed, fatal>> /\ auPc[c] = "do"
            /\ auPc'[c] = IF once.done THEN "after" ELSE "lock"
        BY <2>5 DEF Do, Goto
      <3> QED
        BY <2>1, <2>2, <2>3, <3>1 DEF FirstInv, NoneYet, OneInside, DoneDivides, SentByOne, InOnce
    <2>6. CASE Lock(c)
      <3>1. /\ UNCHANGED <<authed, auSent, auFailed, fatal>> /\ auPc[c] = "lock"
            /\ once'.locked /\ once'.done = once.done /\ ~once.locked
            /\ auPc'[c] = IF once.done THEN "unlock" ELSE "sign"
        BY <2>6 DEF Lock, Goto
      <3> QED
        BY <2>1, <2>2, <2>3, <2>6, <3>1 DEF Lock, FirstInv, NoneYet, OneInside, DoneDivides, SentByOne, InOnce
    <2>7. CASE Sign(c)
      <3>1. /\ UNCHANGED <<once, authed, auFailed, fatal>> /\ auPc[c] = "sign" /\ auPc'[c] = "publish"
            /\ challenge = 1 /\ auSent'[1] = auSent[1] + 1 /\ MaxChallenge >= 1
        BY <2>3, <2>7 DEF Sign, Goto, Start
      <3>2. auSent[1] = 0
        BY <2>2, <3>1 DEF FirstInv, OneInside, DoneDivides, SentByOne, InOnce
      <3> QED
        BY <2>1, <2>2, <3>1, <3>2 DEF FirstInv, NoneYet, OneInside, DoneDivides, SentByOne, InOnce
    <2>8. CASE Published(c)
      <3>1. /\ UNCHANGED <<once, authed, auSent, fatal>> /\ auPc[c] = "publish" /\ auPc'[c] = "done"
        BY <2>8 DEF Published, Goto
      <3> QED
        BY <2>1, <2>2, <2>3, <2>8, <3>1 DEF FirstInv, NoneYet, OneInside, DoneDivides, SentByOne, InOnce, Start
    <2>9. CASE OnceDone(c)
      <3>1. /\ UNCHANGED <<authed, auSent, auFailed, fatal>> /\ auPc[c] = "done" /\ auPc'[c] = "unlock"
            /\ once'.locked = once.locked /\ once'.done
        BY <2>9 DEF OnceDone, Goto
      <3> QED
        BY <2>1, <2>2, <2>3, <2>9, <3>1 DEF FirstInv, NoneYet, OneInside, DoneDivides, SentByOne, InOnce, Start
    <2>10. CASE OnceUnlock(c)
      <3>1. /\ UNCHANGED <<authed, auSent, auFailed>> /\ auPc[c] = "unlock" /\ auPc'[c] = "after"
            /\ ~once'.locked /\ once'.done = once.done /\ fatal' = ~once.locked
        BY <2>10 DEF OnceUnlock, Goto
      <3> QED
        BY <2>1, <2>2, <2>3, <2>10, <3>1 DEF FirstInv, NoneYet, OneInside, DoneDivides, SentByOne, InOnce, Start
    <2>11. CASE Finish(c)
      <3>1. /\ UNCHANGED <<once, auSent, auFailed, fatal>> /\ auPc[c] = "after" /\ auPc'[c] = "returned"
            /\ authed' = (authed \/ ~auFailed[c])
        BY <2>11 DEF Finish, Goto
      <3> QED
        BY <2>1, <2>2, <2>3, <2>11, <3>1 DEF FirstInv, NoneYet, OneInside, DoneDivides, SentByOne, InOnce, Start
    <2> QED
      BY <1>3, <2>4, <2>5, <2>6, <2>7, <2>8, <2>9, <2>10, <2>11 DEF AuthGoesOn
  <1> QED
    BY <1>1, <1>2, <1>3 DEF AuthNext

LEMMA AuthInvStep ==
    ASSUME AuthInv, [AuthNext]_auVars
    PROVE  AuthInv'
  <1>1. AuthType'
    BY AuthTypeStep DEF AuthInv
  <1>2. FirstChallenge' => FirstChallenge
    BY DEF AuthInv, AuthType, auVars, AuthNext, AuthGoesOn, ChallengeOnce, Challenge, Start, Do, Lock,
           Sign, Published, OnceDone, OnceUnlock, Finish, FirstChallenge
  <1>3. ASSUME UNCHANGED auVars, FirstChallenge'
        PROVE  FirstInv'
    BY <1>2, <1>3 DEF auVars, AuthInv, FirstInv, NoneYet, OneInside, DoneDivides, SentByOne, InOnce
  <1> QED
    BY <1>1, <1>2, <1>3, FirstStep DEF AuthInv

\* However many calls of Auth meet at the first challenge, the relay gets one
\* AUTH, the mutex of the Once is unlocked only by the call that holds it, and
\* no call returns nil while the AUTH is on its way.
THEOREM AuthIsOnce == AuthInit /\ [][AuthNext]_auVars => []AuthOnce
  <1>1. AuthInv => AuthOnce
    <2> SUFFICES ASSUME AuthInv, FirstChallenge PROVE AuthOnce
      BY DEF AuthOnce, OneAuthPerChallenge, NilAfterAnswer
    <2>1. OneAuthPerChallenge
      BY DEF AuthInv, AuthType, FirstInv, SentByOne, OneAuthPerChallenge
    <2>2. NilAfterAnswer
      BY DEF AuthInv, FirstInv, DoneDivides, NilAfterAnswer
    <2> QED
      BY <2>1, <2>2 DEF AuthOnce
  <1> QED
    BY <1>1, AuthInvInit, AuthInvStep, PTL

(***************************************************************************)
(* EnsureRelay.                                                            *)
(***************************************************************************)
Mutexes == {LockOf[u] : u \in Urls}

Conn == [url : Urls, up : BOOLEAN, cleaner : {"none", "waits", "deletes", "ended"}]
ConnTypes == \E k \in Nat : plConns \in [1..k -> Conn]
CallType == [pc : {"idle", "load", "look", "dial", "storeNil", "store"},
              url : Urls \cup {"none"}, found : Nat, got : Nat]

PoolTypes ==
    /\ plMap \in [Urls -> Nat] /\ ConnTypes
    /\ plLocks \in [Mutexes -> EnsureCalls \cup {"free"}]
    /\ plCall \in [EnsureCalls -> CallType]

\* A call between its lock and its unlock holds the mutex of its URL.
HoldsLock ==
    \A c \in EnsureCalls : plCall[c].pc # "idle" =>
        plCall[c].url \in Urls /\ plLocks[LockOf[plCall[c].url]] = c

\* A call that looks at what it loaded has loaded the live connection, if there is one.
LookInv ==
    \A c \in EnsureCalls : plCall[c].pc = "look" /\ plCall[c].url \notin plRaced =>
        \A n \in Live(plCall[c].url) : plCall[c].found = n

\* A call dials when there is none.
DialInv ==
    \A c \in EnsureCalls : plCall[c].pc = "dial" /\ plCall[c].url \notin plRaced => Live(plCall[c].url) = {}

\* A call that is about to store its connection has the only one.
StoreInv ==
    \A c \in EnsureCalls : plCall[c].pc = "store" =>
        /\ plCall[c].got \in DOMAIN plConns /\ plConns[plCall[c].got].url = plCall[c].url
        /\ plCall[c].url \notin plRaced => \A n \in Live(plCall[c].url) : n = plCall[c].got

\* A live connection is in the map or about to be.
KnownInv ==
    \A u \in Urls \ plRaced : \A n \in Live(u) :
        plMap[u] = n \/ \E c \in EnsureCalls : plCall[c].pc = "store" /\ plCall[c].got = n

PoolInv == PoolTypes /\ HoldsLock /\ LookInv /\ DialInv /\ StoreInv /\ KnownInv

-----------------------------------------------------------------------------

\* Two calls do not work on one URL at a time.
LEMMA OneHolder ==
    ASSUME PoolInv, NEW c \in EnsureCalls, NEW d \in EnsureCalls,
           plCall[c].pc # "idle", plCall[d].pc # "idle", plCall[c].url = plCall[d].url
    PROVE  c = d
  BY DEF PoolInv, HoldsLock

\* A connection that is about to be stored belongs to the URL of its call.
LEMMA StoredUrl ==
    ASSUME PoolInv, NEW u \in Urls, NEW n \in Live(u), NEW c \in EnsureCalls,
           plCall[c].pc = "store", plCall[c].got = n
    PROVE  plCall[c].url = u
  BY DEF PoolInv, StoreInv, Live

\* What is live is unique.
LEMMA LiveUnique ==
    ASSUME PoolInv, NEW u \in Urls \ plRaced, NEW n \in Live(u), NEW m \in Live(u)
    PROVE  n = m
  <1>1. CASE plMap[u] = n /\ plMap[u] = m
    BY <1>1
  <1>2. ASSUME NEW c \in EnsureCalls, plCall[c].pc = "store", plCall[c].got \in {n, m}
        PROVE  n = m
    <2>1. plCall[c].url = u
      BY <1>2, StoredUrl
    <2> QED
      BY <1>2, <2>1 DEF PoolInv, StoreInv
  <1> QED
    BY <1>1, <1>2 DEF PoolInv, KnownInv

\* A step that leaves the map, the connections, the calls and the locks alone.
LEMMA Rests ==
    ASSUME PoolInv, UNCHANGED <<plMap, plConns, plLocks, plCall, plRaced>>
    PROVE  PoolInv'
  <1>1. \A u : Live(u)' = Live(u)
    BY DEF Live
  <1>2. PoolTypes' /\ HoldsLock'
    BY DEF PoolInv, PoolTypes, ConnTypes, HoldsLock
  <1>3. LookInv' /\ DialInv' /\ StoreInv'
    BY <1>1 DEF PoolInv, LookInv, DialInv, StoreInv
  <1>4. KnownInv'
    BY <1>1 DEF PoolInv, KnownInv
  <1> QED
    BY <1>2, <1>3, <1>4 DEF PoolInv

\* The invariant holds at first.
LEMMA PoolStarts == PoolInit => PoolInv
  <1> SUFFICES ASSUME PoolInit PROVE PoolInv
    OBVIOUS
  <1>1. PoolTypes
    <2>1. plConns \in [1..0 -> Conn]
      BY DEF PoolInit
    <2>2. ConnTypes
      BY <2>1 DEF ConnTypes
    <2>3. IdleCall \in CallType
      BY DEF IdleCall, CallType, Absent
    <2> QED
      BY <2>2, <2>3 DEF PoolInit, PoolTypes, Absent, Mutexes
  <1>2. \A u : Live(u) = {}
    BY DEF PoolInit, Live
  <1>3. \A c \in EnsureCalls : plCall[c].pc = "idle"
    BY DEF PoolInit, IdleCall
  <1> QED
    BY <1>1, <1>2, <1>3 DEF PoolInv, HoldsLock, LookInv, DialInv, StoreInv, KnownInv

\* A call that takes the mutex of its URL.
LEMMA LockTaken ==
    ASSUME PoolInv, NEW c \in EnsureCalls, NEW url \in Urls, EnsureLock(c, url)
    PROVE  PoolInv'
  <1> DEFINE r == [IdleCall EXCEPT !.pc = "load", !.url = url]
  <1> USE PoolBounds DEF PoolInv
  <1>r. r \in CallType /\ r.pc = "load" /\ r.url = url
    <2>1. IdleCall \in CallType
      BY DEF IdleCall, CallType, Absent
    <2> QED
      BY <2>1 DEF CallType
  <1>0. /\ plCall' = [plCall EXCEPT ![c] = r] /\ r \in CallType
        /\ plLocks' = [plLocks EXCEPT ![LockOf[url]] = c] /\ plLocks[LockOf[url]] = "free"
        /\ plCall[c].pc = "idle" /\ UNCHANGED <<plMap, plConns, plRaced>>
    BY <1>r DEF EnsureLock, SetCall
  <1> HIDE DEF r
  <1>a. plCall'[c] = r /\ \A d \in EnsureCalls \ {c} : plCall'[d] = plCall[d]
    BY <1>0 DEF PoolTypes
  <1>1. PoolTypes'
    <2>1. ConnTypes'
      BY <1>0 DEF PoolTypes, ConnTypes
    <2> QED
      BY <1>0, <2>1 DEF PoolTypes
  <1>2. HoldsLock'
    <2> SUFFICES ASSUME NEW d \in EnsureCalls, plCall'[d].pc # "idle"
                 PROVE  plCall'[d].url \in Urls /\ plLocks'[LockOf[plCall'[d].url]] = d
      BY DEF HoldsLock
    <2>1. CASE d = c
      BY <2>1, <1>0, <1>a, <1>r DEF PoolTypes, Mutexes
    <2>2. CASE d # c
      <3>1. plCall[d].url \in Urls /\ plLocks[LockOf[plCall[d].url]] = d
        BY <2>2, <1>a DEF HoldsLock
      <3>2. LockOf[plCall[d].url] # LockOf[url]
        BY <3>1, <1>0
      <3> QED
        BY <3>1, <3>2, <2>2, <1>a, <1>0 DEF PoolTypes
    <2> QED
      BY <2>1, <2>2
  <1>3. \A u : Live(u)' = Live(u)
    BY <1>0 DEF Live
  <1>4. \A d \in EnsureCalls : plCall'[d].pc \in {"look", "dial", "store"} => d # c /\ plCall'[d] = plCall[d]
    BY <1>a, <1>r
  <1>5. LookInv' /\ DialInv'
    BY <1>0, <1>3, <1>4 DEF LookInv, DialInv
  <1>6. StoreInv'
    <2> SUFFICES ASSUME NEW d \in EnsureCalls, plCall'[d].pc = "store"
                 PROVE  /\ plCall'[d].got \in DOMAIN plConns' /\ plConns'[plCall'[d].got].url = plCall'[d].url
                        /\ plCall'[d].url \notin plRaced' => \A n \in Live(plCall[d].url)' : n = plCall'[d].got
      BY DEF StoreInv
    <2>1. plCall'[d] = plCall[d]
      BY <1>4
    <2>2. /\ plCall[d].got \in DOMAIN plConns /\ plConns[plCall[d].got].url = plCall[d].url
          /\ plCall[d].url \notin plRaced => \A n \in Live(plCall[d].url) : n = plCall[d].got
      BY <2>1 DEF StoreInv
    <2> QED
      BY <1>0, <1>3, <2>1, <2>2
  <1>7. KnownInv'
    <2>1. \A d \in EnsureCalls : plCall[d].pc = "store" => plCall'[d] = plCall[d]
      BY <1>0, <1>a
    <2> QED
      BY <1>0, <1>3, <2>1 DEF KnownInv
  <1> QED
    BY <1>1, <1>2, <1>5, <1>6, <1>7

\* A call that goes on under its mutex, or gives it back, leaves the mutexes of others alone.
LEMMA LocksKept ==
    ASSUME PoolInv, NEW c \in EnsureCalls, plCall[c].pc # "idle",
           NEW r \in CallType, plCall' = [plCall EXCEPT ![c] = r],
           \/ r.pc = "idle" /\ Unlock(c)
           \/ r.url = plCall[c].url /\ UNCHANGED plLocks
    PROVE  HoldsLock' /\ plLocks' \in [Mutexes -> EnsureCalls \cup {"free"}]
                      /\ plCall' \in [EnsureCalls -> CallType]
  <1> USE DEF PoolInv
  <1>1. plCall' \in [EnsureCalls -> CallType] /\ plLocks' \in [Mutexes -> EnsureCalls \cup {"free"}]
    BY DEF PoolTypes, Unlock
  <1>2. ASSUME NEW d \in EnsureCalls, plCall'[d].pc # "idle"
        PROVE  plCall'[d].url \in Urls /\ plLocks'[LockOf[plCall'[d].url]] = d
    <2>1. CASE d = c
      <3>1. plCall'[d] = r
        BY <2>1 DEF PoolTypes
      <3>2. r.url = plCall[c].url /\ UNCHANGED plLocks
        BY <3>1, <1>2
      <3> QED
        BY <2>1, <3>1, <3>2 DEF HoldsLock
    <2>2. CASE d # c
      <3>1. plCall'[d] = plCall[d]
        BY <2>2 DEF PoolTypes
      <3>2. plCall[d].url \in Urls /\ plLocks[LockOf[plCall[d].url]] = d
        BY <3>1, <1>2 DEF HoldsLock
      <3>3. LockOf[plCall[d].url] # LockOf[plCall[c].url]
        BY <3>2, <2>2 DEF HoldsLock
      <3>4. plLocks'[LockOf[plCall[d].url]] = plLocks[LockOf[plCall[d].url]]
        BY <3>2, <3>3 DEF PoolTypes, Unlock, Mutexes
      <3> QED
        BY <3>1, <3>2, <3>4
    <2> QED
      BY <2>1, <2>2
  <1> QED
    BY <1>1, <1>2 DEF HoldsLock

\* A step of one call that touches neither the map nor a connection.
LEMMA CallMoves ==
    ASSUME PoolInv, NEW c \in EnsureCalls, plCall[c].pc \notin {"idle", "store"},
           NEW r \in CallType, plCall' = [plCall EXCEPT ![c] = r], r.pc # "store",
           \/ r.pc = "idle" /\ Unlock(c)
           \/ r.url = plCall[c].url /\ UNCHANGED plLocks,
           UNCHANGED <<plMap, plConns, plRaced>>,
           r.pc = "look" /\ r.url \notin plRaced => \A n \in Live(r.url) : r.found = n,
           r.pc = "dial" /\ r.url \notin plRaced => Live(r.url) = {}
    PROVE  PoolInv'
  <1>1. HoldsLock' /\ plLocks' \in [Mutexes -> EnsureCalls \cup {"free"}]
                   /\ plCall' \in [EnsureCalls -> CallType]
    BY LocksKept
  <1> USE DEF PoolInv
  <1>2. PoolTypes'
    <2>1. ConnTypes'
      BY DEF PoolTypes, ConnTypes
    <2> QED
      BY <1>1, <2>1 DEF PoolTypes
  <1>3. \A u : Live(u)' = Live(u)
    BY DEF Live
  <1>a. plCall'[c] = r /\ \A d \in EnsureCalls \ {c} : plCall'[d] = plCall[d]
    BY DEF PoolTypes
  <1>4. LookInv'
    BY <1>3, <1>a DEF LookInv
  <1>7. DialInv'
    BY <1>3, <1>a DEF DialInv
  <1>5. StoreInv'
    BY <1>3, <1>a DEF StoreInv
  <1>6. KnownInv'
    BY <1>3, <1>a DEF KnownInv
  <1> QED
    BY <1>1, <1>2, <1>4, <1>5, <1>6, <1>7

\* Connections end, and entries of the map go away where nothing is live or where it is noted.
LEMMA EntriesGo ==
    ASSUME PoolInv, ConnTypes', plMap' \in [Urls -> Nat], UNCHANGED <<plLocks, plCall>>,
           DOMAIN plConns' = DOMAIN plConns, plRaced \subseteq plRaced',
           \A n \in DOMAIN plConns : plConns'[n].url = plConns[n].url,
           \A u \in Urls : Live(u)' \subseteq Live(u),
           \A u \in Urls \ plRaced' : \A n \in Live(u)' : plMap[u] = n => plMap'[u] = n
    PROVE  PoolInv'
  <1> USE DEF PoolInv
  <1>1. PoolTypes' /\ HoldsLock'
    BY DEF PoolTypes, HoldsLock
  <1>2. \A c \in EnsureCalls : plCall[c].pc # "idle" => plCall[c].url \in Urls
    BY DEF HoldsLock
  <1>3. LookInv'
    BY <1>2 DEF LookInv
  <1>4. DialInv'
    BY <1>2 DEF DialInv
  <1>5. StoreInv'
    BY <1>2 DEF StoreInv
  <1>6. KnownInv'
    BY DEF KnownInv
  <1> QED
    BY <1>1, <1>3, <1>4, <1>5, <1>6

\* An entry that is taken away from a live connection is noted.
LEMMA TakesNotes ==
    ASSUME NEW url, NEW u \in Urls \ plRaced', NEW n \in Live(u), plMap[u] = n, Takes(url)
    PROVE  u # url /\ plRaced \subseteq plRaced'
  BY DEF Takes, Up, Live

\* The end of a connection, and the goroutine that waits for it.
LEMMA ConnSteps ==
    ASSUME PoolInv, NEW n \in DOMAIN plConns, ConnDies(n) \/ CleanerLooks(n) \/ CleanerDeletes(n)
    PROVE  PoolInv'
  <1> USE DEF PoolInv
  <1>1. PICK k \in Nat : plConns \in [1..k -> Conn]
    BY DEF PoolTypes, ConnTypes
  <1>2. PICK link \in Conn : /\ plConns' = [plConns EXCEPT ![n] = link]
                             /\ link.url = plConns[n].url /\ (link.up => plConns[n].up)
    <2>0. plConns[n] \in Conn
      BY <1>1
    <2>1. CASE ConnDies(n)
      <3> DEFINE link == [plConns[n] EXCEPT !.up = FALSE]
      <3>1. link \in Conn /\ link.url = plConns[n].url /\ ~link.up
        BY <2>0 DEF Conn
      <3>2. plConns' = [plConns EXCEPT ![n] = link]
        BY <2>1 DEF ConnDies
      <3> QED
        BY <3>1, <3>2
    <2>2. ASSUME NEW s \in {"deletes", "ended"}, plConns' = [plConns EXCEPT ![n].cleaner = s]
          PROVE  \E link \in Conn : /\ plConns' = [plConns EXCEPT ![n] = link]
                                    /\ link.url = plConns[n].url /\ (link.up => plConns[n].up)
      <3> DEFINE link == [plConns[n] EXCEPT !.cleaner = s]
      <3>1. link \in Conn /\ link.url = plConns[n].url /\ link.up = plConns[n].up
        BY <2>0 DEF Conn
      <3>2. plConns' = [plConns EXCEPT ![n] = link]
        BY <2>2
      <3> QED
        BY <3>1, <3>2
    <2> QED
      BY <2>1, <2>2 DEF CleanerLooks, CleanerDeletes
  <1>3. /\ ConnTypes' /\ DOMAIN plConns' = DOMAIN plConns
        /\ \A m \in DOMAIN plConns : plConns'[m].url = plConns[m].url
    BY <1>1, <1>2 DEF ConnTypes
  <1>4. \A u \in Urls : Live(u)' \subseteq Live(u)
    BY <1>1, <1>2 DEF Live
  <1>5. CASE UNCHANGED <<plMap, plLocks, plCall, plRaced>>
    BY <1>3, <1>4, <1>5, EntriesGo DEF PoolTypes
  <1>6. CASE CleanerDeletes(n)
    <2> DEFINE url == plConns[n].url
    <2>1. plMap' = [plMap EXCEPT ![url] = Absent] /\ Takes(url) /\ UNCHANGED <<plLocks, plCall>>
      BY <1>6 DEF CleanerDeletes
    <2>2. plMap' \in [Urls -> Nat]
      BY <2>1 DEF PoolTypes, Absent
    <2>3. plRaced \subseteq plRaced'
      BY <2>1 DEF Takes
    <2>4. ASSUME NEW u \in Urls \ plRaced', NEW m \in Live(u)', plMap[u] = m PROVE plMap'[u] = m
      <3>1. m \in Live(u)
        BY <1>4, <2>4
      <3>2. u # url
        BY <3>1, <2>1, <2>4, TakesNotes
      <3> QED
        BY <3>2, <2>1, <2>4 DEF PoolTypes
    <2> QED
      BY <1>3, <1>4, <2>1, <2>2, <2>3, <2>4, EntriesGo
  <1> QED
    BY <1>5, <1>6 DEF ConnDies, CleanerLooks

\* AddToPenaltyBox overwrites the entry of a URL whose mutex it does not have.
LEMMA ManualMarks ==
    ASSUME PoolInv, ManualMark
    PROVE  PoolInv'
  <1> DEFINE url == plManual.url
  <1> USE DEF PoolInv
  <1>1. /\ plMap' = [plMap EXCEPT ![url] = Nil] /\ Takes(url)
        /\ UNCHANGED <<plConns, plLocks, plCall>>
    BY DEF ManualMark
  <1>2. plMap' \in [Urls -> Nat]
    <2>1. Nil \in Nat
      BY PoolBounds DEF Nil
    <2> QED
      BY <1>1, <2>1 DEF PoolTypes
  <1>3. plRaced \subseteq plRaced'
    BY <1>1 DEF Takes
  <1>4. \A u : Live(u)' = Live(u)
    BY <1>1 DEF Live
  <1>5. ASSUME NEW u \in Urls \ plRaced', NEW m \in Live(u)', plMap[u] = m PROVE plMap'[u] = m
    <2>1. u # url
      BY <1>1, <1>4, <1>5, TakesNotes
    <2> QED
      BY <2>1, <1>1, <1>5 DEF PoolTypes
  <1>6. ConnTypes'
    BY <1>1 DEF PoolTypes, ConnTypes
  <1> QED
    BY <1>1, <1>2, <1>3, <1>4, <1>5, <1>6, EntriesGo

-----------------------------------------------------------------------------
(* The steps of EnsureRelay after the mutex is taken *)

\* What is loaded from the map is the live connection, if there is one.
LEMMA Loads ==
    ASSUME PoolInv, NEW c \in EnsureCalls, EnsureLoad(c)
    PROVE  PoolInv'
  <1> DEFINE r == [plCall[c] EXCEPT !.found = plMap[plCall[c].url], !.pc = "look"]
  <1> USE DEF PoolInv
  <1>0. plCall[c].pc = "load" /\ plCall' = [plCall EXCEPT ![c] = r]
        /\ UNCHANGED <<plMap, plConns, plLocks, plRaced>>
    BY DEF EnsureLoad, SetCall
  <1>1. plCall[c] \in CallType /\ plCall[c].url \in Urls /\ plMap[plCall[c].url] \in Nat
    BY <1>0 DEF PoolTypes, HoldsLock
  <1>2. r \in CallType /\ r.pc = "look" /\ r.url = plCall[c].url /\ r.found = plMap[plCall[c].url]
    BY <1>1 DEF CallType
  <1> HIDE DEF r
  <1>3. ASSUME r.url \notin plRaced, NEW n \in Live(r.url) PROVE r.found = n
    <2>1. plMap[r.url] = n \/ \E d \in EnsureCalls : plCall[d].pc = "store" /\ plCall[d].got = n
      BY <1>1, <1>2, <1>3 DEF KnownInv
    <2>2. ASSUME NEW d \in EnsureCalls, plCall[d].pc = "store", plCall[d].got = n PROVE FALSE
      <3>1. plCall[d].url = plCall[c].url
        BY <1>1, <1>2, <1>3, <2>2, StoredUrl
      <3>2. d = c
        BY <3>1, <1>0, <2>2, OneHolder
      <3> QED
        BY <3>2, <1>0, <2>2
    <2> QED
      BY <1>2, <2>1, <2>2
  <1> QED
    BY <1>0, <1>2, <1>3, CallMoves

\* A call goes on to dial when what it loaded is not live.
LEMMA Looks ==
    ASSUME PoolInv, NEW c \in EnsureCalls, EnsureLook(c)
    PROVE  PoolInv'
  <1> DEFINE s == [plCall[c] EXCEPT !.pc = "dial"]
  <1> USE DEF PoolInv
  <1>0. plCall[c].pc = "look" /\ UNCHANGED <<plMap, plConns, plRaced>>
    BY DEF EnsureLook
  <1>1. plCall[c] \in CallType /\ plCall[c].url \in Urls
    BY <1>0 DEF PoolTypes, HoldsLock
  <1>2. IdleCall \in CallType /\ IdleCall.pc = "idle"
    BY DEF IdleCall, CallType, Absent
  <1>3. s \in CallType /\ s.pc = "dial" /\ s.url = plCall[c].url
    BY <1>1 DEF CallType
  <1>4. CASE plCall' = [plCall EXCEPT ![c] = IdleCall] /\ Unlock(c)
    BY <1>0, <1>2, <1>4, CallMoves
  <1>5. CASE /\ plCall' = [plCall EXCEPT ![c] = s] /\ UNCHANGED plLocks
             /\ ~(plCall[c].found \in DOMAIN plConns /\ Up(plCall[c].found))
    <2>1. s.url \notin plRaced => Live(s.url) = {}
      BY <1>0, <1>3, <1>5 DEF LookInv, Live, Up
    <2> HIDE DEF s
    <2> QED
      BY <1>0, <1>3, <1>5, <2>1, CallMoves
  <1> QED
    BY <1>4, <1>5 DEF EnsureLook, SetCall

\* A dial that fails is noted in the box or not, and changes no connection.
LEMMA DialsFail ==
    ASSUME PoolInv, NEW c \in EnsureCalls, DialFails(c)
    PROVE  PoolInv'
  <1> DEFINE s == [plCall[c] EXCEPT !.pc = "storeNil"]
  <1> USE DEF PoolInv
  <1>0. plCall[c].pc = "dial" /\ UNCHANGED <<plMap, plConns, plRaced>>
    BY DEF DialFails
  <1>1. plCall[c] \in CallType
    BY DEF PoolTypes
  <1>2. IdleCall \in CallType /\ IdleCall.pc = "idle"
    BY DEF IdleCall, CallType, Absent
  <1>3. s \in CallType /\ s.pc = "storeNil" /\ s.url = plCall[c].url
    BY <1>1 DEF CallType
  <1>4. CASE plCall' = [plCall EXCEPT ![c] = IdleCall] /\ Unlock(c)
    BY <1>0, <1>2, <1>4, CallMoves
  <1>5. CASE plCall' = [plCall EXCEPT ![c] = s] /\ UNCHANGED plLocks
    <2> HIDE DEF s
    <2> QED
      BY <1>0, <1>3, <1>5, CallMoves
  <1> QED
    BY <1>4, <1>5 DEF DialFails, SetCall

\* A dial that succeeds is the only live connection of its URL.
LEMMA DialsWell ==
    ASSUME PoolInv, NEW c \in EnsureCalls, DialOk(c)
    PROVE  PoolInv'
  <1> DEFINE n == Cardinality(DOMAIN plConns) + 1
             url == plCall[c].url
             new == [url |-> url, up |-> TRUE, cleaner |-> "none"]
             r == [plCall[c] EXCEPT !.pc = "store", !.got = n]
  <1> USE DEF PoolInv
  <1>0. /\ plCall[c].pc = "dial" /\ plCall' = [plCall EXCEPT ![c] = r]
        /\ plConns' = [j \in 1..n |-> IF j = n THEN new ELSE plConns[j]]
        /\ UNCHANGED <<plMap, plLocks, plRaced>>
    BY DEF DialOk, SetCall
  <1>1. PICK k \in Nat : plConns \in [1..k -> Conn]
    BY DEF PoolTypes, ConnTypes
  <1>2. n = k + 1
    <2>1. DOMAIN plConns = 1..k
      BY <1>1
    <2>2. Cardinality(1..k) = k
      BY <1>1, FS_Interval
    <2> QED
      BY <2>1, <2>2
  <1>3. plCall[c] \in CallType /\ url \in Urls
    BY <1>0 DEF PoolTypes, HoldsLock
  <1>4. new \in Conn /\ new.url = url
    BY <1>3 DEF Conn
  <1>5. r \in CallType /\ r.pc = "store" /\ r.url = url /\ r.got = n
    <2>1. n \in Nat
      BY <1>2
    <2> HIDE DEF n
    <2> QED
      BY <1>3, <2>1 DEF CallType
  <1> HIDE DEF n, new, r
  <1>6. /\ plConns' \in [1..n -> Conn] /\ plConns'[n] = new
        /\ \A j \in DOMAIN plConns : j \in DOMAIN plConns' /\ plConns'[j] = plConns[j]
        /\ DOMAIN plConns' = DOMAIN plConns \cup {n}
    <2>1. 1..n = 1..k \cup {n} /\ n \in 1..n /\ n \notin 1..k
      BY <1>2
    <2> QED
      BY <1>0, <1>1, <1>4, <2>1
  <1>7. \A u : u # url => Live(u)' = Live(u)
    BY <1>4, <1>6 DEF Live
  <1>8. \A u : \A m \in Live(u)' : m = n \/ m \in Live(u)
    BY <1>6 DEF Live
  <1>9. url \notin plRaced => Live(url) = {}
    BY <1>0 DEF DialInv
  <1>10. HoldsLock' /\ PoolTypes'
    <2>1. HoldsLock' /\ plLocks' \in [Mutexes -> EnsureCalls \cup {"free"}]
                     /\ plCall' \in [EnsureCalls -> CallType]
      BY <1>0, <1>5, LocksKept
    <2>2. n \in Nat
      BY <1>2
    <2>3. ConnTypes'
      BY <1>6, <2>2 DEF ConnTypes
    <2> QED
      BY <1>0, <2>1, <2>3 DEF PoolTypes
  <1>11. plCall'[c] = r /\ \A d \in EnsureCalls \ {c} : plCall'[d] = plCall[d]
    BY <1>0 DEF PoolTypes
  <1>12. \A d \in EnsureCalls : plCall'[d].pc \in {"look", "dial", "store"} /\ d # c =>
            plCall'[d] = plCall[d] /\ Live(plCall[d].url)' = Live(plCall[d].url)
    <2> SUFFICES ASSUME NEW d \in EnsureCalls, plCall'[d].pc \in {"look", "dial", "store"}, d # c
                 PROVE  plCall'[d] = plCall[d] /\ Live(plCall[d].url)' = Live(plCall[d].url)
      OBVIOUS
    <2>1. plCall'[d] = plCall[d] /\ plCall[d].pc # "idle"
      BY <1>11
    <2>2. plCall[d].url # url
      BY <2>1, <1>0, OneHolder
    <2> QED
      BY <2>1, <2>2, <1>7
  <1>13. LookInv' /\ DialInv'
    BY <1>0, <1>5, <1>11, <1>12 DEF LookInv, DialInv
  <1>14. StoreInv'
    <2> SUFFICES ASSUME NEW d \in EnsureCalls, plCall'[d].pc = "store"
                 PROVE  /\ plCall'[d].got \in DOMAIN plConns' /\ plConns'[plCall'[d].got].url = plCall'[d].url
                        /\ plCall'[d].url \notin plRaced' => \A m \in Live(plCall[d].url)' : m = plCall'[d].got
      <3>1. \A d \in EnsureCalls : plCall'[d].url = plCall[d].url \/ plCall'[d].pc # "store"
        BY <1>5, <1>11
      <3> QED
        BY <3>1 DEF StoreInv
    <2>1. CASE d = c
      BY <2>1, <1>0, <1>4, <1>5, <1>6, <1>8, <1>9, <1>11
    <2>2. CASE d # c
      <3>1. plCall'[d] = plCall[d] /\ Live(plCall[d].url)' = Live(plCall[d].url)
        BY <2>2, <1>12
      <3>2. /\ plCall[d].got \in DOMAIN plConns /\ plConns[plCall[d].got].url = plCall[d].url
            /\ plCall[d].url \notin plRaced => \A m \in Live(plCall[d].url) : m = plCall[d].got
        BY <3>1 DEF StoreInv
      <3> QED
        BY <3>1, <3>2, <1>0, <1>6
    <2> QED
      BY <2>1, <2>2
  <1>15. KnownInv'
    <2> SUFFICES ASSUME NEW u \in Urls \ plRaced', NEW m \in Live(u)'
                 PROVE  plMap'[u] = m \/ \E d \in EnsureCalls : plCall'[d].pc = "store" /\ plCall'[d].got = m
      BY DEF KnownInv
    <2>1. CASE u = url
      BY <2>1, <1>0, <1>5, <1>8, <1>9, <1>11
    <2>2. CASE u # url
      <3>1. \A d \in EnsureCalls : plCall[d].pc = "store" => plCall'[d] = plCall[d]
        BY <1>0, <1>11
      <3> QED
        BY <2>2, <1>0, <1>7, <3>1 DEF KnownInv
    <2> QED
      BY <2>1, <2>2
  <1> QED
    BY <1>10, <1>13, <1>14, <1>15

\* A call that ends writes the entry of its URL and gives the mutex back.
LEMMA CallEnds ==
    ASSUME PoolInv, NEW c \in EnsureCalls, plCall[c].pc # "idle",
           plCall' = [plCall EXCEPT ![c] = IdleCall], Unlock(c),
           ConnTypes', DOMAIN plConns' = DOMAIN plConns,
           \A n \in DOMAIN plConns : plConns'[n].url = plConns[n].url,
           \A u : Live(u)' = Live(u), plRaced \subseteq plRaced', plMap' \in [Urls -> Nat],
           \A u \in Urls \ plRaced' : \A n \in Live(u) :
               plMap[u] = n \/ (plCall[c].pc = "store" /\ plCall[c].got = n) => plMap'[u] = n
    PROVE  PoolInv'
  <1> USE DEF PoolInv
  <1>1. IdleCall \in CallType /\ IdleCall.pc = "idle"
    BY DEF IdleCall, CallType, Absent
  <1>2. HoldsLock' /\ PoolTypes'
    <2>1. HoldsLock' /\ plLocks' \in [Mutexes -> EnsureCalls \cup {"free"}]
                     /\ plCall' \in [EnsureCalls -> CallType]
      BY <1>1, LocksKept
    <2> QED
      BY <2>1 DEF PoolTypes
  <1>3. plCall'[c].pc = "idle" /\ \A d \in EnsureCalls \ {c} : plCall'[d] = plCall[d]
    BY <1>1 DEF PoolTypes
  <1>4. \A d \in EnsureCalls : plCall'[d].pc # "idle" => plCall'[d] = plCall[d] /\ plCall[d].url \in Urls
    BY <1>3 DEF HoldsLock
  <1>5. LookInv'
    <2> SUFFICES ASSUME NEW d \in EnsureCalls, (plCall[d].pc = "look")', (plCall[d].url \notin plRaced)'
                 PROVE  (\A n \in Live(plCall[d].url) : plCall[d].found = n)'
      BY DEF LookInv
    <2>1. plCall'[d] = plCall[d]
      BY <1>4
    <2>2. \A n \in Live(plCall[d].url) : plCall[d].found = n
      BY <2>1 DEF LookInv
    <2> QED
      BY <2>1, <2>2
  <1>6. DialInv'
    <2> SUFFICES ASSUME NEW d \in EnsureCalls, (plCall[d].pc = "dial")', (plCall[d].url \notin plRaced)'
                 PROVE  (Live(plCall[d].url) = {})'
      BY DEF DialInv
    <2>1. plCall'[d] = plCall[d]
      BY <1>4
    <2>2. Live(plCall[d].url) = {}
      BY <2>1 DEF DialInv
    <2> QED
      BY <2>1, <2>2
  <1>7. StoreInv'
    <2> SUFFICES ASSUME NEW d \in EnsureCalls, (plCall[d].pc = "store")'
                 PROVE  /\ (plCall[d].got \in DOMAIN plConns)'
                        /\ (plConns[plCall[d].got].url = plCall[d].url)'
                        /\ (plCall[d].url \notin plRaced => \A n \in Live(plCall[d].url) : n = plCall[d].got)'
      BY DEF StoreInv
    <2>1. plCall'[d] = plCall[d]
      BY <1>4
    <2>2. /\ plCall[d].got \in DOMAIN plConns /\ plConns[plCall[d].got].url = plCall[d].url
          /\ plCall[d].url \notin plRaced => \A n \in Live(plCall[d].url) : n = plCall[d].got
      BY <2>1 DEF StoreInv
    <2> QED
      BY <2>1, <2>2
  <1>8. KnownInv'
    <2> SUFFICES ASSUME NEW u \in Urls \ plRaced', NEW n \in Live(u)
                 PROVE  plMap'[u] = n \/ \E d \in EnsureCalls : plCall'[d].pc = "store" /\ plCall'[d].got = n
      BY DEF KnownInv
    <2>1. plMap[u] = n \/ \E d \in EnsureCalls : plCall[d].pc = "store" /\ plCall[d].got = n
      BY DEF KnownInv
    <2> QED
      BY <2>1, <1>3
  <1> QED
    BY <1>2, <1>5, <1>6, <1>7, <1>8

\* A failed call stores nil: nothing was live, or it is noted.
LEMMA StoresNil ==
    ASSUME PoolInv, NEW c \in EnsureCalls, StoreNil(c)
    PROVE  PoolInv'
  <1> DEFINE url == plCall[c].url
  <1> USE DEF PoolInv
  <1>1. /\ plMap' = [plMap EXCEPT ![url] = Nil] /\ Takes(url) /\ plCall[c].pc = "storeNil"
        /\ plCall' = [plCall EXCEPT ![c] = IdleCall] /\ Unlock(c) /\ UNCHANGED plConns
    BY DEF StoreNil, SetCall
  <1>2. plMap' \in [Urls -> Nat]
    <2>1. Nil \in Nat
      BY PoolBounds DEF Nil
    <2> QED
      BY <1>1, <2>1 DEF PoolTypes
  <1>3. plRaced \subseteq plRaced'
    BY <1>1 DEF Takes
  <1>4. ConnTypes' /\ \A u : Live(u)' = Live(u)
    BY <1>1 DEF PoolTypes, ConnTypes, Live
  <1>5. ASSUME NEW u \in Urls \ plRaced', NEW n \in Live(u), plMap[u] = n PROVE plMap'[u] = n
    <2>1. u # url
      BY <1>1, <1>5, TakesNotes
    <2> QED
      BY <2>1, <1>1, <1>5 DEF PoolTypes
  <1> QED
    BY <1>1, <1>2, <1>3, <1>4, <1>5, CallEnds

\* A call stores the only live connection of its URL.
LEMMA StoresConn ==
    ASSUME PoolInv, NEW c \in EnsureCalls, StoreConn(c)
    PROVE  PoolInv'
  <1> DEFINE url == plCall[c].url
             got == plCall[c].got
             link == [plConns[got] EXCEPT !.cleaner = "waits"]
  <1> USE DEF PoolInv
  <1>1. /\ plMap' = [plMap EXCEPT ![url] = got] /\ Takes(url) /\ plCall[c].pc = "store"
        /\ plCall' = [plCall EXCEPT ![c] = IdleCall] /\ Unlock(c)
        /\ plConns' = [plConns EXCEPT ![got] = link]
    BY DEF StoreConn, SetCall
  <1>2. /\ got \in Nat /\ got \in DOMAIN plConns /\ plConns[got].url = url
        /\ url \notin plRaced => \A n \in Live(url) : n = got
    BY <1>1 DEF PoolTypes, CallType, StoreInv
  <1>3. PICK k \in Nat : plConns \in [1..k -> Conn]
    BY DEF PoolTypes, ConnTypes
  <1>4. link \in Conn /\ link.url = plConns[got].url /\ link.up = plConns[got].up
    <2>1. plConns[got] \in Conn
      BY <1>2, <1>3
    <2> QED
      BY <2>1 DEF Conn
  <1> HIDE DEF link
  <1>5. /\ plConns' \in [1..k -> Conn] /\ DOMAIN plConns' = DOMAIN plConns
        /\ \A n \in DOMAIN plConns : plConns'[n].url = plConns[n].url /\ plConns'[n].up = plConns[n].up
    BY <1>1, <1>2, <1>3, <1>4
  <1>6. ConnTypes' /\ \A u : Live(u)' = Live(u)
    BY <1>3, <1>5 DEF ConnTypes, Live
  <1>7. plMap' \in [Urls -> Nat] /\ plRaced \subseteq plRaced'
    BY <1>1, <1>2 DEF PoolTypes, Takes
  <1>8. ASSUME NEW u \in Urls \ plRaced', NEW n \in Live(u), plMap[u] = n \/ got = n PROVE plMap'[u] = n
    <2>1. CASE u = url
      BY <2>1, <1>1, <1>2, <1>7, <1>8 DEF PoolTypes
    <2>2. CASE u # url
      BY <2>2, <1>1, <1>2, <1>8 DEF PoolTypes, Live
    <2> QED
      BY <2>1, <2>2
  <1> QED
    BY <1>1, <1>5, <1>6, <1>7, <1>8, CallEnds

-----------------------------------------------------------------------------

\* Every step of the pool keeps the invariant.
LEMMA PoolStep ==
    ASSUME PoolInv, [PoolNext]_plVars
    PROVE  PoolInv'
  <1>1. ASSUME NEW c \in EnsureCalls, (\E u \in Urls : EnsureLock(c, u)) \/ EnsureStep(c)
        PROVE  PoolInv'
    BY <1>1, LockTaken, Loads, Looks, DialsWell, DialsFail, StoresNil, StoresConn DEF EnsureStep
  <1>2. ASSUME NEW n \in DOMAIN plConns, ConnDies(n) \/ CleanerLooks(n) \/ CleanerDeletes(n)
        PROVE  PoolInv'
    BY <1>2, ConnSteps
  <1>3. CASE ManualMark
    BY <1>3, ManualMarks
  <1>4. CASE \E u \in Urls : ManualAdd(u)
    BY <1>4, Rests DEF ManualAdd
  <1>5. CASE SleeperStep
    BY <1>5, Rests DEF SleeperStep, SleeperWakes, SleeperReads, SleeperStores, SleeperSleeps
  <1>6. CASE UNCHANGED plVars
    BY <1>6, Rests DEF plVars
  <1> QED
    BY <1>1, <1>2, <1>3, <1>4, <1>5, <1>6 DEF PoolNext

\* What the invariant says of the connections of a URL.
LEMMA OneIsLive == PoolInv => OneConnection
  <1> SUFFICES ASSUME PoolInv, NEW u \in Urls \ plRaced
               PROVE  /\ Cardinality(Live(u)) <= 1
                      /\ \A n \in Live(u) : plMap[u] = n \/ \E c \in EnsureCalls : plCall[c].pc = "store" /\ plCall[c].got = n
    BY DEF OneConnection
  <1>1. Cardinality(Live(u)) <= 1
    <2>1. CASE Live(u) = {}
      BY <2>1, FS_EmptySet
    <2>2. ASSUME NEW n \in Live(u) PROVE Cardinality(Live(u)) <= 1
      <3>1. Live(u) = {n}
        BY <2>2, LiveUnique
      <3> QED
        BY <3>1, FS_Singleton
    <2> QED
      BY <2>1, <2>2
  <1> QED
    BY <1>1 DEF PoolInv, KnownInv

\* However many calls of EnsureRelay meet, for any URLs and any hash that
\* selects their mutex, a URL has one live connection and the map has it,
\* unless a step that takes no mutex removed its entry.
THEOREM PoolKeepsOneConnection == PoolSpec => []OneConnection
  <1>1. PoolInv /\ [PoolNext]_plVars => PoolInv'
    BY PoolStep
  <1> QED
    BY PoolStarts, <1>1, OneIsLive, PTL DEF PoolSpec

(***************************************************************************)
(* The operations over a list of URLs: types.                              *)
(***************************************************************************)
Arrivals == [id : PoolEvents, stored : BOOLEAN]
Hands == PoolEvents \cup {Nothing, 1, 2} \cup {"ok", "error", "auth"}
WorkerSteps ==
    {"ensure", "subscribe", "loop", "send", "store", "sleep", "auth", "tell", "publish", "publishAuth",
     "publishAgain", "answer", "count", "compare", "merge", "done"}

Subs ==
    [phase : {"none", "open", "cancelled", "closed"}, eosed : BOOLEAN, timedOut : BOOLEAN,
     eose : {"none", "ready", "taken"}, reason : {"none", "auth", "other", "taken"},
     sent : SUBSET PoolEvents]

WorkerStates ==
    [pc : WorkerSteps, hand : Hands, authed : BOOLEAN, tries : Nat, sub : Subs, waiting : SUBSET Arrivals,
     old : BOOLEAN, sinceNow : BOOLEAN, eosed : BOOLEAN, forward : PoolEvents \cup {Nothing},
     finished : BOOLEAN]

\* What a goroutine is about to deliver is an event.
WorkerOk(w) == w \in WorkerStates /\ (w.pc \in {"send", "store"} => w.hand \in PoolEvents)

ChanStates == [ctx : BOOLEAN, closed : BOOLEAN, eoseClosed : BOOLEAN, reading : BOOLEAN, eoseWg : Int]
MapStates ==
    [seen : SUBSET PoolEvents, latest : [PoolKeys -> PoolEvents \cup {0}],
     results : [PoolKeys -> PoolEvents \cup {0}], register : Hands]
HistStates ==
    [out : [PoolEvents -> Nat], spoiled : SUBSET PoolEvents, forgotten : SUBSET PoolEvents,
     answers : [Workers -> Nat], cancelled : BOOLEAN, faults : Nat]

QueriesType ==
    /\ pqOp \in PoolOps
    /\ pqW \in [Workers -> WorkerStates] /\ \A i \in Workers : WorkerOk(pqW[i])
    /\ pqChan \in ChanStates /\ pqMaps \in MapStates /\ pqHist \in HistStates

LEMMA EventsAreNumbers == PoolEvents \subseteq Nat \ {0}
  BY PoolAssumption

LEMMA WorkersAreFinite ==
    IsFiniteSet(Workers) /\ Len(PoolUrls) \in Nat /\ Cardinality(Workers) = Len(PoolUrls)
  <1> DEFINE n == Len(PoolUrls)
  <1>1. Workers = 1..n /\ n \in Nat
    BY UrlsAssumption DEF Workers
  <1> HIDE DEF n
  <1>2. IsFiniteSet(1..n) /\ Cardinality(1..n) = IF 1 > n THEN 0 ELSE n - 1 + 1
    BY <1>1, FS_Interval
  <1> QED
    BY <1>1, <1>2 DEF n

LEMMA SetWorker ==
    ASSUME pqW \in [Workers -> WorkerStates], \A i \in Workers : WorkerOk(pqW[i]),
           NEW i \in Workers, NEW w, SetW(i, w), WorkerOk(w)
    PROVE  /\ pqW' \in [Workers -> WorkerStates] /\ \A j \in Workers : WorkerOk(pqW'[j])
           /\ \A j \in Workers : pqW'[j] = IF j = i THEN w ELSE pqW[j]
  <1> HIDE DEF WorkerStates
  <1>1. w \in WorkerStates
    BY DEF WorkerOk
  <1>2. pqW' = [pqW EXCEPT ![i] = w]
    BY DEF SetW
  <1> QED
    BY <1>1, <1>2

LEMMA NewWorkerOk == \A l \in WorkerSteps \ {"send", "store"} : WorkerOk(NewWorker(l))
  <1>1. NoSub \in Subs
    BY DEF NoSub, Subs
  <1>2. Nothing \in Hands
    BY DEF Hands
  <1> QED
    BY <1>1, <1>2 DEF WorkerOk, NewWorker, WorkerStates

LEMMA RemainsOk == \A w : WorkerOk(w) => WorkerOk(Remains(w))
  <1> SUFFICES ASSUME NEW w, WorkerOk(w) PROVE WorkerOk(Remains(w))
    OBVIOUS
  <1>1. w.sub \in Subs /\ w.waiting \in SUBSET Arrivals /\ w.forward \in PoolEvents \cup {Nothing}
        /\ w.finished \in BOOLEAN
    BY DEF WorkerOk, WorkerStates
  <1> DEFINE sub == [w.sub EXCEPT !.eosed = TRUE, !.reason = "none", !.timedOut = @ \/ w.sub.eose # "taken"]
  <1>2. sub \in Subs
    BY <1>1 DEF Subs
  <1>3. Nothing \in Hands
    BY DEF Hands
  <1>4. NoSub \in Subs
    BY DEF NoSub, Subs
  <1> HIDE DEF sub
  <1> DEFINE n == NewWorker("done")
  <1>5. n \in WorkerStates /\ n.pc = "done" /\ n.hand = Nothing
    BY NewWorkerOk DEF WorkerOk, WorkerSteps, NewWorker
  <1> HIDE DEF n
  <1>6. Remains(w) = [n EXCEPT !.eosed = TRUE, !.waiting = w.waiting, !.forward = w.forward,
                               !.finished = w.finished, !.sub = sub]
    BY DEF Remains, sub, n
  <1> QED
    BY <1>1, <1>2, <1>5, <1>6 DEF WorkerOk, WorkerStates

-----------------------------------------------------------------------------
(* What a step does to the events, the EOSEs and the ends *)

Busy(l) == l \notin {"send", "store", "done"}
SameEvents(w, v) == v.waiting = w.waiting /\ v.forward = w.forward /\ v.finished = w.finished
SameSub(w, v) ==
    /\ v.sub.phase = w.sub.phase /\ v.sub.eosed = w.sub.eosed /\ v.sub.timedOut = w.sub.timedOut
    /\ v.sub.eose = w.sub.eose /\ v.sub.sent = w.sub.sent
EoseTaken(w, v) == w.sub.eose = "ready" /\ v.sub = [w.sub EXCEPT !.eose = "taken"]
SameGoroutine(w, v) ==
    v.pc = w.pc /\ v.hand = w.hand /\ v.eosed = w.eosed /\ v.sinceNow = w.sinceNow

\* w becomes what is left of it, maybe with its EOSE.
BecomesRemains(w, v) ==
    /\ v.pc = "done" /\ SameEvents(w, v) /\ v.eosed /\ ~v.sinceNow
    /\ v.sub.phase = w.sub.phase /\ v.sub.sent = w.sub.sent /\ v.sub.eosed
    /\ v.sub.eose = w.sub.eose \/ (w.sub.eose = "ready" /\ v.sub.eose = "taken")
    /\ v.sub.timedOut = (w.sub.timedOut \/ v.sub.eose # "taken")

SameClaims == pqMaps'.seen = pqMaps.seen /\ pqMaps'.latest = pqMaps.latest
SameHist ==
    /\ pqHist'.out = pqHist.out /\ pqHist'.spoiled = pqHist.spoiled
    /\ pqHist'.forgotten = pqHist.forgotten /\ pqHist'.cancelled = pqHist.cancelled
SameCall ==
    pqChan'.ctx = pqChan.ctx /\ pqChan'.closed = pqChan.closed /\ pqChan'.eoseClosed = pqChan.eoseClosed
Others(i) == \A j \in Workers : j # i => pqW'[j] = pqW[j]
EoseCounted(i) == pqChan'.eoseWg = IF pqW[i].eosed THEN pqChan.eoseWg ELSE pqChan.eoseWg - 1

GoesAhead(i) ==
    LET w == pqW[i]  v == pqW'[i] IN
    /\ Others(i) /\ Busy(w.pc) /\ Busy(v.pc) /\ SameEvents(w, v) /\ SameSub(w, v) /\ v.eosed = w.eosed
    /\ v.sinceNow = w.sinceNow \/ pqOp \in Staying
    /\ SameClaims /\ SameHist /\ SameCall /\ pqChan'.eoseWg = pqChan.eoseWg

GoesAway(i) ==
    LET w == pqW[i] IN
    /\ Others(i) /\ w.pc # "done" /\ w.pc # "store" /\ (w.pc = "send" => ~pqChan.ctx)
    /\ BecomesRemains(w, pqW'[i])
    /\ SameClaims /\ SameHist /\ SameCall /\ EoseCounted(i)

SameForward(w, v) == v.forward = w.forward /\ v.finished = w.finished
SameEose == SameCall /\ pqChan'.eoseWg = pqChan.eoseWg

\* A fresh subscription: what waited in the old one is lost.
SubscribesAgain(i) ==
    LET w == pqW[i]  v == pqW'[i] IN
    /\ Others(i) /\ w.pc = "subscribe" /\ v.pc = "loop" /\ SameForward(w, v)
    /\ v.waiting = {} /\ v.sub = [NoSub EXCEPT !.phase = "open"]
    /\ v.eosed = w.eosed /\ v.sinceNow = w.sinceNow
    /\ SameClaims /\ SameEose
    /\ pqHist' = [pqHist EXCEPT !.spoiled = @ \cup EventIds(w.waiting)]

\* A message, the timer or the end of a context change the subscription only.
SubChanges(i) ==
    LET w == pqW[i]  v == pqW'[i] IN
    /\ Others(i) /\ SameGoroutine(w, v) /\ SameEvents(w, v) /\ SameClaims /\ SameEose /\ SameHist
    /\ \/ \E e \in PoolEvents : IsDuplicate(i, e) /\ w.sub.phase = "open" /\ v.sub = [w.sub EXCEPT !.sent = @ \cup {e}]
       \/ \E timer \in BOOLEAN :
            /\ w.sub.phase # "none" /\ ~w.sub.eosed /\ w.pc # "done"
            /\ timer \/ w.sinceNow \/ Held(i) \subseteq w.sub.sent
            /\ v.sub = [w.sub EXCEPT !.eosed = TRUE, !.timedOut = timer]
       \/ /\ w.sub.eosed /\ w.sub.eose = "none" /\ \A x \in w.waiting : ~x.stored
          /\ w.pc # "done" /\ v.sub = [w.sub EXCEPT !.eose = "ready"]
       \/ \E r \in {"auth", "other"} : v.sub = [w.sub EXCEPT !.reason = r]
       \/ w.sub.phase = "open" /\ v.sub = [w.sub EXCEPT !.phase = "cancelled"]

\* A new event is claimed; a forged copy of it is lost at once.
Arrives(i, e) ==
    LET w == pqW[i]  v == pqW'[i]  x == [id |-> e, stored |-> ~w.sub.eosed] IN
    /\ Others(i) /\ SameGoroutine(w, v) /\ SameForward(w, v) /\ SameEose
    /\ w.sub.phase = "open" /\ v.sub = [w.sub EXCEPT !.sent = @ \cup {e}]
    /\ ~IsDuplicate(i, e)
    /\ pqMaps' = IF pqOp = "latest" THEN [pqMaps EXCEPT !.latest[KeyOf[e]] = e]
                 ELSE [pqMaps EXCEPT !.seen = @ \cup {e}]
    /\ \/ v.waiting = w.waiting \cup {x} /\ SameHist
       \/ v.waiting = w.waiting /\ pqHist' = [pqHist EXCEPT !.spoiled = @ \cup {e}]

GivesUp(i, x) ==
    LET w == pqW[i]  v == pqW'[i] IN
    /\ Others(i) /\ SameGoroutine(w, v) /\ SameForward(w, v) /\ v.sub = w.sub
    /\ x \in w.waiting /\ v.waiting = w.waiting \ {x}
    /\ SameClaims /\ SameEose /\ pqHist' = [pqHist EXCEPT !.spoiled = @ \cup {x.id}]

\* The subscription ends with what waits in it.
Ends(i) ==
    LET w == pqW[i]  v == pqW'[i] IN
    /\ Others(i) /\ SameGoroutine(w, v) /\ SameForward(w, v)
    /\ v.waiting = {} /\ v.sub.phase = "closed" /\ v.sub.sent = {}
    /\ v.sub.eosed = w.sub.eosed /\ v.sub.timedOut = w.sub.timedOut /\ v.sub.eose = w.sub.eose
    /\ SameClaims /\ SameEose
    /\ pqHist'.out = pqHist.out /\ pqHist'.forgotten = pqHist.forgotten /\ pqHist'.cancelled = pqHist.cancelled
    /\ pqHist.spoiled \subseteq pqHist'.spoiled
    /\ \A x \in w.waiting : x.id \in pqHist'.spoiled \/ (w.pc = "done" /\ x.stored /\ ~w.sub.timedOut)

TakesOne(i, x) ==
    LET w == pqW[i]  v == pqW'[i] IN
    /\ Others(i) /\ SameForward(w, v) /\ v.sub = w.sub /\ v.eosed = w.eosed /\ v.sinceNow = w.sinceNow
    /\ w.pc = "loop" /\ v.pc \in {"send", "store"} /\ v.hand = x.id
    /\ x \in w.waiting /\ v.waiting = w.waiting \ {x}
    /\ SameClaims /\ SameEose /\ SameHist

HandsOver(i) ==
    LET w == pqW[i]  v == pqW'[i] IN
    /\ Others(i) /\ v.sub = w.sub /\ v.eosed = w.eosed /\ v.sinceNow = w.sinceNow
    /\ w.pc = "send" /\ v.pc = "loop" /\ v.waiting = w.waiting /\ v.finished = w.finished
    /\ pqOp \in Batched /\ w.forward = Nothing /\ ~w.finished /\ v.forward = w.hand
    /\ SameClaims /\ SameEose /\ SameHist

\* The consumer, or the map of results, has the event.
Delivers(i, e) ==
    LET w == pqW[i]  v == pqW'[i] IN
    /\ Others(i) /\ v.sub = w.sub /\ v.eosed = w.eosed /\ v.sinceNow = w.sinceNow
    /\ v.waiting = w.waiting /\ v.finished = w.finished
    /\ \/ w.pc \in {"send", "store"} /\ w.hand = e /\ v.pc = "loop" /\ v.forward = w.forward
       \/ w.forward = e /\ ~w.finished /\ v.forward = Nothing /\ v.pc = w.pc /\ v.hand = w.hand
    /\ SameClaims /\ pqHist' = [pqHist EXCEPT !.out[e] = @ + 1]
    /\ pqOp # "single" => pqChan'.ctx = pqChan.ctx
    /\ pqChan'.closed = pqChan.closed /\ pqChan'.eoseClosed = pqChan.eoseClosed
    /\ pqChan'.eoseWg = pqChan.eoseWg

ForwarderEnds(i) ==
    LET w == pqW[i]  v == pqW'[i] IN
    /\ Others(i) /\ SameGoroutine(w, v) /\ v.sub = w.sub
    /\ v.waiting = w.waiting /\ v.forward = w.forward /\ ~w.finished /\ v.finished
    /\ ~pqChan.ctx \/ (w.pc = "done" /\ w.forward = Nothing)
    /\ SameClaims /\ SameEose /\ SameHist

SeesEose(i) ==
    LET w == pqW[i]  v == pqW'[i] IN
    /\ Others(i) /\ pqOp \in Staying /\ v.eosed /\ EoseCounted(i)
    /\ v.pc = w.pc /\ v.hand = w.hand /\ SameEvents(w, v)
    /\ SameClaims /\ SameCall /\ SameHist

LEMMA RemainsIs ==
    ASSUME NEW w, WorkerOk(w)
    PROVE  /\ Remains(w).pc = "done" /\ SameEvents(w, Remains(w)) /\ Remains(w).eosed /\ ~Remains(w).sinceNow
           /\ Remains(w).sub = [w.sub EXCEPT !.eosed = TRUE, !.reason = "none",
                                             !.timedOut = @ \/ w.sub.eose # "taken"]
  <1> DEFINE n == NewWorker("done")
             sub == [w.sub EXCEPT !.eosed = TRUE, !.reason = "none", !.timedOut = @ \/ w.sub.eose # "taken"]
  <1>1. n \in WorkerStates /\ n.pc = "done" /\ ~n.sinceNow
    BY NewWorkerOk DEF WorkerOk, WorkerSteps, NewWorker
  <1> HIDE DEF n, sub
  <1>2. Remains(w) = [n EXCEPT !.eosed = TRUE, !.waiting = w.waiting, !.forward = w.forward,
                               !.finished = w.finished, !.sub = sub]
    BY DEF Remains, sub, n
  <1>3. Remains(w).sub = sub
    BY <1>1, <1>2 DEF WorkerStates
  <1> QED
    BY <1>1, <1>2, <1>3 DEF WorkerStates, SameEvents, sub

LEMMA RemainsSub ==
    ASSUME NEW w, WorkerOk(w)
    PROVE  BecomesRemains(w, Remains(w))
  <1>1. w.sub \in Subs
    BY DEF WorkerOk, WorkerStates
  <1> DEFINE sub == [w.sub EXCEPT !.eosed = TRUE, !.reason = "none", !.timedOut = @ \/ w.sub.eose # "taken"]
  <1>2. /\ sub.phase = w.sub.phase /\ sub.sent = w.sub.sent /\ sub.eosed /\ sub.eose = w.sub.eose
        /\ sub.timedOut = (w.sub.timedOut \/ w.sub.eose # "taken")
    BY <1>1 DEF Subs
  <1> QED
    BY <1>2, RemainsIs DEF BecomesRemains

\* What the steps of a goroutine that goes away have in common.
LEMMA LeavesIs ==
    ASSUME QueriesType, NEW i \in Workers, NEW w, WorkerOk(w), Leaves(i, w), w.eosed = pqW[i].eosed
    PROVE  /\ Others(i) /\ BecomesRemains(w, pqW'[i]) /\ SameCall /\ EoseCounted(i)
           /\ pqW' \in [Workers -> WorkerStates] /\ \A j \in Workers : WorkerOk(pqW'[j])
           /\ pqChan' \in ChanStates
  <1>1. SetW(i, Remains(w)) /\ CountEose(i) /\ WorkerOk(Remains(w))
    BY RemainsOk DEF Leaves
  <1>2. pqChan' \in ChanStates /\ SameCall /\ EoseCounted(i)
    BY <1>1 DEF CountEose, QueriesType, ChanStates, SameCall, EoseCounted
  <1>3. /\ pqW' \in [Workers -> WorkerStates] /\ \A j \in Workers : WorkerOk(pqW'[j])
        /\ \A j \in Workers : pqW'[j] = IF j = i THEN Remains(w) ELSE pqW[j]
    BY <1>1, SetWorker DEF QueriesType
  <1> QED
    BY <1>2, <1>3, RemainsSub DEF Others

LEMMA AheadIs ==
    ASSUME QueriesType, NEW i \in Workers, NEW v, WorkerOk(v), SetW(i, v),
           Busy(pqW[i].pc), Busy(v.pc), SameEvents(pqW[i], v), SameSub(pqW[i], v), v.eosed = pqW[i].eosed,
           v.sinceNow = pqW[i].sinceNow \/ pqOp \in Staying,
           UNCHANGED <<pqOp, pqMaps, pqChan>>, pqHist' \in HistStates, SameHist
    PROVE  QueriesType' /\ GoesAhead(i)
  <1>1. /\ pqW' \in [Workers -> WorkerStates] /\ \A j \in Workers : WorkerOk(pqW'[j])
        /\ \A j \in Workers : pqW'[j] = IF j = i THEN v ELSE pqW[j]
    BY SetWorker DEF QueriesType
  <1>2. QueriesType'
    BY <1>1 DEF QueriesType
  <1> QED
    BY <1>1, <1>2 DEF GoesAhead, SameCall, SameClaims, Others

LEMMA AwayIs ==
    ASSUME QueriesType, NEW i \in Workers, NEW w, WorkerOk(w), Leaves(i, w),
           Busy(pqW[i].pc) \/ (pqW[i].pc = "send" /\ ~pqChan.ctx),
           SameEvents(pqW[i], w), w.eosed = pqW[i].eosed,
           SameSub(pqW[i], w) \/ EoseTaken(pqW[i], w),
           pqOp' = pqOp, pqMaps' \in MapStates, SameClaims, pqHist' \in HistStates, SameHist
    PROVE  QueriesType' /\ GoesAway(i)
  <1>1. /\ Others(i) /\ BecomesRemains(w, pqW'[i]) /\ SameCall /\ EoseCounted(i)
        /\ pqW' \in [Workers -> WorkerStates] /\ \A j \in Workers : WorkerOk(pqW'[j])
        /\ pqChan' \in ChanStates
    BY LeavesIs
  <1>2. QueriesType'
    BY <1>1 DEF QueriesType
  <1>3. pqW[i].sub \in Subs /\ w.sub \in Subs
    BY DEF QueriesType, WorkerOk, WorkerStates
  <1>4. BecomesRemains(pqW[i], pqW'[i])
    <2>1. CASE SameSub(pqW[i], w)
      BY <1>1, <2>1 DEF BecomesRemains, SameEvents, SameSub
    <2>2. CASE EoseTaken(pqW[i], w)
      <3>1. /\ w.sub.phase = pqW[i].sub.phase /\ w.sub.sent = pqW[i].sub.sent /\ w.sub.eose = "taken"
            /\ w.sub.timedOut = pqW[i].sub.timedOut
        BY <1>3, <2>2 DEF Subs, EoseTaken
      <3> QED
        BY <1>1, <2>2, <3>1 DEF BecomesRemains, SameEvents, EoseTaken
    <2> QED
      BY <2>1, <2>2
  <1> QED
    BY <1>1, <1>2, <1>4 DEF GoesAway, Busy

LEMMA FaultIs == QueriesType /\ Fault => pqHist' \in HistStates /\ SameHist
  BY DEF Fault, QueriesType, HistStates, SameHist

LEMMA SameGlobals ==
    ASSUME QueriesType
    PROVE  /\ UNCHANGED pqMaps => pqMaps' \in MapStates /\ SameClaims
           /\ UNCHANGED pqHist => pqHist' \in HistStates /\ SameHist
           /\ UNCHANGED pqChan => pqChan' \in ChanStates /\ SameCall /\ pqChan'.eoseWg = pqChan.eoseWg
           /\ \A i \in Workers : WorkerOk(pqW[i]) /\ pqW[i] \in WorkerStates /\ pqW[i].sub \in Subs
                                 /\ SameEvents(pqW[i], pqW[i]) /\ SameSub(pqW[i], pqW[i])
  BY DEF QueriesType, SameClaims, SameHist, SameCall, WorkerOk, WorkerStates, SameEvents, SameSub

LEMMA FailsIs ==
    ASSUME QueriesType, NEW i \in Workers, NEW w, WorkerOk(w), Fails(i, w),
           Busy(pqW[i].pc), SameEvents(pqW[i], w), w.sub = pqW[i].sub, w.eosed = pqW[i].eosed,
           w.sinceNow = pqW[i].sinceNow, UNCHANGED <<pqOp, pqMaps>>, Fault
    PROVE  QueriesType' /\ (GoesAhead(i) \/ GoesAway(i))
  <1>1. pqHist' \in HistStates /\ SameHist /\ pqMaps' \in MapStates /\ SameClaims /\ SameSub(pqW[i], w)
    BY FaultIs, SameGlobals DEF SameSub
  <1>2. CASE pqOp \in Staying /\ SetW(i, [w EXCEPT !.pc = "sleep"]) /\ UNCHANGED pqChan
    <2> DEFINE v == [w EXCEPT !.pc = "sleep"]
    <2>1. /\ WorkerOk(v) /\ Busy(v.pc) /\ SameEvents(pqW[i], v) /\ v.sub = w.sub /\ v.eosed = w.eosed
          /\ v.sinceNow = w.sinceNow
      BY DEF WorkerOk, WorkerStates, WorkerSteps, SameEvents, Busy
    <2> HIDE DEF v
    <2> QED
      BY <1>1, <1>2, <2>1, AheadIs DEF v, SameSub
  <1>3. CASE pqOp = "publish" /\ SetW(i, [w EXCEPT !.pc = "answer", !.hand = "error"]) /\ UNCHANGED pqChan
    <2> DEFINE v == [w EXCEPT !.pc = "answer", !.hand = "error"]
    <2>0. "error" \in Hands
      BY DEF Hands
    <2>1. /\ WorkerOk(v) /\ Busy(v.pc) /\ SameEvents(pqW[i], v) /\ v.sub = w.sub /\ v.eosed = w.eosed
          /\ v.sinceNow = w.sinceNow
      BY <2>0 DEF WorkerOk, WorkerStates, WorkerSteps, SameEvents, Busy
    <2> HIDE DEF v
    <2> QED
      BY <1>1, <1>3, <2>1, AheadIs DEF v, SameSub
  <1>4. CASE Leaves(i, w)
    BY <1>1, <1>4, AwayIs
  <1> QED
    BY <1>2, <1>3, <1>4 DEF Fails

-----------------------------------------------------------------------------
(* Connecting and subscribing *)

LEMMA EnsureOneIs ==
    ASSUME QueriesType, NEW i \in Workers, EnsureOne(i)
    PROVE  QueriesType' /\ (GoesAhead(i) \/ GoesAway(i))
  <1> DEFINE w == [pqW[i] EXCEPT !.tries = @ + 1]
             v == [w EXCEPT !.authed = FALSE,
                            !.pc = IF pqOp \in {"publish", "count"} THEN pqOp ELSE "subscribe"]
  <1>1. pqW[i].pc = "ensure" /\ UNCHANGED <<pqOp, pqMaps>> /\ Busy(pqW[i].pc)
    BY DEF EnsureOne, Busy
  <1>2. /\ WorkerOk(w) /\ SameEvents(pqW[i], w) /\ w.sub = pqW[i].sub /\ w.eosed = pqW[i].eosed
        /\ w.sinceNow = pqW[i].sinceNow
    BY <1>1, SameGlobals DEF WorkerOk, WorkerStates, SameEvents
  <1>3. \/ Leaves(i, pqW[i]) /\ UNCHANGED pqHist
        \/ SetW(i, v) /\ UNCHANGED <<pqChan, pqHist>>
        \/ Fails(i, w) /\ Fault
    BY DEF EnsureOne
  <1> HIDE DEF w
  <1>4. /\ WorkerOk(v) /\ Busy(v.pc) /\ SameEvents(pqW[i], v) /\ v.sub = pqW[i].sub /\ v.eosed = pqW[i].eosed
        /\ v.sinceNow = pqW[i].sinceNow
    BY <1>2 DEF WorkerOk, WorkerStates, WorkerSteps, SameEvents, Busy
  <1> HIDE DEF v
  <1>5. CASE Leaves(i, pqW[i]) /\ UNCHANGED pqHist
    BY <1>1, <1>5, AwayIs, SameGlobals
  <1>6. CASE SetW(i, v) /\ UNCHANGED <<pqChan, pqHist>>
    BY <1>1, <1>4, <1>6, AheadIs, SameGlobals DEF SameSub
  <1>7. CASE Fails(i, w) /\ Fault
    BY <1>1, <1>2, <1>7, FailsIs
  <1> QED
    BY <1>3, <1>5, <1>6, <1>7

\* A step of a worker's goroutine or of its subscription keeps the types.
LEMMA TypesStep ==
    ASSUME QueriesType, NEW i \in Workers, NEW v, SetW(i, v), WorkerOk(v), pqOp' = pqOp,
           pqMaps' \in MapStates, pqChan' \in ChanStates, pqHist' \in HistStates
    PROVE  QueriesType' /\ Others(i) /\ pqW'[i] = v
  <1>1. /\ pqW' \in [Workers -> WorkerStates] /\ \A j \in Workers : WorkerOk(pqW'[j])
        /\ \A j \in Workers : pqW'[j] = IF j = i THEN v ELSE pqW[j]
    BY SetWorker DEF QueriesType
  <1> QED
    BY <1>1 DEF QueriesType, Others

LEMMA LostIs ==
    ASSUME QueriesType, NEW ids \in SUBSET PoolEvents
    PROVE  /\ Lost(ids) => pqHist' \in HistStates
           /\ Lost(ids) => /\ pqHist'.out = pqHist.out /\ pqHist'.forgotten = pqHist.forgotten
                           /\ pqHist'.cancelled = pqHist.cancelled /\ pqHist'.spoiled = pqHist.spoiled \cup ids
  BY DEF Lost, QueriesType, HistStates

LEMMA WaitingIds == QueriesType => \A i \in Workers : EventIds(pqW[i].waiting) \in SUBSET PoolEvents
  BY SameGlobals DEF EventIds, WorkerStates, Arrivals

LEMMA SubscribeOneIs ==
    ASSUME QueriesType, NEW i \in Workers, SubscribeOne(i)
    PROVE  QueriesType' /\ (SubscribesAgain(i) \/ GoesAhead(i) \/ GoesAway(i))
  <1> DEFINE w == pqW[i]
             sub == [NoSub EXCEPT !.phase = "open"]
             v == [w EXCEPT !.sub = sub, !.waiting = {}, !.pc = "loop",
                            !.old = @ \/ (w.sub.phase # "none" /\ ~w.sub.eosed)]
  <1>1. w.pc = "subscribe" /\ UNCHANGED <<pqOp, pqMaps>>
    BY DEF SubscribeOne
  <1>2. \/ SetW(i, v) /\ Lost(EventIds(w.waiting)) /\ UNCHANGED pqChan
        \/ Fails(i, w) /\ Fault
    BY DEF SubscribeOne
  <1>3. sub \in Subs
    BY DEF NoSub, Subs
  <1> HIDE DEF sub
  <1>4. /\ WorkerOk(v) /\ v.pc = "loop" /\ SameForward(w, v) /\ v.waiting = {} /\ v.sub = sub /\ v.eosed = w.eosed
        /\ v.sinceNow = w.sinceNow
    BY <1>1, <1>3, SameGlobals DEF WorkerOk, WorkerStates, WorkerSteps, SameForward
  <1> HIDE DEF v
  <1>5. CASE SetW(i, v) /\ Lost(EventIds(w.waiting)) /\ UNCHANGED pqChan
    <2>1. pqHist' \in HistStates
      BY <1>5, LostIs, WaitingIds
    <2>2. pqMaps' \in MapStates /\ SameClaims /\ pqChan' \in ChanStates /\ SameEose
      BY <1>1, <1>5, SameGlobals DEF SameEose
    <2>3. QueriesType' /\ Others(i) /\ pqW'[i] = v
      BY <1>1, <1>4, <1>5, <2>1, <2>2, TypesStep
    <2> QED
      BY <1>1, <1>4, <1>5, <2>2, <2>3 DEF SubscribesAgain, Lost, sub
  <1>6. CASE Fails(i, w) /\ Fault
    <2>1. Busy(w.pc)
      BY <1>1 DEF Busy
    <2> QED
      BY <1>1, <1>6, <2>1, FailsIs, SameGlobals
  <1> QED
    BY <1>2, <1>5, <1>6

\* From one label to another.
Turns(w, v) ==
    /\ WorkerOk(v) /\ Busy(v.pc) /\ SameEvents(w, v) /\ SameSub(w, v) /\ v.eosed = w.eosed
    /\ v.sinceNow = w.sinceNow

LEMMA Turned ==
    ASSUME NEW w, WorkerOk(w), NEW l \in WorkerSteps, Busy(l)
    PROVE  /\ Turns(w, [w EXCEPT !.pc = l]) /\ Turns(w, [w EXCEPT !.authed = TRUE, !.pc = l])
           /\ \A h \in Hands : Turns(w, [w EXCEPT !.hand = h, !.pc = l])
  <1>1. Turns(w, [w EXCEPT !.pc = l])
    BY DEF Turns, WorkerOk, WorkerStates, Busy, SameEvents, SameSub
  <1>2. Turns(w, [w EXCEPT !.authed = TRUE, !.pc = l])
    BY DEF Turns, WorkerOk, WorkerStates, Busy, SameEvents, SameSub
  <1>3. ASSUME NEW h \in Hands
        PROVE  Turns(w, [w EXCEPT !.hand = h, !.pc = l])
    BY DEF Turns, WorkerOk, WorkerStates, Busy, SameEvents, SameSub
  <1> QED
    BY <1>1, <1>2, <1>3

LEMMA TurnIs ==
    ASSUME QueriesType, NEW i \in Workers, NEW v, Turns(pqW[i], v), SetW(i, v), Busy(pqW[i].pc),
           UNCHANGED <<pqOp, pqMaps, pqChan, pqHist>>
    PROVE  QueriesType' /\ GoesAhead(i)
  BY AheadIs, SameGlobals DEF Turns

LEMMA SleepOneIs ==
    ASSUME QueriesType, NEW i \in Workers, SleepOne(i)
    PROVE  QueriesType' /\ GoesAhead(i)
  <1> DEFINE v == [pqW[i] EXCEPT !.pc = "ensure"]
  <1>1. Turns(pqW[i], v)
    BY Turned, SameGlobals DEF WorkerSteps, Busy
  <1>2. SetW(i, v) /\ Busy(pqW[i].pc) /\ UNCHANGED <<pqOp, pqMaps, pqChan, pqHist>>
    BY DEF SleepOne, GotoW, Busy
  <1> HIDE DEF v
  <1> QED
    BY <1>1, <1>2, TurnIs

LEMMA TakeReasonIs ==
    ASSUME QueriesType, NEW i \in Workers, TakeReason(i)
    PROVE  QueriesType' /\ GoesAhead(i)
  <1> DEFINE w == pqW[i]
             l == IF w.sub.reason = "auth" /\ ~w.authed THEN "auth" ELSE "tell"
             sub == [w.sub EXCEPT !.reason = "taken"]
             v == [w EXCEPT !.sub = sub, !.pc = l]
  <1>1. WorkerOk(w) /\ w \in WorkerStates /\ w.sub \in Subs
    BY SameGlobals
  <1>2. /\ sub \in Subs /\ sub.phase = w.sub.phase /\ sub.eosed = w.sub.eosed /\ sub.timedOut = w.sub.timedOut
        /\ sub.eose = w.sub.eose /\ sub.sent = w.sub.sent
    BY <1>1 DEF Subs
  <1>3. l \in WorkerSteps /\ Busy(l)
    BY DEF WorkerSteps, Busy
  <1>4. /\ Busy(w.pc) /\ UNCHANGED <<pqOp, pqMaps, pqChan, pqHist>>
        /\ SetW(i, [[w EXCEPT !.sub.reason = "taken"] EXCEPT
                    !.pc = IF w.sub.reason = "auth" /\ ~[w EXCEPT !.sub.reason = "taken"].authed THEN "auth" ELSE "tell"])
    BY DEF TakeReason, InLoop, Busy
  <1>5. [w EXCEPT !.sub.reason = "taken"].authed = w.authed
    BY <1>1 DEF WorkerStates
  <1>6. SetW(i, v)
    BY <1>4, <1>5
  <1> HIDE DEF l, sub
  <1>7. Turns(w, v)
    <2>1. /\ v \in WorkerStates /\ v.pc = l /\ v.sub = sub /\ v.eosed = w.eosed /\ v.sinceNow = w.sinceNow
          /\ SameEvents(w, v)
      BY <1>1, <1>2, <1>3 DEF WorkerStates, SameEvents
    <2> QED
      BY <1>2, <1>3, <2>1 DEF Turns, WorkerOk, Busy, SameSub
  <1> HIDE DEF v, w
  <1> QED
    BY <1>4, <1>6, <1>7, TurnIs DEF w

LEMMA AuthOneIs ==
    ASSUME QueriesType, NEW i \in Workers, AuthOne(i)
    PROVE  QueriesType' /\ GoesAhead(i)
  <1> DEFINE v == [pqW[i] EXCEPT !.authed = TRUE, !.pc = "subscribe"]
             u == [pqW[i] EXCEPT !.pc = "tell"]
  <1>1. Turns(pqW[i], v) /\ Turns(pqW[i], u)
    BY Turned, SameGlobals DEF WorkerSteps, Busy
  <1>2. (SetW(i, v) \/ SetW(i, u)) /\ Busy(pqW[i].pc) /\ UNCHANGED <<pqOp, pqMaps, pqChan, pqHist>>
    BY DEF AuthOne, GotoW, Busy
  <1> HIDE DEF v, u
  <1> QED
    BY <1>1, <1>2, TurnIs

LEMMA PublishOneIs ==
    ASSUME QueriesType, NEW i \in Workers, PublishOne(i)
    PROVE  QueriesType' /\ GoesAhead(i)
  <1> DEFINE v(h, l) == [pqW[i] EXCEPT !.hand = h, !.pc = l]
             u == [pqW[i] EXCEPT !.pc = "publishAgain"]
  <1>1. {"ok", "error", "auth"} \subseteq Hands
    BY DEF Hands
  <1>2. /\ Turns(pqW[i], u)
        /\ \A h \in {"ok", "error", "auth"} : Turns(pqW[i], v(h, "answer")) /\ Turns(pqW[i], v(h, "publishAuth"))
    BY <1>1, Turned, SameGlobals DEF WorkerSteps, Busy
  <1>3. /\ SetW(i, u) \/ \E h \in {"ok", "error", "auth"} : SetW(i, v(h, "answer")) \/ SetW(i, v(h, "publishAuth"))
        /\ Busy(pqW[i].pc) /\ UNCHANGED <<pqOp, pqMaps, pqChan, pqHist>>
    BY DEF PublishOne, GotoW, Busy
  <1> HIDE DEF v, u
  <1> QED
    BY <1>2, <1>3, TurnIs

LEMMA CountOneIs ==
    ASSUME QueriesType, NEW i \in Workers, CountOne(i)
    PROVE  QueriesType' /\ (GoesAhead(i) \/ GoesAway(i))
  <1> DEFINE v(h) == [pqW[i] EXCEPT !.hand = h, !.pc = "compare"]
  <1>1. 1..2 \subseteq Hands
    BY DEF Hands
  <1>2. \A h \in 1..2 : Turns(pqW[i], v(h))
    BY <1>1, Turned, SameGlobals DEF WorkerSteps, Busy
  <1>3. /\ Leaves(i, pqW[i]) \/ (UNCHANGED pqChan /\ \E h \in 1..2 : SetW(i, v(h)))
        /\ Busy(pqW[i].pc) /\ UNCHANGED <<pqOp, pqMaps, pqHist>>
    BY DEF CountOne, Busy
  <1> HIDE DEF v
  <1>4. CASE Leaves(i, pqW[i])
    BY <1>3, <1>4, AwayIs, SameGlobals
  <1>5. CASE UNCHANGED pqChan /\ \E h \in 1..2 : SetW(i, v(h))
    BY <1>2, <1>3, <1>5, TurnIs
  <1> QED
    BY <1>3, <1>4, <1>5

LEMMA MergeOneIs ==
    ASSUME QueriesType, NEW i \in Workers, MergeOne(i)
    PROVE  QueriesType' /\ (GoesAhead(i) \/ GoesAway(i))
  <1> DEFINE v == [pqW[i] EXCEPT !.pc = "merge"]
  <1>1. Turns(pqW[i], v)
    BY Turned, SameGlobals DEF WorkerSteps, Busy
  <1>2. /\ \/ SetW(i, v) /\ UNCHANGED <<pqMaps, pqChan>>
           \/ Leaves(i, pqW[i]) /\ (UNCHANGED pqMaps \/ pqMaps' = [pqMaps EXCEPT !.register = pqW[i].hand])
        /\ Busy(pqW[i].pc) /\ UNCHANGED <<pqOp, pqHist>>
    BY DEF MergeOne, GotoW, Busy
  <1> HIDE DEF v
  <1>3. pqMaps' = [pqMaps EXCEPT !.register = pqW[i].hand] => pqMaps' \in MapStates /\ SameClaims
    <2>1. pqW[i].hand \in Hands /\ pqMaps \in MapStates
      BY SameGlobals DEF WorkerStates, QueriesType
    <2> QED
      BY <2>1 DEF MapStates, SameClaims
  <1>4. CASE SetW(i, v) /\ UNCHANGED <<pqMaps, pqChan>>
    BY <1>1, <1>2, <1>4, TurnIs
  <1>5. CASE Leaves(i, pqW[i]) /\ (UNCHANGED pqMaps \/ pqMaps' = [pqMaps EXCEPT !.register = pqW[i].hand])
    BY <1>2, <1>3, <1>5, AwayIs, SameGlobals
  <1> QED
    BY <1>2, <1>4, <1>5

-----------------------------------------------------------------------------
(* Going away *)

LEMMA TakeEndIs ==
    ASSUME QueriesType, NEW i \in Workers, TakeEnd(i)
    PROVE  QueriesType' /\ (GoesAhead(i) \/ GoesAway(i))
  <1> DEFINE w == pqW[i]
             v == [w EXCEPT !.sinceNow = TRUE, !.pc = "sleep"]
  <1>1. /\ \/ pqOp \in Staying /\ SetW(i, v) /\ UNCHANGED pqChan
           \/ Leaves(i, w)
        /\ Busy(w.pc) /\ UNCHANGED <<pqOp, pqMaps, pqHist>>
    BY DEF TakeEnd, InLoop, Busy
  <1>2. WorkerOk(v) /\ Busy(v.pc) /\ SameEvents(w, v) /\ SameSub(w, v) /\ v.eosed = w.eosed
    BY SameGlobals DEF WorkerOk, WorkerStates, WorkerSteps, Busy, SameEvents, SameSub
  <1> HIDE DEF v
  <1>3. CASE pqOp \in Staying /\ SetW(i, v) /\ UNCHANGED pqChan
    BY <1>1, <1>2, <1>3, AheadIs, SameGlobals
  <1>4. CASE Leaves(i, w)
    BY <1>1, <1>4, AwayIs, SameGlobals
  <1> QED
    BY <1>1, <1>3, <1>4

LEMMA TakeEoseIs ==
    ASSUME QueriesType, NEW i \in Workers, TakeEose(i)
    PROVE  QueriesType' /\ GoesAway(i)
  <1> DEFINE w == pqW[i]
             sub == [w.sub EXCEPT !.eose = "taken"]
             v == [w EXCEPT !.sub = sub]
  <1>1. Leaves(i, v) /\ w.sub.eose = "ready" /\ Busy(w.pc) /\ UNCHANGED <<pqOp, pqMaps, pqHist>>
    BY DEF TakeEose, InLoop, Busy
  <1>2. sub \in Subs
    BY SameGlobals DEF Subs
  <1> HIDE DEF sub
  <1>3. WorkerOk(v) /\ SameEvents(w, v) /\ v.sub = sub /\ v.eosed = w.eosed
    BY <1>2, SameGlobals DEF WorkerOk, WorkerStates, SameEvents
  <1> HIDE DEF v
  <1>4. EoseTaken(w, v)
    BY <1>1, <1>3 DEF EoseTaken, sub
  <1> QED
    BY <1>1, <1>3, <1>4, AwayIs, SameGlobals

LEMMA TellOrDoneIs ==
    ASSUME QueriesType, NEW i \in Workers, TellClosed(i) \/ TakeDone(i)
    PROVE  QueriesType' /\ GoesAway(i)
  <1>1. Leaves(i, pqW[i]) /\ Busy(pqW[i].pc) /\ UNCHANGED <<pqOp, pqMaps, pqHist>>
    BY DEF TellClosed, TakeDone, InLoop, Busy
  <1> QED
    BY <1>1, AwayIs, SameGlobals

LEMMA AnswerOneIs ==
    ASSUME QueriesType, NEW i \in Workers, AnswerOne(i)
    PROVE  QueriesType' /\ GoesAway(i)
  <1>1. /\ Leaves(i, pqW[i]) /\ Busy(pqW[i].pc) /\ UNCHANGED <<pqOp, pqMaps>>
        /\ pqHist' = [pqHist EXCEPT !.answers[i] = @ + 1]
    BY DEF AnswerOne, Busy
  <1>2. pqHist' \in HistStates /\ SameHist
    BY <1>1 DEF QueriesType, HistStates, SameHist
  <1> QED
    BY <1>1, <1>2, AwayIs, SameGlobals

-----------------------------------------------------------------------------
(* The subscription *)

LEMMA SubOnly ==
    ASSUME QueriesType, NEW i \in Workers, NEW sub \in Subs, NEW v,
           v = [pqW[i] EXCEPT !.sub = sub], SetW(i, v), UNCHANGED <<pqOp, pqMaps, pqChan>>,
           pqHist' \in HistStates, SameHist
    PROVE  /\ QueriesType' /\ Others(i) /\ pqW'[i].sub = sub /\ SameGoroutine(pqW[i], pqW'[i])
           /\ SameEvents(pqW[i], pqW'[i]) /\ SameClaims /\ SameEose /\ SameHist
  <1>1. WorkerOk(v) /\ SameGoroutine(pqW[i], v) /\ SameEvents(pqW[i], v) /\ v.sub = sub
    BY SameGlobals DEF WorkerOk, WorkerStates, SameGoroutine, SameEvents
  <1> QED
    BY <1>1, TypesStep, SameGlobals DEF SameEose

LEMMA EoseArrivesIs ==
    ASSUME QueriesType, NEW i \in Workers, NEW timer \in BOOLEAN, EoseArrives(i, timer)
    PROVE  QueriesType' /\ SubChanges(i)
  <1> DEFINE w == pqW[i]
             sub == [w.sub EXCEPT !.eosed = TRUE, !.timedOut = timer]
  <1>1. /\ w.sub.phase # "none" /\ ~w.sub.eosed /\ w.pc # "done"
        /\ timer \/ w.sinceNow \/ Held(i) \subseteq w.sub.sent
        /\ UNCHANGED <<pqOp, pqMaps, pqChan, pqHist>>
        /\ SetW(i, [w EXCEPT !.sub.eosed = TRUE, !.sub.timedOut = timer])
    BY DEF EoseArrives, Watched
  <1>2. sub \in Subs
    BY SameGlobals DEF Subs
  <1>3. [w EXCEPT !.sub.eosed = TRUE, !.sub.timedOut = timer] = [w EXCEPT !.sub = sub]
    BY SameGlobals DEF WorkerStates, Subs
  <1> HIDE DEF sub
  <1>4. /\ QueriesType' /\ Others(i) /\ pqW'[i].sub = sub /\ SameGoroutine(w, pqW'[i])
        /\ SameEvents(w, pqW'[i]) /\ SameClaims /\ SameEose /\ SameHist
    BY <1>1, <1>2, <1>3, SubOnly, SameGlobals
  <1> QED
    BY <1>1, <1>4 DEF SubChanges, sub

LEMMA EoseReadyIs ==
    ASSUME QueriesType, NEW i \in Workers, EoseReady(i)
    PROVE  QueriesType' /\ SubChanges(i)
  <1> DEFINE w == pqW[i]
             sub == [w.sub EXCEPT !.eose = "ready"]
  <1>1. /\ w.sub.eosed /\ w.sub.eose = "none" /\ w.pc # "done" /\ \A x \in w.waiting : ~x.stored
        /\ UNCHANGED <<pqOp, pqMaps, pqChan, pqHist>>
        /\ SetW(i, [w EXCEPT !.sub = sub])
    BY DEF EoseReady, Watched
  <1>2. sub \in Subs
    BY SameGlobals DEF Subs
  <1> HIDE DEF sub
  <1>3. /\ QueriesType' /\ Others(i) /\ pqW'[i].sub = sub /\ SameGoroutine(w, pqW'[i])
        /\ SameEvents(w, pqW'[i]) /\ SameClaims /\ SameEose /\ SameHist
    BY <1>1, <1>2, SubOnly, SameGlobals
  <1> QED
    BY <1>1, <1>3 DEF SubChanges, sub

LEMMA ClosedArrivesIs ==
    ASSUME QueriesType, NEW i \in Workers, NEW r \in {"auth", "other"}, ClosedArrives(i, r)
    PROVE  QueriesType' /\ SubChanges(i)
  <1> DEFINE w == pqW[i]
             sub == [w.sub EXCEPT !.reason = r]
  <1>1. UNCHANGED <<pqOp, pqMaps, pqChan>> /\ Fault /\ SetW(i, [w EXCEPT !.sub = sub])
    BY DEF ClosedArrives
  <1>2. sub \in Subs
    BY SameGlobals DEF Subs
  <1> HIDE DEF sub
  <1>3. /\ QueriesType' /\ Others(i) /\ pqW'[i].sub = sub /\ SameGoroutine(w, pqW'[i])
        /\ SameEvents(w, pqW'[i]) /\ SameClaims /\ SameEose /\ SameHist
    BY <1>1, <1>2, SubOnly, FaultIs
  <1> QED
    BY <1>3 DEF SubChanges, sub

LEMMA EndSubIs ==
    ASSUME NEW w, WorkerOk(w)
    PROVE  /\ WorkerOk(EndSub(w)) /\ SameGoroutine(w, EndSub(w)) /\ SameForward(w, EndSub(w))
           /\ EndSub(w).waiting = {}
           /\ EndSub(w).sub.phase = "closed" /\ EndSub(w).sub.sent = {}
           /\ EndSub(w).sub.eosed = w.sub.eosed /\ EndSub(w).sub.timedOut = w.sub.timedOut
           /\ EndSub(w).sub.eose = w.sub.eose
  <1> DEFINE sub == [NoSub EXCEPT !.phase = "closed", !.eosed = w.sub.eosed, !.eose = w.sub.eose,
                          !.reason = w.sub.reason, !.timedOut = w.sub.timedOut]
  <1>1. w.sub \in Subs /\ NoSub \in Subs /\ NoSub.sent = {}
    BY DEF WorkerOk, WorkerStates, NoSub, Subs
  <1>2. /\ sub \in Subs /\ sub.phase = "closed" /\ sub.sent = {} /\ sub.eosed = w.sub.eosed
        /\ sub.timedOut = w.sub.timedOut /\ sub.eose = w.sub.eose
    BY <1>1 DEF Subs
  <1> HIDE DEF sub
  <1>3. EndSub(w) = [w EXCEPT !.sub = sub, !.waiting = {}]
    BY DEF EndSub, sub
  <1>4. /\ WorkerOk(EndSub(w)) /\ SameGoroutine(w, EndSub(w)) /\ SameForward(w, EndSub(w))
        /\ EndSub(w).waiting = {} /\ EndSub(w).sub = sub
    BY <1>2, <1>3 DEF WorkerOk, WorkerStates, SameGoroutine, SameForward
  <1> QED
    BY <1>2, <1>4

LEMMA EventsClosedIs ==
    ASSUME QueriesType, NEW i \in Workers, EventsClosed(i)
    PROVE  QueriesType' /\ Ends(i)
  <1> DEFINE w == pqW[i]
  <1>1. /\ SetW(i, EndSub(w)) /\ Lost(EventIds(w.waiting)) /\ UNCHANGED <<pqOp, pqMaps, pqChan>>
    BY DEF EventsClosed
  <1>2. pqHist' \in HistStates /\ pqHist'.spoiled = pqHist.spoiled \cup EventIds(w.waiting)
        /\ pqHist'.out = pqHist.out /\ pqHist'.forgotten = pqHist.forgotten /\ pqHist'.cancelled = pqHist.cancelled
    BY <1>1, LostIs, WaitingIds
  <1>3. QueriesType' /\ Others(i) /\ pqW'[i] = EndSub(w)
    BY <1>1, <1>2, EndSubIs, TypesStep, SameGlobals
  <1> QED
    BY <1>1, <1>2, <1>3, EndSubIs, SameGlobals DEF Ends, SameEose, EventIds

LEMMA SubCancelledIs ==
    ASSUME QueriesType, NEW i \in Workers, SubCancelled(i)
    PROVE  QueriesType' /\ (SubChanges(i) \/ Ends(i))
  <1> DEFINE w == pqW[i]
             lost == IF Watched(i) THEN {} ELSE EventIds({x \in w.waiting : ~x.stored \/ w.sub.timedOut})
             fault == w.sub.reason = "none" /\ pqChan.ctx
             sub == [w.sub EXCEPT !.phase = "cancelled"]
  <1>1. /\ w.sub.phase = "open" /\ UNCHANGED <<pqOp, pqMaps, pqChan>>
        /\ pqHist' = [pqHist EXCEPT !.spoiled = @ \cup lost, !.faults = IF fault THEN @ + 1 ELSE @]
        /\ SetW(i, IF Watched(i) THEN [w EXCEPT !.sub = sub] ELSE EndSub(w))
    BY DEF SubCancelled
  <1>2. lost \subseteq PoolEvents
    BY SameGlobals DEF EventIds, WorkerStates, Arrivals
  <1> DEFINE n == IF fault THEN pqHist.faults + 1 ELSE pqHist.faults
  <1>3. n \in Nat
    BY DEF QueriesType, HistStates
  <1>4. pqHist' = [pqHist EXCEPT !.spoiled = @ \cup lost, !.faults = n]
    BY <1>1
  <1> HIDE DEF lost, n
  <1>5. /\ pqHist' \in HistStates /\ pqHist'.spoiled = pqHist.spoiled \cup lost
        /\ pqHist'.out = pqHist.out /\ pqHist'.forgotten = pqHist.forgotten /\ pqHist'.cancelled = pqHist.cancelled
    BY <1>2, <1>3, <1>4 DEF QueriesType, HistStates
  <1> HIDE DEF fault
  <1>6. CASE Watched(i)
    <2>1. SameHist
      BY <1>5, <1>6 DEF SameHist, lost
    <2>2. sub \in Subs
      BY SameGlobals DEF Subs
    <2> HIDE DEF sub
    <2>3. /\ QueriesType' /\ Others(i) /\ pqW'[i].sub = sub /\ SameGoroutine(w, pqW'[i])
          /\ SameEvents(w, pqW'[i]) /\ SameClaims /\ SameEose /\ SameHist
      BY <1>1, <1>5, <1>6, <2>1, <2>2, SubOnly
    <2> QED
      BY <1>1, <2>3 DEF SubChanges, sub
  <1>7. CASE ~Watched(i)
    <2>1. QueriesType' /\ Others(i) /\ pqW'[i] = EndSub(w)
      BY <1>1, <1>5, <1>7, EndSubIs, TypesStep, SameGlobals
    <2>2. \A x \in w.waiting : x.id \in lost \/ (w.pc = "done" /\ x.stored /\ ~w.sub.timedOut)
      BY <1>7, SameGlobals DEF lost, EventIds, Watched, WorkerStates, Arrivals, Subs
    <2> QED
      BY <1>1, <1>5, <2>1, <2>2, EndSubIs, SameGlobals DEF Ends, SameEose
  <1> QED
    BY <1>6, <1>7

LEMMA GiveUpIs ==
    ASSUME QueriesType, NEW i \in Workers, NEW x \in pqW[i].waiting, GiveUp(i, x)
    PROVE  QueriesType' /\ GivesUp(i, x)
  <1> DEFINE w == pqW[i]
             v == [w EXCEPT !.waiting = @ \ {x}]
  <1>1. SetW(i, v) /\ Lost({x.id}) /\ UNCHANGED <<pqOp, pqMaps, pqChan>>
    BY DEF GiveUp
  <1>2. {x.id} \in SUBSET PoolEvents /\ w.waiting \ {x} \in SUBSET Arrivals
    BY SameGlobals DEF WorkerStates, Arrivals
  <1>3. /\ WorkerOk(v) /\ SameGoroutine(w, v) /\ SameForward(w, v) /\ v.sub = w.sub /\ v.waiting = w.waiting \ {x}
    BY <1>2, SameGlobals DEF WorkerOk, WorkerStates, SameGoroutine, SameForward
  <1> HIDE DEF v
  <1>4. pqHist' \in HistStates
    BY <1>1, <1>2, LostIs
  <1>5. QueriesType' /\ Others(i) /\ pqW'[i] = v
    BY <1>1, <1>3, <1>4, TypesStep, SameGlobals
  <1> QED
    BY <1>1, <1>3, <1>5, SameGlobals DEF GivesUp, SameEose, Lost

LEMMA EventArrivesIs ==
    ASSUME QueriesType, NEW i \in Workers, NEW e \in PoolEvents, EventArrives(i, e)
    PROVE  QueriesType' /\ (SubChanges(i) \/ Arrives(i, e))
  <1> DEFINE w == pqW[i]
             sub == [w.sub EXCEPT !.sent = @ \cup {e}]
             forged == e \in BadAt[PoolUrls[i]]
             x == [id |-> e, stored |-> ~sub.eosed]
             waiting == IF forged THEN w.waiting ELSE w.waiting \cup {x}
  <1>1. w.sub.phase = "open" /\ UNCHANGED <<pqOp, pqChan>>
    BY DEF EventArrives
  <1>2. sub \in Subs /\ sub.eosed = w.sub.eosed
    BY SameGlobals DEF Subs
  <1>3. CASE IsDuplicate(i, e)
    <2>1. SetW(i, [w EXCEPT !.sub = sub]) /\ UNCHANGED <<pqMaps, pqHist>>
      BY <1>3 DEF EventArrives
    <2> HIDE DEF sub
    <2>2. /\ QueriesType' /\ Others(i) /\ pqW'[i].sub = sub /\ SameGoroutine(w, pqW'[i])
          /\ SameEvents(w, pqW'[i]) /\ SameClaims /\ SameEose /\ SameHist
      BY <1>1, <1>2, <2>1, SubOnly, SameGlobals
    <2> QED
      BY <1>1, <1>3, <2>2 DEF SubChanges, sub
  <1>4. CASE ~IsDuplicate(i, e)
    <2>1. /\ pqMaps' = IF pqOp = "latest" THEN [pqMaps EXCEPT !.latest[KeyOf[e]] = e]
                       ELSE [pqMaps EXCEPT !.seen = @ \cup {e}]
          /\ Lost({y \in {e} : forged})
          /\ SetW(i, [w EXCEPT !.sub = sub, !.waiting = IF forged THEN @ ELSE @ \cup {x}])
      BY <1>4 DEF EventArrives
    <2>2. x \in Arrivals
      BY <1>2 DEF Arrivals, Subs
    <2>3. waiting \in SUBSET Arrivals
      BY <2>2, SameGlobals DEF WorkerStates
    <2>4. pqMaps' \in MapStates
      BY <2>1 DEF QueriesType, MapStates, PoolKeys
    <2>5. /\ pqHist' \in HistStates
          /\ ~forged => SameHist
          /\ forged => pqHist' = [pqHist EXCEPT !.spoiled = @ \cup {e}]
      <3>1. {y \in {e} : forged} = IF forged THEN {e} ELSE {}
        OBVIOUS
      <3>2. pqHist' \in HistStates
        BY <2>1, LostIs
      <3>3. ~forged => SameHist
        BY <2>1, <3>1, LostIs DEF SameHist
      <3> QED
        BY <2>1, <3>1, <3>2, <3>3 DEF Lost
    <2>6. SetW(i, [w EXCEPT !.sub = sub, !.waiting = waiting])
      BY <2>1
    <2> HIDE DEF sub, waiting
    <2> DEFINE v == [w EXCEPT !.sub = sub, !.waiting = waiting]
    <2>10. WorkerOk(v) /\ SameGoroutine(w, v) /\ SameForward(w, v) /\ v.sub = sub /\ v.waiting = waiting
      BY <1>2, <2>3, SameGlobals DEF WorkerOk, WorkerStates, SameGoroutine, SameForward
    <2>11. SetW(i, v)
      BY <2>6
    <2> HIDE DEF v
    <2>7. /\ QueriesType' /\ Others(i) /\ SameGoroutine(w, pqW'[i]) /\ SameForward(w, pqW'[i])
          /\ pqW'[i].sub = sub /\ pqW'[i].waiting = waiting
      BY <1>1, <2>4, <2>5, <2>10, <2>11, TypesStep, SameGlobals
    <2>8. /\ ~forged => pqW'[i].waiting = w.waiting \cup {[id |-> e, stored |-> ~w.sub.eosed]}
          /\ forged => pqW'[i].waiting = w.waiting
      BY <1>2, <2>7 DEF waiting
    <2>9. pqW'[i].sub = [w.sub EXCEPT !.sent = @ \cup {e}]
      BY <2>7 DEF sub
    <2> HIDE DEF forged
    <2> QED
      BY <1>1, <1>4, <2>1, <2>5, <2>7, <2>8, <2>9, SameGlobals DEF Arrives, SameEose
  <1> QED
    BY <1>3, <1>4

-----------------------------------------------------------------------------
(* From the subscription to the consumer *)

LEMMA TakeEventIs ==
    ASSUME QueriesType, NEW i \in Workers, NEW x \in pqW[i].waiting, TakeEvent(i, x)
    PROVE  QueriesType' /\ TakesOne(i, x)
  <1> DEFINE w == pqW[i]
             l == IF pqOp = "latest" THEN "store" ELSE "send"
             rest == w.waiting \ {x}
             v == [w EXCEPT !.waiting = rest, !.hand = x.id, !.pc = l]
  <1>1. w.pc = "loop" /\ SetW(i, v) /\ UNCHANGED <<pqOp, pqMaps, pqChan, pqHist>>
    BY DEF TakeEvent, InLoop
  <1>2. x.id \in PoolEvents /\ x.id \in Hands /\ rest \in SUBSET Arrivals
    BY SameGlobals DEF WorkerStates, Arrivals, Hands
  <1>3. l \in {"send", "store"} /\ l \in WorkerSteps
    BY DEF WorkerSteps
  <1> HIDE DEF l, rest
  <1>4. /\ WorkerOk(v) /\ SameForward(w, v) /\ v.sub = w.sub /\ v.eosed = w.eosed /\ v.sinceNow = w.sinceNow
        /\ v.pc = l /\ v.hand = x.id /\ v.waiting = rest
    BY <1>2, <1>3, SameGlobals DEF WorkerOk, WorkerStates, SameForward
  <1> HIDE DEF v
  <1>5. QueriesType' /\ Others(i) /\ pqW'[i] = v
    BY <1>1, <1>4, TypesStep, SameGlobals
  <1> QED
    BY <1>1, <1>3, <1>4, <1>5, SameGlobals DEF TakesOne, SameEose, rest

LEMMA OutIs ==
    ASSUME QueriesType, NEW e \in PoolEvents, pqHist' = [pqHist EXCEPT !.out[e] = @ + 1]
    PROVE  pqHist' \in HistStates
  <1> DEFINE out == [pqHist.out EXCEPT ![e] = @ + 1]
  <1>1. out \in [PoolEvents -> Nat]
    BY DEF QueriesType, HistStates
  <1> HIDE DEF out
  <1>2. pqHist' = [pqHist EXCEPT !.out = out]
    BY DEF out
  <1> QED
    BY <1>1, <1>2 DEF QueriesType, HistStates

LEMMA ConsumeIs ==
    ASSUME QueriesType, NEW e \in PoolEvents, Consume(e)
    PROVE  /\ pqHist' = [pqHist EXCEPT !.out[e] = @ + 1] /\ pqHist' \in HistStates /\ pqChan' \in ChanStates
           /\ pqOp # "single" => pqChan'.ctx = pqChan.ctx
           /\ pqChan'.closed = pqChan.closed /\ pqChan'.eoseClosed = pqChan.eoseClosed
           /\ pqChan'.eoseWg = pqChan.eoseWg
  <1>1. pqHist' = [pqHist EXCEPT !.out[e] = @ + 1] /\ pqHist' \in HistStates
    BY OutIs DEF Consume
  <1>2. pqChan' = IF pqOp = "single" THEN [pqChan EXCEPT !.ctx = FALSE, !.reading = FALSE] ELSE pqChan
    BY DEF Consume
  <1> QED
    BY <1>1, <1>2 DEF QueriesType, ChanStates

\* What a goroutine does with what it holds, before it goes on.
LEMMA HandIs ==
    ASSUME QueriesType, NEW i \in Workers
    PROVE  /\ Nothing \in Hands /\ pqW[i].forward \in PoolEvents \cup {Nothing}
           /\ pqW[i].pc \in {"send", "store"} => pqW[i].hand \in PoolEvents
  BY SameGlobals DEF WorkerOk, WorkerStates, Hands

LEMMA SendOneIs ==
    ASSUME QueriesType, NEW i \in Workers, SendOne(i)
    PROVE  QueriesType' /\ (Delivers(i, pqW[i].hand) \/ HandsOver(i) \/ GoesAway(i))
  <1> DEFINE w == pqW[i]
             v == [w EXCEPT !.pc = "loop", !.hand = Nothing]
             u == [w EXCEPT !.pc = "loop", !.hand = Nothing, !.forward = w.hand]
  <1>1. /\ w.pc = "send" /\ UNCHANGED <<pqOp, pqMaps>>
        /\ \/ SetW(i, v) /\ Consume(w.hand)
           \/ pqOp \in Batched /\ w.forward = Nothing /\ ~w.finished /\ SetW(i, u) /\ UNCHANGED <<pqChan, pqHist>>
           \/ ~pqChan.ctx /\ Leaves(i, w) /\ UNCHANGED pqHist
    BY DEF SendOne
  <1>2. w.hand \in PoolEvents /\ Nothing \in Hands
    BY <1>1, HandIs
  <1>3. /\ WorkerOk(v) /\ v.sub = w.sub /\ v.eosed = w.eosed /\ v.sinceNow = w.sinceNow /\ v.pc = "loop"
        /\ v.waiting = w.waiting /\ v.finished = w.finished /\ v.forward = w.forward
    BY <1>2, SameGlobals DEF WorkerOk, WorkerStates, WorkerSteps
  <1>4. /\ WorkerOk(u) /\ u.sub = w.sub /\ u.eosed = w.eosed /\ u.sinceNow = w.sinceNow /\ u.pc = "loop"
        /\ u.waiting = w.waiting /\ u.finished = w.finished /\ u.forward = w.hand
    BY <1>2, SameGlobals DEF WorkerOk, WorkerStates, WorkerSteps
  <1> HIDE DEF v, u
  <1>5. CASE SetW(i, v) /\ Consume(w.hand)
    <2>1. QueriesType' /\ Others(i) /\ pqW'[i] = v
      BY <1>1, <1>2, <1>3, <1>5, ConsumeIs, TypesStep, SameGlobals
    <2> QED
      BY <1>1, <1>2, <1>3, <1>5, <2>1, ConsumeIs, SameGlobals DEF Delivers
  <1>6. CASE /\ pqOp \in Batched /\ w.forward = Nothing /\ ~w.finished /\ SetW(i, u)
             /\ UNCHANGED <<pqChan, pqHist>>
    <2>1. QueriesType' /\ Others(i) /\ pqW'[i] = u
      BY <1>1, <1>4, <1>6, TypesStep, SameGlobals
    <2> QED
      BY <1>1, <1>4, <1>6, <2>1, SameGlobals DEF HandsOver, SameEose
  <1>7. CASE ~pqChan.ctx /\ Leaves(i, w) /\ UNCHANGED pqHist
    BY <1>1, <1>7, AwayIs, SameGlobals
  <1> QED
    BY <1>1, <1>5, <1>6, <1>7

LEMMA StoreResultIs ==
    ASSUME QueriesType, NEW i \in Workers, StoreResult(i)
    PROVE  QueriesType' /\ Delivers(i, pqW[i].hand)
  <1> DEFINE w == pqW[i]
             v == [w EXCEPT !.pc = "loop", !.hand = Nothing]
  <1>1. /\ w.pc = "store" /\ UNCHANGED <<pqOp, pqChan>> /\ SetW(i, v)
        /\ pqMaps' = [pqMaps EXCEPT !.results[KeyOf[w.hand]] = w.hand]
        /\ pqHist' = [pqHist EXCEPT !.out[w.hand] = @ + 1]
    BY DEF StoreResult
  <1>2. w.hand \in PoolEvents /\ Nothing \in Hands
    BY <1>1, HandIs
  <1>3. /\ WorkerOk(v) /\ v.sub = w.sub /\ v.eosed = w.eosed /\ v.sinceNow = w.sinceNow /\ v.pc = "loop"
        /\ v.waiting = w.waiting /\ v.finished = w.finished /\ v.forward = w.forward
    BY <1>2, SameGlobals DEF WorkerOk, WorkerStates, WorkerSteps
  <1> HIDE DEF v
  <1>4. pqMaps' \in MapStates /\ SameClaims
    BY <1>1, <1>2 DEF QueriesType, MapStates, PoolKeys, SameClaims
  <1>5. QueriesType' /\ Others(i) /\ pqW'[i] = v
    BY <1>1, <1>2, <1>3, <1>4, OutIs, TypesStep, SameGlobals
  <1> QED
    BY <1>1, <1>3, <1>4, <1>5, SameGlobals DEF Delivers, SameCall

LEMMA ForwardIs ==
    ASSUME QueriesType, NEW i \in Workers, Forward(i)
    PROVE  QueriesType' /\ (Delivers(i, pqW[i].forward) \/ ForwarderEnds(i))
  <1> DEFINE w == pqW[i]
             v == [w EXCEPT !.forward = Nothing]
             u == [w EXCEPT !.finished = TRUE]
  <1>1. /\ w.forward # Nothing /\ ~w.finished /\ UNCHANGED <<pqOp, pqMaps>>
        /\ \/ SetW(i, v) /\ Consume(w.forward)
           \/ ~pqChan.ctx /\ SetW(i, u) /\ UNCHANGED <<pqChan, pqHist>>
    BY DEF Forward
  <1>2. w.forward \in PoolEvents
    BY <1>1, HandIs
  <1>3. /\ WorkerOk(v) /\ v.sub = w.sub /\ v.eosed = w.eosed /\ v.sinceNow = w.sinceNow /\ v.pc = w.pc
        /\ v.hand = w.hand /\ v.waiting = w.waiting /\ v.finished = w.finished /\ v.forward = Nothing
    BY SameGlobals DEF WorkerOk, WorkerStates
  <1>4. /\ WorkerOk(u) /\ u.sub = w.sub /\ SameGoroutine(w, u) /\ u.waiting = w.waiting /\ u.finished
        /\ u.forward = w.forward
    BY SameGlobals DEF WorkerOk, WorkerStates, SameGoroutine
  <1> HIDE DEF v, u
  <1>5. CASE SetW(i, v) /\ Consume(w.forward)
    <2>1. QueriesType' /\ Others(i) /\ pqW'[i] = v
      BY <1>1, <1>2, <1>3, <1>5, ConsumeIs, TypesStep, SameGlobals
    <2> QED
      BY <1>1, <1>2, <1>3, <1>5, <2>1, ConsumeIs, SameGlobals DEF Delivers
  <1>6. CASE ~pqChan.ctx /\ SetW(i, u) /\ UNCHANGED <<pqChan, pqHist>>
    <2>1. QueriesType' /\ Others(i) /\ pqW'[i] = u
      BY <1>1, <1>4, <1>6, TypesStep, SameGlobals
    <2> QED
      BY <1>1, <1>4, <1>6, <2>1, SameGlobals DEF ForwarderEnds, SameEose
  <1> QED
    BY <1>1, <1>5, <1>6

LEMMA ForwardEndsIs ==
    ASSUME QueriesType, NEW i \in Workers, ForwardEnds(i)
    PROVE  QueriesType' /\ ForwarderEnds(i)
  <1> DEFINE w == pqW[i]
             u == [w EXCEPT !.finished = TRUE]
  <1>1. /\ w.pc = "done" /\ w.forward = Nothing /\ ~w.finished /\ SetW(i, u)
        /\ UNCHANGED <<pqOp, pqMaps, pqChan, pqHist>>
    BY DEF ForwardEnds
  <1>2. /\ WorkerOk(u) /\ u.sub = w.sub /\ SameGoroutine(w, u) /\ u.waiting = w.waiting /\ u.finished
        /\ u.forward = w.forward
    BY SameGlobals DEF WorkerOk, WorkerStates, SameGoroutine
  <1> HIDE DEF u
  <1>3. QueriesType' /\ Others(i) /\ pqW'[i] = u
    BY <1>1, <1>2, TypesStep, SameGlobals
  <1> QED
    BY <1>1, <1>2, <1>3, SameGlobals DEF ForwarderEnds, SameEose

LEMMA EoseNoticedIs ==
    ASSUME QueriesType, NEW i \in Workers, EoseNoticed(i)
    PROVE  QueriesType' /\ SeesEose(i)
  <1> DEFINE w == pqW[i]
             sub == [w.sub EXCEPT !.eose = "taken"]
             v == [w EXCEPT !.sub = sub, !.eosed = TRUE]
             u == [w EXCEPT !.old = FALSE, !.eosed = TRUE]
  <1>1. pqOp \in Staying /\ CountEose(i) /\ (SetW(i, v) \/ SetW(i, u)) /\ UNCHANGED <<pqOp, pqMaps, pqHist>>
    BY DEF EoseNoticed
  <1>2. sub \in Subs
    BY SameGlobals DEF Subs
  <1> HIDE DEF sub
  <1>3. WorkerOk(v) /\ v.eosed /\ v.pc = w.pc /\ v.hand = w.hand /\ SameEvents(w, v)
    BY <1>2, SameGlobals DEF WorkerOk, WorkerStates, SameEvents
  <1>4. WorkerOk(u) /\ u.eosed /\ u.pc = w.pc /\ u.hand = w.hand /\ SameEvents(w, u)
    BY SameGlobals DEF WorkerOk, WorkerStates, SameEvents
  <1> HIDE DEF v, u
  <1>5. pqChan' \in ChanStates /\ SameCall /\ EoseCounted(i)
    BY <1>1 DEF CountEose, QueriesType, ChanStates, SameCall, EoseCounted
  <1>6. QueriesType' /\ Others(i) /\ pqW'[i] \in {u, v}
    BY <1>1, <1>3, <1>4, <1>5, TypesStep, SameGlobals
  <1> QED
    BY <1>1, <1>3, <1>4, <1>5, <1>6, SameGlobals DEF SeesEose

-----------------------------------------------------------------------------
(* Every step *)

WorkerMoves(i) ==
    \/ GoesAhead(i) \/ GoesAway(i) \/ SubscribesAgain(i) \/ SubChanges(i) \/ Ends(i)
    \/ HandsOver(i) \/ ForwarderEnds(i) \/ SeesEose(i)
    \/ \E e \in PoolEvents : Arrives(i, e) \/ Delivers(i, e)
    \/ \E x \in pqW[i].waiting : GivesUp(i, x) \/ TakesOne(i, x)

QueryMoves ==
    \/ \E i \in Workers, ids \in SUBSET pqMaps.seen : TakeTick(i, ids)
    \/ AllEnded \/ EoseChanCloses \/ CancelCall

LEMMA WorkerMovesIs ==
    ASSUME QueriesType, NEW i \in Workers,
           \/ RelayStep(i) \/ SubscriptionStep(i) \/ SubCancelled(i) \/ WorkerStep(i) \/ EoseNoticed(i)
           \/ \E x \in pqW[i].waiting : GiveUp(i, x)
    PROVE  QueriesType' /\ WorkerMoves(i) /\ pqOp' = pqOp
  <1>1. CASE RelayStep(i)
    <2>1. pqOp' = pqOp
      BY <1>1 DEF RelayStep, EventArrives, EoseArrives, ClosedArrives
    <2>2. \/ \E e \in PoolEvents : EventArrives(i, e)
          \/ \E timer \in BOOLEAN : EoseArrives(i, timer)
          \/ \E r \in {"auth", "other"} : ClosedArrives(i, r)
      BY <1>1 DEF RelayStep
    <2> QED
      BY <2>1, <2>2, EventArrivesIs, EoseArrivesIs, ClosedArrivesIs DEF WorkerMoves
  <1>2. CASE SubscriptionStep(i) \/ SubCancelled(i)
    <2>1. pqOp' = pqOp
      BY <1>2 DEF SubscriptionStep, EoseArrives, EoseReady, EventsClosed, SubCancelled
    <2>2. (\E timer \in BOOLEAN : EoseArrives(i, timer)) \/ EoseReady(i) \/ EventsClosed(i) \/ SubCancelled(i)
      BY <1>2 DEF SubscriptionStep
    <2> QED
      BY <2>1, <2>2, EoseArrivesIs, EoseReadyIs, EventsClosedIs, SubCancelledIs DEF WorkerMoves
  <1>3. CASE EoseNoticed(i)
    BY <1>3, EoseNoticedIs DEF WorkerMoves, EoseNoticed
  <1>4. CASE \E x \in pqW[i].waiting : GiveUp(i, x)
    BY <1>4, GiveUpIs DEF WorkerMoves, GiveUp
  <1>5. CASE WorkerStep(i)
    <2>1. CASE EnsureOne(i) \/ SubscribeOne(i) \/ SleepOne(i)
      <3>1. pqOp' = pqOp
        BY <2>1 DEF EnsureOne, SubscribeOne, SleepOne
      <3> QED
        BY <2>1, <3>1, EnsureOneIs, SubscribeOneIs, SleepOneIs DEF WorkerMoves
    <2>2. CASE \E x \in pqW[i].waiting : TakeEvent(i, x)
      BY <2>2, TakeEventIs DEF WorkerMoves, TakeEvent
    <2>3. CASE TakeEnd(i) \/ TakeEose(i) \/ TakeReason(i)
      <3>1. pqOp' = pqOp
        BY <2>3 DEF TakeEnd, TakeEose, TakeReason
      <3> QED
        BY <2>3, <3>1, TakeEndIs, TakeEoseIs, TakeReasonIs DEF WorkerMoves
    <2>4. CASE AuthOne(i) \/ TellClosed(i) \/ TakeDone(i)
      <3>1. pqOp' = pqOp
        BY <2>4 DEF AuthOne, TellClosed, TakeDone
      <3> QED
        BY <2>4, <3>1, AuthOneIs, TellOrDoneIs DEF WorkerMoves
    <2>5. CASE SendOne(i)
      <3>1. pqOp' = pqOp /\ pqW[i].hand \in PoolEvents
        BY <2>5, HandIs DEF SendOne
      <3> QED
        BY <2>5, <3>1, SendOneIs DEF WorkerMoves
    <2>6. CASE Forward(i) \/ ForwardEnds(i)
      <3>1. pqOp' = pqOp /\ (Forward(i) => pqW[i].forward \in PoolEvents)
        BY <2>6, HandIs DEF Forward, ForwardEnds
      <3> QED
        BY <2>6, <3>1, ForwardIs, ForwardEndsIs DEF WorkerMoves
    <2>7. CASE StoreResult(i)
      <3>1. pqOp' = pqOp /\ pqW[i].hand \in PoolEvents
        BY <2>7, HandIs DEF StoreResult
      <3> QED
        BY <2>7, <3>1, StoreResultIs DEF WorkerMoves
    <2>8. CASE PublishOne(i) \/ AnswerOne(i) \/ CountOne(i) \/ MergeOne(i)
      <3>1. pqOp' = pqOp
        BY <2>8 DEF PublishOne, AnswerOne, CountOne, MergeOne
      <3> QED
        BY <2>8, <3>1, PublishOneIs, AnswerOneIs, CountOneIs, MergeOneIs DEF WorkerMoves
    <2> QED
      BY <1>5, <2>1, <2>2, <2>3, <2>4, <2>5, <2>6, <2>7, <2>8 DEF WorkerStep
  <1> QED
    BY <1>1, <1>2, <1>3, <1>4, <1>5

LEMMA QueryMovesIs ==
    ASSUME QueriesType, QueryMoves
    PROVE  QueriesType' /\ pqOp' = pqOp /\ pqW' = pqW
  <1>1. ASSUME NEW i \in Workers, NEW ids \in SUBSET pqMaps.seen, TakeTick(i, ids)
        PROVE  QueriesType' /\ pqOp' = pqOp /\ pqW' = pqW
    <2>1. pqMaps' \in MapStates /\ pqHist' \in HistStates
      BY <1>1 DEF TakeTick, QueriesType, MapStates, HistStates
    <2> QED
      BY <1>1, <2>1 DEF TakeTick, QueriesType
  <1>2. CASE AllEnded
    <2>1. pqChan' \in ChanStates
      <3> DEFINE ctx == pqChan.ctx /\ pqOp \in {"publish", "count"}
      <3>1. ctx \in BOOLEAN /\ pqChan' = [pqChan EXCEPT !.closed = TRUE, !.ctx = ctx]
        BY <1>2 DEF AllEnded
      <3> HIDE DEF ctx
      <3> QED
        BY <3>1 DEF QueriesType, ChanStates
    <2> QED
      BY <1>2, <2>1 DEF AllEnded, QueriesType
  <1>3. CASE EoseChanCloses
    <2>1. pqChan' \in ChanStates
      BY <1>3 DEF EoseChanCloses, QueriesType, ChanStates
    <2> QED
      BY <1>3, <2>1 DEF EoseChanCloses, QueriesType
  <1>4. CASE CancelCall
    <2>1. pqChan' \in ChanStates
      BY <1>4 DEF CancelCall, QueriesType, ChanStates
    <2>2. pqHist' \in HistStates
      <3> DEFINE n == pqHist.faults + 1
      <3>1. n \in Nat /\ pqHist' = [pqHist EXCEPT !.cancelled = TRUE, !.faults = n]
        BY <1>4 DEF CancelCall, QueriesType, HistStates
      <3> HIDE DEF n
      <3> QED
        BY <3>1 DEF QueriesType, HistStates
    <2> QED
      BY <1>4, <2>1, <2>2 DEF CancelCall, QueriesType
  <1> QED
    BY <1>1, <1>2, <1>3, <1>4 DEF QueryMoves

LEMMA StepIs ==
    ASSUME QueriesType, [PoolQueriesNext]_pqVars
    PROVE  /\ QueriesType' /\ pqOp' = pqOp
           /\ (\E i \in Workers : WorkerMoves(i)) \/ QueryMoves \/ UNCHANGED pqVars
  <1>1. CASE UNCHANGED pqVars
    BY <1>1 DEF pqVars, QueriesType
  <1>2. ASSUME NEW i \in Workers,
               \/ RelayStep(i) \/ SubscriptionStep(i) \/ SubCancelled(i) \/ WorkerStep(i) \/ EoseNoticed(i)
               \/ \E x \in pqW[i].waiting : GiveUp(i, x)
        PROVE  QueriesType' /\ WorkerMoves(i) /\ pqOp' = pqOp
    BY <1>2, WorkerMovesIs
  <1>3. CASE QueryMoves
    BY <1>3, QueryMovesIs
  <1> QED
    BY <1>1, <1>2, <1>3 DEF PoolQueriesNext, QueryMoves

-----------------------------------------------------------------------------
(* Delivered once *)

InHand(w, e) == w.pc \in {"send", "store"} /\ w.hand = e
Waits(w, e) == \E x \in w.waiting : x.id = e
Carries(w, e) == InHand(w, e) \/ Waits(w, e) \/ w.forward = e

\* A goroutine has the event in one place at most.
CarriesOnce(w, e) ==
    /\ ~(InHand(w, e) /\ Waits(w, e)) /\ ~(InHand(w, e) /\ w.forward = e)
    /\ ~(Waits(w, e) /\ w.forward = e)
    /\ \A x, y \in w.waiting : x.id = e /\ y.id = e => x = y

Claimed(e) == IF pqOp = "latest" THEN e <= pqMaps.latest[KeyOf[e]] ELSE e \in pqMaps.seen

\* One goroutine has the event, or the consumer, or neither; nobody has one
\* that is not claimed.
OneCopy(e) ==
    /\ \A i \in Workers : CarriesOnce(pqW[i], e)
    /\ \A i, j \in Workers : Carries(pqW[i], e) /\ Carries(pqW[j], e) => i = j
    /\ \A i \in Workers : Carries(pqW[i], e) => pqHist.out[e] = 0 /\ Claimed(e)
    /\ pqHist.out[e] <= 1 /\ (pqHist.out[e] # 0 => Claimed(e))

OnceInv == \A e \in PoolEvents : e \in pqHist.forgotten \/ OneCopy(e)

\* v has no event that w had not, and none at another place.
NoMore(w, v) ==
    /\ \A e \in PoolEvents : InHand(v, e) => InHand(w, e)
    /\ v.waiting \subseteq w.waiting /\ (v.forward = w.forward \/ v.forward = Nothing)

LEMMA NoMoreStep ==
    ASSUME QueriesType, OnceInv, NEW i \in Workers, Others(i), NoMore(pqW[i], pqW'[i]), pqOp' = pqOp,
           SameClaims, pqHist'.out = pqHist.out, pqHist'.forgotten = pqHist.forgotten
    PROVE  OnceInv'
  <1> SUFFICES ASSUME NEW e \in PoolEvents, e \notin pqHist.forgotten
               PROVE  OneCopy(e)'
    BY DEF OnceInv
  <1>1. OneCopy(e) /\ (Claimed(e)' <=> Claimed(e)) /\ e # Nothing
    BY EventsAreNumbers DEF OnceInv, Claimed, SameClaims, Nothing
  <1>2. \A j \in Workers : Carries(pqW'[j], e) => Carries(pqW[j], e)
    BY <1>1 DEF Others, NoMore, Carries, Waits
  <1>3. CarriesOnce(pqW'[i], e)
    BY <1>1 DEF OneCopy, CarriesOnce, NoMore, Waits
  <1>4. \A j \in Workers : CarriesOnce(pqW'[j], e)
    BY <1>1, <1>3 DEF OneCopy, Others
  <1> QED
    BY <1>1, <1>2, <1>4 DEF OneCopy

LEMMA ArrivesOnce ==
    ASSUME QueriesType, OnceInv, NEW i \in Workers, NEW d \in PoolEvents, Arrives(i, d), pqOp' = pqOp, QueriesType'
    PROVE  OnceInv'
  <1> DEFINE w == pqW[i]
             v == pqW'[i]
  <1>1. /\ Others(i) /\ v.pc = w.pc /\ v.hand = w.hand /\ v.forward = w.forward
        /\ ~IsDuplicate(i, d)
        /\ v.waiting = w.waiting \/ v.waiting = w.waiting \cup {[id |-> d, stored |-> ~w.sub.eosed]}
    BY DEF Arrives, SameGoroutine, SameForward
  <1>2. pqHist'.out = pqHist.out /\ pqHist'.forgotten = pqHist.forgotten
    BY DEF Arrives, SameHist, QueriesType, HistStates
  <1>3. Claimed(d)' /\ ~Claimed(d) /\ \A e \in PoolEvents : Claimed(e) => Claimed(e)'
    <2>1. CASE pqOp = "latest"
      <3>1. \A k \in PoolKeys : pqMaps'.latest[k] = IF k = KeyOf[d] THEN d ELSE pqMaps.latest[k]
        BY <2>1 DEF Arrives, QueriesType, MapStates
      <3>2. \A e \in PoolEvents : KeyOf[e] \in PoolKeys
        BY DEF PoolKeys
      <3>3. \A k \in PoolKeys : pqMaps.latest[k] \in Nat
        <4>1. pqMaps.latest \in [PoolKeys -> PoolEvents \cup {0}]
          BY DEF QueriesType, MapStates
        <4>2. \A k \in PoolKeys : pqMaps.latest[k] \in PoolEvents \cup {0}
          BY <4>1
        <4>3. PoolEvents \cup {0} \subseteq Nat
          BY EventsAreNumbers
        <4> QED
          BY <4>2, <4>3
      <3>4. ~(d <= pqMaps.latest[KeyOf[d]])
        BY <1>1, <2>1 DEF IsDuplicate
      <3> QED
        BY <2>1, <3>1, <3>2, <3>3, <3>4, EventsAreNumbers DEF Claimed
    <2>2. CASE pqOp # "latest"
      BY <1>1, <2>2 DEF Arrives, Claimed, IsDuplicate, QueriesType, MapStates
    <2> QED
      BY <2>1, <2>2
  <1> HIDE DEF w, v
  <1> SUFFICES ASSUME NEW e \in PoolEvents, e \notin pqHist.forgotten
               PROVE  OneCopy(e)'
    BY <1>2 DEF OnceInv
  <1>4. OneCopy(e)
    BY DEF OnceInv
  <1>5. CASE e = d
    <2>1. \A j \in Workers : ~Carries(pqW[j], e) /\ pqHist.out[e] = 0
      BY <1>3, <1>4, <1>5 DEF OneCopy
    <2>2. ~InHand(w, e) /\ ~Waits(w, e) /\ w.forward # e
      BY <2>1 DEF Carries, w
    <2>3. ~InHand(v, e) /\ v.forward # e /\ \A x, y \in v.waiting : x.id = e /\ y.id = e => x = y
      BY <1>1, <2>2 DEF InHand, Waits, v, w
    <2>4. CarriesOnce(v, e)
      BY <2>3 DEF CarriesOnce
    <2>5. \A j \in Workers : j # i => ~Carries(pqW'[j], e) /\ CarriesOnce(pqW'[j], e)
      BY <1>1, <1>4, <2>1 DEF Others, OneCopy
    <2> QED
      BY <1>2, <1>3, <1>5, <2>1, <2>4, <2>5 DEF OneCopy, v
  <1>6. CASE e # d
    <2>1. (Carries(v, e) <=> Carries(w, e)) /\ (CarriesOnce(v, e) <=> CarriesOnce(w, e))
      <3>1. \A x \in v.waiting : x.id = e => x \in w.waiting
        BY <1>1, <1>6 DEF v, w
      <3>2. w.waiting \subseteq v.waiting /\ InHand(v, e) = InHand(w, e) /\ v.forward = w.forward
        BY <1>1 DEF v, w, InHand
      <3> QED
        BY <3>1, <3>2 DEF Carries, CarriesOnce, Waits
    <2>2. \A j \in Workers : (Carries(pqW'[j], e) <=> Carries(pqW[j], e)) /\ CarriesOnce(pqW'[j], e)
      BY <1>1, <1>4, <2>1 DEF Others, OneCopy, v, w
    <2> QED
      BY <1>2, <1>3, <1>4, <2>2 DEF OneCopy
  <1> QED
    BY <1>5, <1>6

\* A goroutine moves the event d, and no other one, from one place to another.
LEMMA OnwardOnce ==
    ASSUME QueriesType, OnceInv, NEW i \in Workers, NEW d \in PoolEvents, Others(i), pqOp' = pqOp, SameClaims,
           pqHist'.out = pqHist.out, pqHist'.forgotten = pqHist.forgotten,
           Carries(pqW[i], d),
           CarriesOnce(pqW[i], d) => CarriesOnce(pqW'[i], d),
           \A e \in PoolEvents : e # d => /\ Carries(pqW'[i], e) => Carries(pqW[i], e)
                                          /\ CarriesOnce(pqW[i], e) => CarriesOnce(pqW'[i], e)
    PROVE  OnceInv'
  <1> SUFFICES ASSUME NEW e \in PoolEvents, e \notin pqHist.forgotten
               PROVE  OneCopy(e)'
    BY DEF OnceInv
  <1>1. OneCopy(e) /\ (Claimed(e)' <=> Claimed(e))
    BY DEF OnceInv, Claimed, SameClaims
  <1>2. \A j \in Workers : (Carries(pqW'[j], e) => Carries(pqW[j], e)) /\ CarriesOnce(pqW'[j], e)
    BY <1>1 DEF Others, OneCopy
  <1> QED
    BY <1>1, <1>2 DEF OneCopy

LEMMA TakesOnce ==
    ASSUME QueriesType, OnceInv, NEW i \in Workers, NEW x \in pqW[i].waiting, TakesOne(i, x), pqOp' = pqOp
    PROVE  OnceInv'
  <1> DEFINE w == pqW[i]
             v == pqW'[i]
             d == x.id
  <1>1. /\ w.pc = "loop" /\ v.pc \in {"send", "store"} /\ v.hand = d /\ x \in w.waiting
        /\ v.waiting = w.waiting \ {x} /\ v.forward = w.forward
    BY DEF TakesOne, SameForward
  <1>2. d \in PoolEvents
    BY SameGlobals DEF WorkerStates, Arrivals
  <1>3. Carries(w, d)
    BY <1>1 DEF Carries, Waits
  <1> HIDE DEF w, v, d
  <1>4. CarriesOnce(w, d) => CarriesOnce(v, d)
    BY <1>1, d = x.id DEF CarriesOnce, InHand, Waits, d
  <1>5. ASSUME NEW e \in PoolEvents, e # d
        PROVE  (Carries(v, e) => Carries(w, e)) /\ (CarriesOnce(w, e) => CarriesOnce(v, e))
    BY <1>1, <1>5 DEF Carries, CarriesOnce, InHand, Waits
  <1>6. Others(i) /\ SameClaims /\ pqHist'.out = pqHist.out /\ pqHist'.forgotten = pqHist.forgotten
    BY DEF TakesOne, SameHist
  <1> QED
    BY <1>2, <1>3, <1>4, <1>5, <1>6, OnwardOnce DEF w, v

LEMMA HandsOverOnce ==
    ASSUME QueriesType, OnceInv, NEW i \in Workers, HandsOver(i), pqOp' = pqOp
    PROVE  OnceInv'
  <1> DEFINE w == pqW[i]
             v == pqW'[i]
             d == w.hand
  <1>1. /\ w.pc = "send" /\ v.pc = "loop" /\ v.waiting = w.waiting /\ w.forward = Nothing /\ v.forward = d
    BY DEF HandsOver
  <1>2. d \in PoolEvents
    BY <1>1, HandIs
  <1>3. Carries(w, d)
    BY <1>1 DEF Carries, InHand
  <1>4. CarriesOnce(w, d) => CarriesOnce(v, d)
    BY <1>1 DEF CarriesOnce, InHand, Waits
  <1>5. ASSUME NEW e \in PoolEvents, e # d
        PROVE  (Carries(v, e) => Carries(w, e)) /\ (CarriesOnce(w, e) => CarriesOnce(v, e))
    BY <1>1, <1>5 DEF Carries, CarriesOnce, InHand, Waits
  <1>6. Others(i) /\ SameClaims /\ pqHist'.out = pqHist.out /\ pqHist'.forgotten = pqHist.forgotten
    BY DEF HandsOver, SameHist
  <1> HIDE DEF w, v, d
  <1> QED
    BY <1>2, <1>3, <1>4, <1>5, <1>6, OnwardOnce DEF w, v

LEMMA DeliversOnce ==
    ASSUME QueriesType, OnceInv, NEW i \in Workers, NEW d \in PoolEvents, Delivers(i, d), pqOp' = pqOp
    PROVE  OnceInv'
  <1> DEFINE w == pqW[i]
             v == pqW'[i]
  <1>1. /\ Others(i) /\ SameClaims /\ v.waiting = w.waiting
        /\ \/ InHand(w, d) /\ v.pc = "loop" /\ v.forward = w.forward
           \/ w.forward = d /\ v.forward = Nothing /\ v.pc = w.pc /\ v.hand = w.hand
    BY DEF Delivers, InHand
  <1>2. /\ pqHist'.forgotten = pqHist.forgotten
        /\ \A e \in PoolEvents : pqHist'.out[e] = IF e = d THEN pqHist.out[d] + 1 ELSE pqHist.out[e]
    BY DEF Delivers, QueriesType, HistStates
  <1> SUFFICES ASSUME NEW e \in PoolEvents, e \notin pqHist.forgotten
               PROVE  OneCopy(e)'
    BY <1>2 DEF OnceInv
  <1>3. OneCopy(e) /\ (Claimed(e)' <=> Claimed(e)) /\ e # Nothing /\ pqHist.out[e] \in Nat
    BY <1>1, EventsAreNumbers DEF OnceInv, Claimed, SameClaims, Nothing, QueriesType, HistStates
  <1>4. Carries(w, d)
    BY <1>1 DEF Carries
  <1> HIDE DEF w, v
  <1>5. (Carries(v, e) => Carries(w, e)) /\ (CarriesOnce(w, e) => CarriesOnce(v, e))
    BY <1>1, <1>3 DEF Carries, CarriesOnce, InHand, Waits
  <1>6. \A j \in Workers : (Carries(pqW'[j], e) => Carries(pqW[j], e)) /\ CarriesOnce(pqW'[j], e)
    BY <1>1, <1>3, <1>5 DEF Others, OneCopy, w, v
  <1>7. CASE e # d
    BY <1>2, <1>3, <1>6, <1>7 DEF OneCopy
  <1>8. CASE e = d
    <2>1. CarriesOnce(w, d) /\ pqHist.out[d] = 0 /\ Claimed(d)
      BY <1>3, <1>4, <1>8 DEF OneCopy, w
    <2>2. ~Carries(v, d)
      BY <1>1, <1>3, <1>8, <2>1 DEF Carries, CarriesOnce, InHand, Waits
    <2>3. \A j \in Workers : ~Carries(pqW'[j], d)
      BY <1>1, <1>3, <1>4, <1>8, <2>2 DEF Others, OneCopy, w, v
    <2> QED
      BY <1>2, <1>3, <1>6, <1>8, <2>1, <2>3 DEF OneCopy
  <1> QED
    BY <1>7, <1>8

LEMMA OnceWorker ==
    ASSUME QueriesType, OnceInv, NEW i \in Workers, WorkerMoves(i), pqOp' = pqOp, QueriesType'
    PROVE  OnceInv'
  <1> DEFINE w == pqW[i]
             v == pqW'[i]
  <1>1. CASE GoesAhead(i)
    BY <1>1, NoMoreStep DEF GoesAhead, SameEvents, SameHist, NoMore, InHand, Busy
  <1>2. CASE GoesAway(i)
    BY <1>2, NoMoreStep DEF GoesAway, BecomesRemains, SameEvents, SameHist, NoMore, InHand
  <1>3. CASE SubscribesAgain(i)
    <2>1. pqHist'.out = pqHist.out /\ pqHist'.forgotten = pqHist.forgotten
      BY <1>3 DEF SubscribesAgain, QueriesType, HistStates
    <2> QED
      BY <1>3, <2>1, NoMoreStep DEF SubscribesAgain, SameForward, NoMore, InHand
  <1>4. CASE SubChanges(i)
    <2>1. NoMore(w, v) /\ Others(i) /\ SameClaims /\ SameHist
      BY <1>4 DEF SubChanges, SameGoroutine, SameEvents, NoMore, InHand
    <2> QED
      BY <2>1, NoMoreStep DEF SameHist
  <1>5. CASE Ends(i)
    BY <1>5, NoMoreStep DEF Ends, SameGoroutine, SameForward, NoMore, InHand
  <1>6. CASE HandsOver(i)
    BY <1>6, HandsOverOnce
  <1>7. CASE ForwarderEnds(i)
    BY <1>7, NoMoreStep DEF ForwarderEnds, SameGoroutine, SameHist, NoMore, InHand
  <1>8. CASE SeesEose(i)
    BY <1>8, NoMoreStep DEF SeesEose, SameEvents, SameHist, NoMore, InHand
  <1>9. CASE \E e \in PoolEvents : Arrives(i, e) \/ Delivers(i, e)
    BY <1>9, ArrivesOnce, DeliversOnce
  <1>10. ASSUME NEW x \in pqW[i].waiting, GivesUp(i, x)
         PROVE  OnceInv'
    <2>1. pqHist'.out = pqHist.out /\ pqHist'.forgotten = pqHist.forgotten
      BY <1>10 DEF GivesUp, QueriesType, HistStates
    <2> QED
      BY <1>10, <2>1, NoMoreStep DEF GivesUp, SameGoroutine, SameForward, NoMore, InHand
  <1> QED
    BY <1>1, <1>2, <1>3, <1>4, <1>5, <1>6, <1>7, <1>8, <1>9, <1>10, TakesOnce DEF WorkerMoves

LEMMA OnceCall ==
    ASSUME QueriesType, OnceInv, QueryMoves \/ UNCHANGED pqVars, pqOp' = pqOp, pqW' = pqW
    PROVE  OnceInv'
  <1>1. \A e \in PoolEvents :
            /\ pqHist'.out[e] = pqHist.out[e] /\ (e \in pqHist.forgotten => e \in pqHist'.forgotten)
            /\ Claimed(e) => Claimed(e)' \/ e \in pqHist'.forgotten
    <2>1. CASE AllEnded \/ EoseChanCloses \/ CancelCall \/ UNCHANGED pqVars
      BY <2>1 DEF AllEnded, EoseChanCloses, CancelCall, pqVars, Claimed, QueriesType, HistStates
    <2>2. ASSUME NEW i \in Workers, NEW ids \in SUBSET pqMaps.seen, TakeTick(i, ids)
          PROVE  \A e \in PoolEvents :
                    /\ pqHist'.out[e] = pqHist.out[e] /\ (e \in pqHist.forgotten => e \in pqHist'.forgotten)
                    /\ Claimed(e) => Claimed(e)' \/ e \in pqHist'.forgotten
      <3>1. pqMaps'.seen = pqMaps.seen \ ids /\ pqOp = "sub"
        BY <2>2 DEF TakeTick, QueriesType, MapStates
      <3>2. pqHist'.forgotten = pqHist.forgotten \cup ids /\ pqHist'.out = pqHist.out
        BY <2>2 DEF TakeTick, QueriesType, HistStates
      <3> QED
        BY <3>1, <3>2 DEF Claimed
    <2> QED
      BY <2>1, <2>2 DEF QueryMoves
  <1> QED
    BY <1>1 DEF OnceInv, OneCopy

LEMMA QueriesInit == PoolQueriesInit => QueriesType /\ OnceInv
  <1> SUFFICES ASSUME PoolQueriesInit PROVE QueriesType /\ OnceInv
    OBVIOUS
  <1> DEFINE skipped == {i \in Workers : pqOp \in {"sub", "publish"} /\ Repeats(i)}
             gone == [NewWorker("done") EXCEPT !.eosed = TRUE]
             fresh == NewWorker("ensure")
  <1>1. /\ WorkerOk(gone) /\ WorkerOk(fresh)
        /\ \A v \in {gone, fresh} : v.pc \in {"done", "ensure"} /\ v.waiting = {} /\ v.forward = Nothing
    <2>1. WorkerOk(NewWorker("done")) /\ WorkerOk(fresh)
      BY NewWorkerOk DEF WorkerSteps
    <2>2. \A v \in {NewWorker("done"), fresh} :
              v.pc \in {"done", "ensure"} /\ v.waiting = {} /\ v.forward = Nothing
      BY DEF NewWorker
    <2> QED
      BY <2>1, <2>2 DEF WorkerOk, WorkerStates
  <1> HIDE DEF skipped, gone, fresh
  <1>2. pqW = [i \in Workers |-> IF i \in skipped THEN gone ELSE fresh]
    BY DEF PoolQueriesInit, skipped, gone, fresh
  <1>3. pqW \in [Workers -> WorkerStates] /\ \A i \in Workers : WorkerOk(pqW[i]) /\ pqW[i] \in {gone, fresh}
    BY <1>1, <1>2 DEF WorkerOk
  <1>4. pqChan \in ChanStates
    <2>1. Len(PoolUrls) - Cardinality(skipped) \in Int
      BY WorkersAreFinite, FS_Subset, FS_CardinalityType DEF skipped
    <2>2. pqChan = [ctx |-> TRUE, closed |-> FALSE, eoseClosed |-> FALSE, reading |-> TRUE,
                    eoseWg |-> Len(PoolUrls) - Cardinality(skipped)]
      BY DEF PoolQueriesInit, skipped
    <2> QED
      BY <2>1, <2>2 DEF ChanStates
  <1>5. pqMaps \in MapStates
    BY DEF PoolQueriesInit, MapStates, Hands, Nothing
  <1>6. pqHist \in HistStates /\ \A e \in PoolEvents : pqHist.out[e] = 0
    BY DEF PoolQueriesInit, HistStates
  <1>7. \A i \in Workers : \A e \in PoolEvents : ~Carries(pqW[i], e) /\ CarriesOnce(pqW[i], e)
    BY <1>1, <1>3, EventsAreNumbers DEF Carries, CarriesOnce, InHand, Waits, Nothing
  <1>8. QueriesType
    BY <1>3, <1>4, <1>5, <1>6 DEF PoolQueriesInit, QueriesType
  <1>9. OnceInv
    BY <1>6, <1>7 DEF OnceInv, OneCopy
  <1> QED
    BY <1>8, <1>9

\* However many relays have an event, however often a goroutine subscribes
\* again and whatever fails, the consumer gets it once, unless the ticker of
\* SubscribeMany forgot its id: checking and storing an id is one step of the
\* map, so an event that is not claimed is nowhere on its way.
THEOREM PoolDeliversOnce == PoolQueriesInit /\ [][PoolQueriesNext]_pqVars => []DeliveredOnce
  <1>1. QueriesType /\ OnceInv /\ [PoolQueriesNext]_pqVars => QueriesType' /\ OnceInv'
    <2> SUFFICES ASSUME QueriesType, OnceInv, [PoolQueriesNext]_pqVars
                 PROVE  QueriesType' /\ OnceInv'
      OBVIOUS
    <2>1. /\ QueriesType' /\ pqOp' = pqOp
          /\ (\E i \in Workers : WorkerMoves(i)) \/ QueryMoves \/ UNCHANGED pqVars
      BY StepIs
    <2>2. CASE \E i \in Workers : WorkerMoves(i)
      BY <2>1, <2>2, OnceWorker
    <2>3. CASE QueryMoves \/ UNCHANGED pqVars
      <3>1. pqW' = pqW
        BY <2>3, QueryMovesIs DEF pqVars
      <3> QED
        BY <2>1, <2>3, <3>1, OnceCall
    <2> QED
      BY <2>1, <2>2, <2>3
  <1>2. OnceInv => DeliveredOnce
    BY DEF OnceInv, OneCopy, DeliveredOnce
  <1> QED
    BY <1>1, <1>2, QueriesInit, PTL

-----------------------------------------------------------------------------
(* The EOSE of all *)

Waiting(i) == ~pqW[i].eosed

EoseInv ==
    /\ pqChan.eoseWg = Cardinality({i \in Workers : Waiting(i)})
    /\ pqChan.eoseClosed => \A i \in Workers : pqW[i].eosed

LEMMA EoseSame ==
    ASSUME EoseInv, NEW i \in Workers, Others(i), pqW'[i].eosed = pqW[i].eosed,
           pqChan'.eoseWg = pqChan.eoseWg, pqChan'.eoseClosed = pqChan.eoseClosed
    PROVE  EoseInv'
  <1>1. \A j \in Workers : Waiting(j)' <=> Waiting(j)
    BY DEF Others, Waiting
  <1>2. {j \in Workers : Waiting(j)}' = {j \in Workers : Waiting(j)}
    BY <1>1
  <1>3. \A j \in Workers : pqW[j].eosed => pqW'[j].eosed
    BY DEF Others
  <1> QED
    BY <1>2, <1>3 DEF EoseInv

LEMMA EoseDown ==
    ASSUME EoseInv, NEW i \in Workers, Others(i), pqW'[i].eosed, EoseCounted(i),
           pqChan'.eoseClosed = pqChan.eoseClosed
    PROVE  EoseInv'
  <1> DEFINE S == {j \in Workers : Waiting(j)}
  <1>1. IsFiniteSet(S)
    BY WorkersAreFinite, FS_Subset
  <1>2. S' = S \ {i}
    BY DEF Others, Waiting
  <1>3. Cardinality(S \ {i}) = IF i \in S THEN Cardinality(S) - 1 ELSE Cardinality(S)
    BY <1>1, FS_RemoveElement
  <1>4. i \in S <=> ~pqW[i].eosed
    BY DEF Waiting
  <1>5. pqChan.eoseWg = Cardinality(S)
    BY DEF EoseInv
  <1> HIDE DEF S
  <1>6. pqChan'.eoseWg = Cardinality(S')
    BY <1>2, <1>3, <1>4, <1>5 DEF EoseCounted
  <1>7. pqChan'.eoseClosed => \A j \in Workers : pqW'[j].eosed
    BY DEF EoseInv, Others
  <1> QED
    BY <1>6, <1>7 DEF EoseInv, S

LEMMA EoseWorker ==
    ASSUME EoseInv, NEW i \in Workers, WorkerMoves(i)
    PROVE  EoseInv'
  <1>1. CASE GoesAway(i) \/ SeesEose(i)
    BY <1>1, EoseDown DEF GoesAway, SeesEose, BecomesRemains, SameCall
  <1>2. CASE GoesAhead(i) \/ SubscribesAgain(i) \/ SubChanges(i) \/ Ends(i)
    <2>1. Others(i) /\ pqW'[i].eosed = pqW[i].eosed /\ SameEose
      BY <1>2 DEF GoesAhead, SubscribesAgain, SubChanges, Ends, SameGoroutine, SameEose
    <2> QED
      BY <2>1, EoseSame DEF SameEose, SameCall
  <1>3. CASE HandsOver(i) \/ ForwarderEnds(i) \/ \E e \in PoolEvents : Arrives(i, e)
    <2>1. Others(i) /\ pqW'[i].eosed = pqW[i].eosed /\ SameEose
      BY <1>3 DEF HandsOver, ForwarderEnds, Arrives, SameGoroutine
    <2> QED
      BY <2>1, EoseSame DEF SameEose, SameCall
  <1>4. CASE \E x \in pqW[i].waiting : GivesUp(i, x) \/ TakesOne(i, x)
    <2>1. Others(i) /\ pqW'[i].eosed = pqW[i].eosed /\ SameEose
      BY <1>4 DEF GivesUp, TakesOne, SameGoroutine
    <2> QED
      BY <2>1, EoseSame DEF SameEose, SameCall
  <1>5. CASE \E e \in PoolEvents : Delivers(i, e)
    BY <1>5, EoseSame DEF Delivers
  <1> QED
    BY <1>1, <1>2, <1>3, <1>4, <1>5 DEF WorkerMoves

LEMMA EoseCall ==
    ASSUME QueriesType, EoseInv, QueryMoves \/ UNCHANGED pqVars, pqW' = pqW
    PROVE  EoseInv'
  <1> DEFINE S == {j \in Workers : Waiting(j)}
  <1>1. S' = S /\ IsFiniteSet(S) /\ pqChan.eoseWg = Cardinality(S)
    BY WorkersAreFinite, FS_Subset DEF Waiting, EoseInv
  <1>2. pqChan'.eoseWg = pqChan.eoseWg /\ (pqChan'.eoseClosed => pqChan.eoseClosed \/ pqChan.eoseWg = 0)
    <2>1. CASE AllEnded
      BY <2>1 DEF AllEnded, QueriesType, ChanStates
    <2>2. CASE EoseChanCloses
      BY <2>2 DEF EoseChanCloses, QueriesType, ChanStates
    <2>3. CASE CancelCall
      BY <2>3 DEF CancelCall, QueriesType, ChanStates
    <2>4. CASE UNCHANGED pqVars \/ \E i \in Workers, ids \in SUBSET pqMaps.seen : TakeTick(i, ids)
      BY <2>4 DEF pqVars, TakeTick
    <2> QED
      BY <2>1, <2>2, <2>3, <2>4 DEF QueryMoves
  <1>3. Cardinality(S) = 0 => S = {}
    BY <1>1, FS_EmptySet
  <1>4. S = {} => \A i \in Workers : pqW[i].eosed
    BY DEF Waiting
  <1> HIDE DEF S
  <1>5. pqChan'.eoseWg = Cardinality(S')
    BY <1>1, <1>2
  <1>6. pqChan'.eoseClosed => \A i \in Workers : pqW'[i].eosed
    BY <1>1, <1>2, <1>3, <1>4 DEF EoseInv
  <1> QED
    BY <1>5, <1>6 DEF EoseInv, S

LEMMA EoseInit == PoolQueriesInit => EoseInv
  <1> SUFFICES ASSUME PoolQueriesInit PROVE EoseInv
    OBVIOUS
  <1> DEFINE skipped == {i \in Workers : pqOp \in {"sub", "publish"} /\ Repeats(i)}
             gone == [NewWorker("done") EXCEPT !.eosed = TRUE]
             fresh == NewWorker("ensure")
             S == {i \in Workers : Waiting(i)}
  <1>1. gone.eosed /\ ~fresh.eosed
    <2>1. WorkerOk(NewWorker("done")) /\ ~fresh.eosed
      BY NewWorkerOk DEF WorkerSteps, NewWorker
    <2> QED
      BY <2>1 DEF WorkerOk, WorkerStates
  <1> HIDE DEF gone, fresh
  <1>2. pqW = [i \in Workers |-> IF i \in skipped THEN gone ELSE fresh]
    BY DEF PoolQueriesInit, gone, fresh
  <1>3. pqChan.eoseWg = Len(PoolUrls) - Cardinality(skipped) /\ ~pqChan.eoseClosed
    BY DEF PoolQueriesInit
  <1>4. skipped \subseteq Workers
    OBVIOUS
  <1> HIDE DEF skipped
  <1>5. S = Workers \ skipped
    BY <1>1, <1>2 DEF Waiting
  <1>6. /\ Cardinality(Workers \ skipped) = Cardinality(Workers) - Cardinality(Workers \cap skipped)
        /\ Workers \cap skipped = skipped
    BY <1>4, WorkersAreFinite, FS_Difference, FS_Subset
  <1> HIDE DEF S
  <1>7. pqChan.eoseWg = Cardinality(S)
    BY <1>3, <1>5, <1>6, WorkersAreFinite
  <1> QED
    BY <1>3, <1>7 DEF EoseInv, S

\* The channel that tells that all relays have sent what they stored is closed
\* when each of them has, or was given up: a goroutine counts down once,
\* however many subscriptions it opens and whichever of its ends comes first.
THEOREM PoolEoseIsOfAll == PoolQueriesInit /\ [][PoolQueriesNext]_pqVars => []EoseWhenAll
  <1>1. QueriesType /\ EoseInv /\ [PoolQueriesNext]_pqVars => QueriesType' /\ EoseInv'
    <2> SUFFICES ASSUME QueriesType, EoseInv, [PoolQueriesNext]_pqVars
                 PROVE  QueriesType' /\ EoseInv'
      OBVIOUS
    <2>1. /\ QueriesType' /\ pqOp' = pqOp
          /\ (\E i \in Workers : WorkerMoves(i)) \/ QueryMoves \/ UNCHANGED pqVars
      BY StepIs
    <2>2. CASE \E i \in Workers : WorkerMoves(i)
      BY <2>1, <2>2, EoseWorker
    <2>3. CASE QueryMoves \/ UNCHANGED pqVars
      <3>1. pqW' = pqW
        BY <2>3, QueryMovesIs DEF pqVars
      <3> QED
        BY <2>1, <2>3, <3>1, EoseCall
    <2> QED
      BY <2>1, <2>2, <2>3
  <1>2. EoseInv => EoseWhenAll
    BY DEF EoseInv, EoseWhenAll, Waiting
  <1> QED
    BY <1>1, <1>2, QueriesInit, EoseInit, PTL

-----------------------------------------------------------------------------
(* Fetched completely *)

Fetching == pqOp \in {"fetch", "batchQuery"}

\* A subscription that is gone keeps nothing; its EOSE comes after the stored
\* events; a goroutine that left before the EOSE counts as timed out.
SubInv(w) ==
    /\ w.sub.phase \in {"none", "closed"} => w.waiting = {}
    /\ w.sub.eose # "none" => w.sub.eosed /\ \A x \in w.waiting : ~x.stored
    /\ w.pc = "done" => w.sub.timedOut \/ w.sub.eose = "taken"

\* What the relay has sent is claimed.
SeenInv(i) ==
    /\ ~pqW[i].sinceNow
    /\ pqW[i].sub.sent \subseteq pqMaps.seen
    /\ pqW[i].sub.eosed /\ ~pqW[i].sub.timedOut => Held(i) \subseteq pqMaps.seen

\* A goroutine or a forwarder that has ended keeps nothing, or the call was
\* cancelled.
EndInv(i) ==
    /\ pqOp \notin Batched => pqW[i].forward = Nothing
    /\ pqW[i].finished \/ pqChan.closed =>
          pqHist.cancelled \/ (pqW[i].pc = "done" /\ pqW[i].forward = Nothing)

WorkerInv(i) == SubInv(pqW[i]) /\ SeenInv(i) /\ EndInv(i)

\* A claimed event is with the consumer, given up, or still on its way.
NoneLost ==
    \A e \in pqMaps.seen :
        \/ pqHist.out[e] # 0 \/ e \in pqHist.spoiled \/ pqHist.cancelled
        \/ \E i \in Workers : Carries(pqW[i], e)

FetchInv ==
    Fetching => /\ \A i \in Workers : WorkerInv(i)
                /\ pqChan.ctx \/ pqHist.cancelled \/ pqChan.closed
                /\ pqHist.forgotten = {}
                /\ NoneLost

LEMMA FetchStep ==
    ASSUME QueriesType, FetchInv, Fetching, NEW i \in Workers, Others(i), pqOp' = pqOp,
           pqMaps.seen \subseteq pqMaps'.seen, SameCall,
           pqHist'.forgotten = pqHist.forgotten, pqHist'.cancelled = pqHist.cancelled,
           pqHist.spoiled \subseteq pqHist'.spoiled,
           \A e \in PoolEvents : pqHist.out[e] # 0 => pqHist'.out[e] # 0,
           WorkerInv(i)',
           \A e \in PoolEvents : Carries(pqW[i], e) =>
               \/ pqHist.cancelled \/ Carries(pqW'[i], e) \/ pqHist'.out[e] # 0 \/ e \in pqHist'.spoiled,
           \A e \in pqMaps'.seen \ pqMaps.seen : Carries(pqW'[i], e) \/ e \in pqHist'.spoiled
    PROVE  FetchInv'
  <1>1. \A j \in Workers : j # i => WorkerInv(j)'
    <2> SUFFICES ASSUME NEW j \in Workers, j # i
                 PROVE  WorkerInv(j)'
      OBVIOUS
    <2>1. pqW'[j] = pqW[j] /\ WorkerInv(j) /\ Held(j)' = Held(j)
      BY DEF Others, FetchInv, Held
    <2>2. SubInv(pqW'[j]) /\ SeenInv(j)'
      BY <2>1 DEF WorkerInv, SeenInv
    <2>3. EndInv(j)'
      BY <2>1 DEF WorkerInv, EndInv, SameCall
    <2> QED
      BY <2>2, <2>3 DEF WorkerInv
  <1>2. NoneLost'
    <2> SUFFICES ASSUME NEW e \in pqMaps'.seen, ~pqHist.cancelled, e \notin pqHist'.spoiled,
                        e \in pqMaps.seen, pqHist'.out[e] = 0
                 PROVE  \E j \in Workers : Carries(pqW'[j], e)
      BY DEF NoneLost
    <2>1. e \in PoolEvents
      BY DEF QueriesType, MapStates
    <2>2. PICK j \in Workers : Carries(pqW[j], e)
      BY <2>1 DEF FetchInv, NoneLost
    <2> QED
      BY <2>1, <2>2 DEF Others
  <1>3. pqChan'.ctx \/ pqHist'.cancelled \/ pqChan'.closed
    BY DEF FetchInv, SameCall
  <1> QED
    BY <1>1, <1>2, <1>3 DEF FetchInv

LEMMA FetchAhead ==
    ASSUME QueriesType, FetchInv, Fetching, NEW i \in Workers, GoesAhead(i), pqOp' = pqOp
    PROVE  FetchInv'
  <1> DEFINE w == pqW[i]
             v == pqW'[i]
  <1>1. /\ Others(i) /\ Busy(w.pc) /\ Busy(v.pc) /\ SameEvents(w, v) /\ SameSub(w, v) /\ v.sinceNow = w.sinceNow
        /\ SameClaims /\ SameHist /\ SameCall
    BY DEF GoesAhead, Fetching, Staying
  <1>2. WorkerInv(i) /\ Held(i)' = Held(i)
    BY DEF FetchInv, Held
  <1>3. SubInv(v)
    BY <1>1, <1>2 DEF WorkerInv, SubInv, SameSub, SameEvents, Busy
  <1>4. SeenInv(i)'
    BY <1>1, <1>2 DEF WorkerInv, SeenInv, SameSub, SameClaims
  <1>5. EndInv(i)'
    BY <1>1, <1>2 DEF WorkerInv, EndInv, SameEvents, SameCall, SameHist, Busy
  <1>6. \A e \in PoolEvents : Carries(w, e) => Carries(v, e)
    BY <1>1 DEF Carries, InHand, Waits, SameEvents, Busy
  <1> QED
    BY <1>1, <1>3, <1>4, <1>5, <1>6, FetchStep DEF WorkerInv, SameClaims, SameHist

LEMMA FetchAway ==
    ASSUME QueriesType, FetchInv, Fetching, NEW i \in Workers, GoesAway(i), pqOp' = pqOp
    PROVE  FetchInv'
  <1> DEFINE w == pqW[i]
             v == pqW'[i]
  <1>1. /\ Others(i) /\ w.pc # "done" /\ w.pc # "store" /\ (w.pc = "send" => ~pqChan.ctx)
        /\ BecomesRemains(w, v) /\ SameClaims /\ SameHist /\ SameCall
    BY DEF GoesAway
  <1>2. WorkerInv(i) /\ Held(i)' = Held(i) /\ (pqChan.ctx \/ pqHist.cancelled \/ pqChan.closed)
    BY DEF FetchInv, Held
  <1>3. SubInv(v)
    BY <1>1, <1>2 DEF WorkerInv, SubInv, BecomesRemains, SameEvents
  <1>4. SeenInv(i)'
    BY <1>1, <1>2 DEF WorkerInv, SubInv, SeenInv, BecomesRemains, SameClaims
  <1>5. EndInv(i)'
    BY <1>1, <1>2 DEF WorkerInv, EndInv, BecomesRemains, SameEvents, SameCall, SameHist
  <1>6. \A e \in PoolEvents : Carries(w, e) => pqHist.cancelled \/ Carries(v, e)
    BY <1>1, <1>2 DEF WorkerInv, EndInv, Carries, InHand, Waits, BecomesRemains, SameEvents
  <1> QED
    BY <1>1, <1>3, <1>4, <1>5, <1>6, FetchStep DEF WorkerInv, SameClaims, SameHist

LEMMA FetchAgain ==
    ASSUME QueriesType, FetchInv, Fetching, NEW i \in Workers, SubscribesAgain(i), pqOp' = pqOp
    PROVE  FetchInv'
  <1> DEFINE w == pqW[i]
             v == pqW'[i]
  <1>1. /\ Others(i) /\ w.pc = "subscribe" /\ v.pc = "loop" /\ SameForward(w, v) /\ v.waiting = {}
        /\ v.sinceNow = w.sinceNow /\ SameClaims /\ SameCall
    BY DEF SubscribesAgain, SameEose
  <1>2. v.sub.phase = "open" /\ ~v.sub.eosed /\ v.sub.eose = "none" /\ v.sub.sent = {}
    BY DEF SubscribesAgain, NoSub
  <1>3. /\ pqHist'.out = pqHist.out /\ pqHist'.forgotten = pqHist.forgotten
        /\ pqHist'.cancelled = pqHist.cancelled /\ pqHist'.spoiled = pqHist.spoiled \cup EventIds(w.waiting)
    BY DEF SubscribesAgain, QueriesType, HistStates
  <1>4. WorkerInv(i)
    BY DEF FetchInv
  <1>5. SubInv(v)
    BY <1>1, <1>2 DEF SubInv
  <1>6. SeenInv(i)'
    BY <1>1, <1>2, <1>4 DEF WorkerInv, SeenInv
  <1>7. EndInv(i)'
    BY <1>1, <1>3, <1>4 DEF WorkerInv, EndInv, SameForward, SameCall
  <1>8. \A e \in PoolEvents : Carries(w, e) => Carries(v, e) \/ e \in pqHist'.spoiled
    BY <1>1, <1>3 DEF Carries, InHand, Waits, SameForward, EventIds
  <1> QED
    BY <1>1, <1>3, <1>5, <1>6, <1>7, <1>8, FetchStep DEF WorkerInv, SameClaims

LEMMA FetchSub ==
    ASSUME QueriesType, FetchInv, Fetching, NEW i \in Workers, SubChanges(i), pqOp' = pqOp
    PROVE  FetchInv'
  <1> DEFINE w == pqW[i]
             v == pqW'[i]
  <1>1. /\ Others(i) /\ SameGoroutine(w, v) /\ SameEvents(w, v) /\ SameClaims /\ SameCall /\ SameHist
    BY DEF SubChanges, SameEose
  <1>2. WorkerInv(i) /\ Held(i)' = Held(i) /\ w.sub \in Subs
    BY SameGlobals DEF FetchInv, Held
  <1>3. SubInv(v) /\ SeenInv(i)'
    <2>1. CASE \E e \in PoolEvents : IsDuplicate(i, e) /\ w.sub.phase = "open" /\ v.sub = [w.sub EXCEPT !.sent = @ \cup {e}]
      <3>1. PICK e \in PoolEvents : IsDuplicate(i, e) /\ v.sub = [w.sub EXCEPT !.sent = @ \cup {e}]
        BY <2>1
      <3>2. /\ v.sub.phase = w.sub.phase /\ v.sub.eosed = w.sub.eosed /\ v.sub.timedOut = w.sub.timedOut
            /\ v.sub.eose = w.sub.eose /\ v.sub.sent = w.sub.sent \cup {e}
        BY <1>2, <3>1 DEF Subs
      <3>3. e \in pqMaps.seen
        BY <3>1 DEF IsDuplicate, Fetching
      <3> QED
        BY <1>1, <1>2, <3>2, <3>3 DEF WorkerInv, SubInv, SeenInv, SameGoroutine, SameEvents, SameClaims
    <2>2. CASE \E timer \in BOOLEAN :
                  /\ w.sub.phase # "none" /\ ~w.sub.eosed /\ w.pc # "done"
                  /\ timer \/ w.sinceNow \/ Held(i) \subseteq w.sub.sent
                  /\ v.sub = [w.sub EXCEPT !.eosed = TRUE, !.timedOut = timer]
      <3>1. PICK timer \in BOOLEAN :
                  /\ w.sub.phase # "none" /\ ~w.sub.eosed /\ w.pc # "done"
                  /\ timer \/ w.sinceNow \/ Held(i) \subseteq w.sub.sent
                  /\ v.sub = [w.sub EXCEPT !.eosed = TRUE, !.timedOut = timer]
        BY <2>2
      <3>2. /\ v.sub.phase = w.sub.phase /\ v.sub.eosed /\ (v.sub.timedOut <=> timer)
            /\ v.sub.eose = w.sub.eose /\ v.sub.sent = w.sub.sent
        BY <1>2, <3>1 DEF Subs
      <3> QED
        BY <1>1, <1>2, <3>1, <3>2 DEF WorkerInv, SubInv, SeenInv, SameGoroutine, SameEvents, SameClaims
    <2>3. CASE /\ w.sub.eosed /\ w.sub.eose = "none" /\ \A x \in w.waiting : ~x.stored
               /\ w.pc # "done" /\ v.sub = [w.sub EXCEPT !.eose = "ready"]
      <3>1. /\ v.sub.phase = w.sub.phase /\ v.sub.eosed = w.sub.eosed /\ v.sub.timedOut = w.sub.timedOut
            /\ v.sub.eose = "ready" /\ v.sub.sent = w.sub.sent
        BY <1>2, <2>3 DEF Subs
      <3> QED
        BY <1>1, <1>2, <2>3, <3>1 DEF WorkerInv, SubInv, SeenInv, SameGoroutine, SameEvents, SameClaims
    <2>4. CASE \/ \E r \in {"auth", "other"} : v.sub = [w.sub EXCEPT !.reason = r]
               \/ w.sub.phase = "open" /\ v.sub = [w.sub EXCEPT !.phase = "cancelled"]
      <3>1. /\ v.sub.phase \in {w.sub.phase, "cancelled"} /\ v.sub.eosed = w.sub.eosed
            /\ v.sub.timedOut = w.sub.timedOut
            /\ v.sub.eose = w.sub.eose /\ v.sub.sent = w.sub.sent
        BY <1>2, <2>4 DEF Subs
      <3> QED
        BY <1>1, <1>2, <3>1 DEF WorkerInv, SubInv, SeenInv, SameGoroutine, SameEvents, SameClaims
    <2> QED
      BY <2>1, <2>2, <2>3, <2>4 DEF SubChanges
  <1>4. EndInv(i)'
    BY <1>1, <1>2 DEF WorkerInv, EndInv, SameGoroutine, SameEvents, SameCall, SameHist
  <1>5. \A e \in PoolEvents : Carries(w, e) => Carries(v, e)
    BY <1>1 DEF Carries, InHand, Waits, SameGoroutine, SameEvents
  <1> QED
    BY <1>1, <1>3, <1>4, <1>5, FetchStep DEF WorkerInv, SameClaims, SameHist

LEMMA FetchArrives ==
    ASSUME QueriesType, FetchInv, Fetching, NEW i \in Workers, NEW d \in PoolEvents, Arrives(i, d), pqOp' = pqOp
    PROVE  FetchInv'
  <1> DEFINE w == pqW[i]
             v == pqW'[i]
             x == [id |-> d, stored |-> ~w.sub.eosed]
  <1>x. x.id = d /\ x.stored = ~w.sub.eosed
    OBVIOUS
  <1>1. /\ Others(i) /\ SameGoroutine(w, v) /\ SameForward(w, v) /\ SameCall /\ w.sub.phase = "open"
    BY DEF Arrives, SameEose
  <1>2. WorkerInv(i) /\ Held(i)' = Held(i) /\ w.sub \in Subs
    BY SameGlobals DEF FetchInv, Held
  <1>3. /\ v.sub.phase = "open" /\ v.sub.eosed = w.sub.eosed /\ v.sub.timedOut = w.sub.timedOut
        /\ v.sub.eose = w.sub.eose /\ v.sub.sent = w.sub.sent \cup {d}
    BY <1>1, <1>2 DEF Arrives, Subs
  <1>4. pqMaps'.seen = pqMaps.seen \cup {d}
    BY DEF Arrives, Fetching, QueriesType, MapStates
  <1>5. /\ pqHist'.out = pqHist.out /\ pqHist'.forgotten = pqHist.forgotten
        /\ pqHist'.cancelled = pqHist.cancelled /\ pqHist.spoiled \subseteq pqHist'.spoiled
        /\ \/ v.waiting = w.waiting \cup {x}
           \/ v.waiting = w.waiting /\ d \in pqHist'.spoiled
    BY DEF Arrives, SameHist, QueriesType, HistStates
  <1> HIDE DEF x
  <1>6. SubInv(v)
    <2>1. \A y \in v.waiting : y \in w.waiting \/ y = x
      BY <1>5
    <2>2. ASSUME NEW y \in v.waiting
          PROVE  y \in w.waiting \/ (y.stored <=> ~w.sub.eosed)
      <3>1. CASE y = x
        BY <3>1, <1>x, Zenon
      <3> QED
        BY <2>1, <2>2, <3>1
    <2> QED
      BY <1>1, <1>2, <1>3, <2>2 DEF WorkerInv, SubInv, SameGoroutine
  <1>7. SeenInv(i)'
    BY <1>1, <1>2, <1>3, <1>4 DEF WorkerInv, SeenInv, SameGoroutine
  <1>8. EndInv(i)'
    BY <1>1, <1>2, <1>5 DEF WorkerInv, EndInv, SameGoroutine, SameForward, SameCall
  <1>9. \A e \in PoolEvents : Carries(w, e) => Carries(v, e)
    BY <1>1, <1>5 DEF Carries, InHand, Waits, SameGoroutine, SameForward
  <1>10. Carries(v, d) \/ d \in pqHist'.spoiled
    BY <1>5, <1>x DEF Carries, Waits
  <1> QED
    BY <1>1, <1>4, <1>5, <1>6, <1>7, <1>8, <1>9, <1>10, FetchStep DEF WorkerInv

LEMMA FetchGivesUp ==
    ASSUME QueriesType, FetchInv, Fetching, NEW i \in Workers, NEW x \in pqW[i].waiting, GivesUp(i, x), pqOp' = pqOp
    PROVE  FetchInv'
  <1> DEFINE w == pqW[i]
             v == pqW'[i]
  <1>1. /\ Others(i) /\ SameGoroutine(w, v) /\ SameForward(w, v) /\ SameClaims /\ SameCall /\ v.sub = w.sub
        /\ v.waiting = w.waiting \ {x}
    BY DEF GivesUp, SameEose
  <1>2. WorkerInv(i) /\ Held(i)' = Held(i)
    BY DEF FetchInv, Held
  <1>3. /\ pqHist'.out = pqHist.out /\ pqHist'.forgotten = pqHist.forgotten
        /\ pqHist'.cancelled = pqHist.cancelled /\ pqHist'.spoiled = pqHist.spoiled \cup {x.id}
    BY DEF GivesUp, QueriesType, HistStates
  <1>4. SubInv(v)
    BY <1>1, <1>2 DEF WorkerInv, SubInv, SameGoroutine
  <1>5. SeenInv(i)'
    BY <1>1, <1>2 DEF WorkerInv, SeenInv, SameGoroutine, SameClaims
  <1>6. EndInv(i)'
    BY <1>1, <1>2, <1>3 DEF WorkerInv, EndInv, SameGoroutine, SameForward, SameCall
  <1>7. \A e \in PoolEvents : Carries(w, e) => Carries(v, e) \/ e \in pqHist'.spoiled
    BY <1>1, <1>3 DEF Carries, InHand, Waits, SameGoroutine, SameForward
  <1> QED
    BY <1>1, <1>3, <1>4, <1>5, <1>6, <1>7, FetchStep DEF WorkerInv, SameClaims

LEMMA FetchEnds ==
    ASSUME QueriesType, FetchInv, Fetching, NEW i \in Workers, Ends(i), pqOp' = pqOp
    PROVE  FetchInv'
  <1> DEFINE w == pqW[i]
             v == pqW'[i]
  <1>1. /\ Others(i) /\ SameGoroutine(w, v) /\ SameForward(w, v) /\ SameClaims /\ SameCall
        /\ v.waiting = {} /\ v.sub.phase = "closed" /\ v.sub.sent = {}
        /\ v.sub.eosed = w.sub.eosed /\ v.sub.timedOut = w.sub.timedOut /\ v.sub.eose = w.sub.eose
    BY DEF Ends, SameEose
  <1>2. WorkerInv(i) /\ Held(i)' = Held(i)
    BY DEF FetchInv, Held
  <1>3. /\ pqHist'.out = pqHist.out /\ pqHist'.forgotten = pqHist.forgotten
        /\ pqHist'.cancelled = pqHist.cancelled /\ pqHist.spoiled \subseteq pqHist'.spoiled
        /\ \A x \in w.waiting : x.id \in pqHist'.spoiled
    BY <1>2 DEF Ends, WorkerInv, SubInv
  <1>4. SubInv(v)
    BY <1>1, <1>2 DEF WorkerInv, SubInv, SameGoroutine
  <1>5. SeenInv(i)'
    BY <1>1, <1>2 DEF WorkerInv, SeenInv, SameGoroutine, SameClaims
  <1>6. EndInv(i)'
    BY <1>1, <1>2, <1>3 DEF WorkerInv, EndInv, SameGoroutine, SameForward, SameCall
  <1>7. \A e \in PoolEvents : Carries(w, e) => Carries(v, e) \/ e \in pqHist'.spoiled
    BY <1>1, <1>3 DEF Carries, InHand, Waits, SameGoroutine, SameForward
  <1> QED
    BY <1>1, <1>3, <1>4, <1>5, <1>6, <1>7, FetchStep DEF WorkerInv, SameClaims

LEMMA FetchTakes ==
    ASSUME QueriesType, FetchInv, Fetching, NEW i \in Workers, NEW x \in pqW[i].waiting, TakesOne(i, x), pqOp' = pqOp
    PROVE  FetchInv'
  <1> DEFINE w == pqW[i]
             v == pqW'[i]
  <1>1. /\ Others(i) /\ SameForward(w, v) /\ SameClaims /\ SameCall /\ SameHist /\ v.sub = w.sub
        /\ v.sinceNow = w.sinceNow /\ w.pc = "loop" /\ v.pc \in {"send", "store"} /\ v.hand = x.id
        /\ v.waiting = w.waiting \ {x}
    BY DEF TakesOne, SameEose
  <1>2. WorkerInv(i) /\ Held(i)' = Held(i)
    BY DEF FetchInv, Held
  <1>3. SubInv(v)
    BY <1>1, <1>2 DEF WorkerInv, SubInv
  <1>4. SeenInv(i)'
    BY <1>1, <1>2 DEF WorkerInv, SeenInv, SameClaims
  <1>5. EndInv(i)'
    BY <1>1, <1>2 DEF WorkerInv, EndInv, SameForward, SameCall, SameHist
  <1>6. \A e \in PoolEvents : Carries(w, e) => Carries(v, e)
    BY <1>1 DEF Carries, InHand, Waits, SameForward
  <1> QED
    BY <1>1, <1>3, <1>4, <1>5, <1>6, FetchStep DEF WorkerInv, SameClaims, SameHist

LEMMA FetchHandsOver ==
    ASSUME QueriesType, FetchInv, Fetching, NEW i \in Workers, HandsOver(i), pqOp' = pqOp
    PROVE  FetchInv'
  <1> DEFINE w == pqW[i]
             v == pqW'[i]
  <1>1. /\ Others(i) /\ SameClaims /\ SameCall /\ SameHist /\ v.sub = w.sub /\ v.sinceNow = w.sinceNow
        /\ w.pc = "send" /\ v.pc = "loop" /\ v.waiting = w.waiting /\ v.finished = w.finished
        /\ pqOp \in Batched /\ w.forward = Nothing /\ v.forward = w.hand
    BY DEF HandsOver, SameEose
  <1>2. WorkerInv(i) /\ Held(i)' = Held(i)
    BY DEF FetchInv, Held
  <1>3. SubInv(v)
    BY <1>1, <1>2 DEF WorkerInv, SubInv
  <1>4. SeenInv(i)'
    BY <1>1, <1>2 DEF WorkerInv, SeenInv, SameClaims
  <1>5. EndInv(i)'
    BY <1>1, <1>2 DEF WorkerInv, EndInv, SameCall, SameHist
  <1>6. \A e \in PoolEvents : Carries(w, e) => Carries(v, e)
    BY <1>1, EventsAreNumbers DEF Carries, InHand, Waits, Nothing
  <1> QED
    BY <1>1, <1>3, <1>4, <1>5, <1>6, FetchStep DEF WorkerInv, SameClaims, SameHist

LEMMA FetchDelivers ==
    ASSUME QueriesType, FetchInv, Fetching, NEW i \in Workers, NEW d \in PoolEvents, Delivers(i, d), pqOp' = pqOp
    PROVE  FetchInv'
  <1> DEFINE w == pqW[i]
             v == pqW'[i]
  <1>1. /\ Others(i) /\ SameClaims /\ SameCall /\ v.sub = w.sub /\ v.sinceNow = w.sinceNow
        /\ v.waiting = w.waiting /\ v.finished = w.finished
        /\ \/ w.pc \in {"send", "store"} /\ w.hand = d /\ v.pc = "loop" /\ v.forward = w.forward
           \/ w.forward = d /\ ~w.finished /\ v.forward = Nothing /\ v.pc = w.pc /\ v.hand = w.hand
    BY DEF Delivers, SameCall, Fetching
  <1>2. WorkerInv(i) /\ Held(i)' = Held(i)
    BY DEF FetchInv, Held
  <1>3. /\ pqHist'.forgotten = pqHist.forgotten /\ pqHist'.cancelled = pqHist.cancelled
        /\ pqHist'.spoiled = pqHist.spoiled
        /\ \A e \in PoolEvents : pqHist.out[e] \in Nat /\ pqHist'.out[e] = IF e = d THEN pqHist.out[d] + 1 ELSE pqHist.out[e]
    BY DEF Delivers, QueriesType, HistStates
  <1>4. SubInv(v)
    BY <1>1, <1>2 DEF WorkerInv, SubInv
  <1>5. SeenInv(i)'
    BY <1>1, <1>2 DEF WorkerInv, SeenInv, SameClaims
  <1>6. EndInv(i)'
    BY <1>1, <1>2, <1>3 DEF WorkerInv, EndInv, SameCall
  <1>7. \A e \in PoolEvents : Carries(w, e) => Carries(v, e) \/ e = d
    BY <1>1 DEF Carries, InHand, Waits
  <1>8. \A e \in PoolEvents : (pqHist.out[e] # 0 => pqHist'.out[e] # 0) /\ pqHist'.out[d] # 0
    BY <1>3
  <1> QED
    BY <1>1, <1>3, <1>4, <1>5, <1>6, <1>7, <1>8, FetchStep DEF WorkerInv, SameClaims

LEMMA FetchForwarder ==
    ASSUME QueriesType, FetchInv, Fetching, NEW i \in Workers, ForwarderEnds(i), pqOp' = pqOp
    PROVE  FetchInv'
  <1> DEFINE w == pqW[i]
             v == pqW'[i]
  <1>1. /\ Others(i) /\ SameGoroutine(w, v) /\ SameClaims /\ SameCall /\ SameHist /\ v.sub = w.sub
        /\ v.waiting = w.waiting /\ v.forward = w.forward
        /\ ~pqChan.ctx \/ (w.pc = "done" /\ w.forward = Nothing)
    BY DEF ForwarderEnds, SameEose
  <1>2. WorkerInv(i) /\ Held(i)' = Held(i) /\ (pqChan.ctx \/ pqHist.cancelled \/ pqChan.closed)
    BY DEF FetchInv, Held
  <1>3. SubInv(v)
    BY <1>1, <1>2 DEF WorkerInv, SubInv, SameGoroutine
  <1>4. SeenInv(i)'
    BY <1>1, <1>2 DEF WorkerInv, SeenInv, SameGoroutine, SameClaims
  <1>5. EndInv(i)'
    BY <1>1, <1>2 DEF WorkerInv, EndInv, SameGoroutine, SameCall, SameHist
  <1>6. \A e \in PoolEvents : Carries(w, e) => Carries(v, e)
    BY <1>1 DEF Carries, InHand, Waits, SameGoroutine
  <1> QED
    BY <1>1, <1>3, <1>4, <1>5, <1>6, FetchStep DEF WorkerInv, SameClaims, SameHist

LEMMA FetchWorker ==
    ASSUME QueriesType, FetchInv, NEW i \in Workers, WorkerMoves(i), pqOp' = pqOp
    PROVE  FetchInv'
  <1>1. CASE ~Fetching
    BY <1>1 DEF FetchInv, Fetching
  <1>2. CASE Fetching
    <2>1. ~SeesEose(i)
      BY <1>2 DEF SeesEose, Fetching, Staying
    <2>2. CASE GoesAhead(i) \/ GoesAway(i) \/ SubscribesAgain(i) \/ SubChanges(i) \/ Ends(i)
      BY <1>2, <2>2, FetchAhead, FetchAway, FetchAgain, FetchSub, FetchEnds
    <2>3. CASE HandsOver(i) \/ ForwarderEnds(i) \/ \E e \in PoolEvents : Arrives(i, e) \/ Delivers(i, e)
      BY <1>2, <2>3, FetchHandsOver, FetchForwarder, FetchArrives, FetchDelivers
    <2>4. CASE \E x \in pqW[i].waiting : GivesUp(i, x) \/ TakesOne(i, x)
      BY <1>2, <2>4, FetchGivesUp, FetchTakes
    <2> QED
      BY <2>1, <2>2, <2>3, <2>4 DEF WorkerMoves
  <1> QED
    BY <1>1, <1>2

LEMMA FetchCall ==
    ASSUME QueriesType, FetchInv, QueryMoves \/ UNCHANGED pqVars, pqOp' = pqOp, pqW' = pqW
    PROVE  FetchInv'
  <1> SUFFICES ASSUME Fetching PROVE FetchInv'
    BY DEF FetchInv, Fetching
  <1>1. CASE UNCHANGED pqVars
    BY <1>1 DEF pqVars, FetchInv, WorkerInv, SeenInv, EndInv, NoneLost, Held, Fetching
  <1>2. CASE EoseChanCloses \/ \E i \in Workers, ids \in SUBSET pqMaps.seen : TakeTick(i, ids)
    BY <1>2 DEF EoseChanCloses, TakeTick, Fetching
  <1>3. CASE CancelCall
    <2>1. /\ UNCHANGED pqMaps /\ pqHist'.cancelled /\ pqHist'.forgotten = pqHist.forgotten
      BY <1>3 DEF CancelCall, QueriesType, HistStates
    <2> QED
      BY <2>1 DEF FetchInv, WorkerInv, SeenInv, EndInv, NoneLost, Held
  <1>4. CASE AllEnded
    <2>1. /\ UNCHANGED <<pqMaps, pqHist>> /\ pqChan'.closed
          /\ \A i \in Workers : IF pqOp \in Batched THEN pqW[i].finished ELSE pqW[i].pc = "done"
      BY <1>4 DEF AllEnded, QueriesType, ChanStates
    <2>2. \A i \in Workers : WorkerInv(i)'
      <3> SUFFICES ASSUME NEW i \in Workers
                   PROVE  WorkerInv(i)'
        OBVIOUS
      <3>1. WorkerInv(i)
        BY DEF FetchInv
      <3>2. SubInv(pqW'[i]) /\ SeenInv(i)'
        BY <2>1, <3>1 DEF WorkerInv, SeenInv, Held
      <3>3. EndInv(i)'
        BY <2>1, <3>1 DEF WorkerInv, EndInv
      <3> QED
        BY <3>2, <3>3 DEF WorkerInv
    <2> QED
      BY <2>1, <2>2 DEF FetchInv, NoneLost
  <1> QED
    BY <1>1, <1>2, <1>3, <1>4 DEF QueryMoves

LEMMA FetchInit == PoolQueriesInit => FetchInv
  <1> SUFFICES ASSUME PoolQueriesInit, Fetching PROVE FetchInv
    BY DEF FetchInv
  <1> DEFINE fresh == NewWorker("ensure")
  <1>1. {i \in Workers : pqOp \in {"sub", "publish"} /\ Repeats(i)} = {}
    BY DEF Fetching
  <1>2. \A i \in Workers : pqW[i] = fresh
    BY <1>1 DEF PoolQueriesInit
  <1>3. /\ fresh.pc = "ensure" /\ fresh.sub.phase = "none" /\ fresh.sub.eose = "none" /\ ~fresh.sub.eosed
        /\ fresh.sub.sent = {} /\ fresh.waiting = {} /\ ~fresh.sinceNow /\ fresh.forward = Nothing
        /\ ~fresh.finished
    BY DEF NewWorker, NoSub
  <1> HIDE DEF fresh
  <1>4. pqMaps.seen = {} /\ pqHist.forgotten = {} /\ pqChan.ctx /\ ~pqChan.closed
    BY DEF PoolQueriesInit
  <1> QED
    BY <1>2, <1>3, <1>4 DEF FetchInv, WorkerInv, SubInv, SeenInv, EndInv, NoneLost

\* What a relay sent before its EOSE came to the consumer of FetchMany, from
\* this relay or another, unless the copy that came first was forged or died
\* with its subscription: a claimed event is always with one goroutine or with
\* the consumer, also when goroutines leave, subscribe again or share ids.
THEOREM PoolFetchesAll == PoolQueriesInit /\ [][PoolQueriesNext]_pqVars => []FetchComplete
  <1> DEFINE Inv == QueriesType /\ OnceInv /\ FetchInv
  <1>1. Inv /\ [PoolQueriesNext]_pqVars => Inv'
    <2> SUFFICES ASSUME Inv, [PoolQueriesNext]_pqVars
                 PROVE  Inv'
      OBVIOUS
    <2>1. /\ QueriesType' /\ pqOp' = pqOp
          /\ (\E i \in Workers : WorkerMoves(i)) \/ QueryMoves \/ UNCHANGED pqVars
      BY StepIs
    <2>2. CASE \E i \in Workers : WorkerMoves(i)
      BY <2>1, <2>2, OnceWorker, FetchWorker
    <2>3. CASE QueryMoves \/ UNCHANGED pqVars
      <3>1. pqW' = pqW
        BY <2>3, QueryMovesIs DEF pqVars
      <3> QED
        BY <2>1, <2>3, <3>1, OnceCall, FetchCall
    <2> QED
      BY <2>1, <2>2, <2>3
  <1>2. Inv => FetchComplete
    <2> SUFFICES ASSUME Inv, Fetching, pqChan.closed, ~pqHist.cancelled,
                        \A i \in Workers : pqW[i].sub.phase \in {"none", "closed"},
                        NEW i \in Workers, NEW e \in Held(i),
                        pqW[i].sub.eose = "taken", ~pqW[i].sub.timedOut, e \notin pqHist.spoiled
                 PROVE  pqHist.out[e] = 1
      BY DEF FetchComplete, Fetching
    <2>1. \A j \in Workers : WorkerInv(j)
      BY DEF FetchInv
    <2>2. e \in pqMaps.seen /\ e \in PoolEvents
      BY <2>1 DEF WorkerInv, SubInv, SeenInv, QueriesType, MapStates
    <2>3. \A j \in Workers : ~Carries(pqW[j], e)
      BY <2>1, <2>2, EventsAreNumbers DEF WorkerInv, SubInv, EndInv, Carries, InHand, Waits, Nothing
    <2>4. pqHist.out[e] # 0
      BY <2>2, <2>3 DEF FetchInv, NoneLost
    <2>5. pqHist.out[e] <= 1 /\ pqHist.out[e] \in Nat
      BY <2>2 DEF OnceInv, OneCopy, FetchInv, QueriesType, HistStates
    <2> QED
      BY <2>4, <2>5
  <1> HIDE DEF Inv
  <1>3. PoolQueriesInit => Inv
    BY QueriesInit, FetchInit DEF Inv
  <1> QED
    BY <1>1, <1>2, <1>3, PTL
=============================================================================
