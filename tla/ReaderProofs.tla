----------------------------- MODULE ReaderProofs -----------------------------
(***************************************************************************)
(* Proofs about what a client reads: a subscription, the loaders, and how  *)
(* the SDK fetches.                                                        *)
(*                                                                         *)
(* A subscription, for every set of events and every number of CLOSED      *)
(* messages, with and without the timer.                                   *)
(* The inductive invariant says, beside the types: events reach the        *)
(* application only after Fire (FiredInv); the switch to the filter        *)
(* without timestamps comes after eosed (WindowInv); whoever swaps eosed   *)
(* is the only one to start the goroutine of EOSE (OnceInv); the WaitGroup *)
(* counts (WaitGroupExact); a stored event that was dropped was dropped    *)
(* for a reason that still holds (DropInv); and no stored event is in      *)
(* flight once EOSE is out (EoseInv).                                      *)
(*                                                                         *)
(* The loaders, which share one query between their callers: each call is  *)
(* in one batch (PlaceInv), and what its batch has collected is the newest *)
(* of what came (ResultsInv).                                              *)
(*                                                                         *)
(* Fetching: the store never falls behind what a call or the cache has     *)
(* (CallOk, CacheOk), since replacing and saving only make it newer.       *)
(***************************************************************************)
EXTENDS Subscription, Dataloader, SdkFetch, FiniteSetTheorems, TLAPS

FiredInv ==
    /\ main.pc # "idle" => fire = "fired"
    /\ \A e \in SubEvents : g[e] # "none" => fire = "fired"
    /\ \A e \in subStored : g[e] # "none"

WindowInv ==
    /\ ~strict => eosed
    /\ main.pc = "matched" /\ main.event \notin SubInWindow => eosed
    /\ main.pc = "stored" => main.event \in SubInWindow
    /\ StoredInWindow

OnceInv ==
    /\ ~eosed => eoser = 0 /\ eoseSent = 0 /\ timer \notin {"swapped", "over"}
    /\ timer = "swapped" => eoser = 0 /\ eoseSent = 0
    /\ EoseOnce

DropInv ==
    /\ ~events => ~ctx
    /\ cleanup # "wait" => ~ctx
    /\ \A e \in subStored :
          /\ g[e] = "dropped" => ~ctx \/ ~live \/ TimedOut
          /\ g[e] = "panic" => ~ctx

EoseInv ==
    /\ eosed /\ ~TimedOut => main.pc # "stored"
    /\ eoseSent > 0 /\ ~TimedOut => \A e \in subStored : g[e] \notin Running

IInv == TypeOK /\ FiredInv /\ WindowInv /\ OnceInv /\ WaitGroupExact /\ DropInv /\ EoseInv

-----------------------------------------------------------------------------
(* The goroutines of dispatchEvent *)

InFlight == {e \in subStored : g[e] \in Running \cup {"panic"}}

\* storedwg.Add, for an event that has no goroutine yet.
LEMMA CountUp ==
    ASSUME DispatchTypeOK, WaitGroupExact, NEW e \in SubEvents, g[e] = "none",
           subStored' = subStored \cup {e}, storedwg' = storedwg + 1, g' = [g EXCEPT ![e] = "load"]
    PROVE  WaitGroupExact'
  <1>1. IsFiniteSet(InFlight)
    BY EventsAssumption, FS_Subset DEF InFlight, DispatchTypeOK
  <1>2. InFlight' = InFlight \cup {e} /\ e \notin InFlight
    BY DEF InFlight, Running, DispatchTypeOK
  <1> QED
    BY <1>1, <1>2, FS_AddElement DEF WaitGroupExact, InFlight

\* storedwg.Done, by the goroutine of a stored event; Done never finds zero.
LEMMA CountDown ==
    ASSUME DispatchTypeOK, WaitGroupExact, NEW e \in SubEvents, g[e] \in Running,
           UNCHANGED subStored, Done(e), NEW l \in {"sent", "dropped"}, g' = [g EXCEPT ![e] = l]
    PROVE  WaitGroupExact' /\ storedwg' \in Nat
  <1>1. IsFiniteSet(InFlight)
    BY EventsAssumption, FS_Subset DEF InFlight, DispatchTypeOK
  <1>2. InFlight' = InFlight \ {e} /\ (e \in InFlight <=> e \in subStored)
    BY DEF InFlight, Running, DispatchTypeOK
  <1>3. Cardinality(InFlight) \in Nat /\ Cardinality(InFlight') \in Nat
    BY <1>1, <1>2, FS_RemoveElement, FS_CardinalityType
  <1>4. Cardinality(InFlight') = IF e \in InFlight THEN Cardinality(InFlight) - 1 ELSE Cardinality(InFlight)
    BY <1>1, <1>2, FS_RemoveElement
  <1>5. storedwg = Cardinality(InFlight)
    BY DEF WaitGroupExact, InFlight
  <1>6. storedwg' = Cardinality(InFlight')
    BY <1>2, <1>4, <1>5 DEF Done
  <1> QED
    BY <1>3, <1>6 DEF WaitGroupExact, InFlight

\* A goroutine that goes on without Done.
LEMMA CountSame ==
    ASSUME DispatchTypeOK, WaitGroupExact, NEW e \in SubEvents, g[e] \in Running,
           UNCHANGED <<subStored, storedwg>>, NEW l \in Running \cup {"panic"}, g' = [g EXCEPT ![e] = l]
    PROVE  WaitGroupExact'
  <1>1. InFlight' = InFlight
    BY DEF InFlight, Running, DispatchTypeOK
  <1> QED
    BY <1>1 DEF WaitGroupExact, InFlight

\* What a goroutine of an event may do, whichever of its steps it takes.
LEMMA GoroutineStep ==
    ASSUME TypeOK, WaitGroupExact, FiredInv, NEW e \in SubEvents, Goroutine(e) \/ Deliver(e)
    PROVE  /\ DispatchTypeOK' /\ WaitGroupExact'
           /\ g[e] \in Running
           /\ g'[e] \in {"select", "sent", "dropped", "panic"}
           /\ \A d \in SubEvents \ {e} : g'[d] = g[d]
           /\ e \in subStored /\ g'[e] = "dropped" => ~ctx \/ ~live \/ TimedOut
           /\ g'[e] = "panic" => ~events
           /\ UNCHANGED <<lifeVars, endVars, main, subStored, eoseVars, closedVars>>
  <1> USE DEF Running
  <1>1. CASE LoadLive(e) /\ live
    BY <1>1, CountSame DEF LoadLive, TypeOK, DispatchTypeOK
  <1>2. CASE LoadLive(e) /\ ~live
    <2>1. g[e] = "load" /\ g' = [g EXCEPT ![e] = "dropped"] /\ Done(e) /\ UNCHANGED subStored
      BY <1>2 DEF LoadLive
    <2>2. WaitGroupExact' /\ storedwg' \in Nat
      BY <2>1, CountDown DEF TypeOK
    <2> QED
      BY <1>2, <2>1, <2>2 DEF LoadLive, TypeOK, DispatchTypeOK
  <1>3. CASE Deliver(e)
    <2>1. g[e] = "select" /\ g' = [g EXCEPT ![e] = "sent"] /\ Done(e) /\ UNCHANGED subStored
      BY <1>3 DEF Deliver
    <2>2. WaitGroupExact' /\ storedwg' \in Nat
      BY <2>1, CountDown DEF TypeOK
    <2> QED
      BY <1>3, <2>1, <2>2 DEF Deliver, TypeOK, DispatchTypeOK
  <1>4. CASE GiveUp(e)
    <2>1. g[e] = "select" /\ g' = [g EXCEPT ![e] = "dropped"] /\ Done(e) /\ UNCHANGED subStored
      BY <1>4 DEF GiveUp
    <2>2. WaitGroupExact' /\ storedwg' \in Nat
      BY <2>1, CountDown DEF TypeOK
    <2> QED
      BY <1>4, <2>1, <2>2 DEF GiveUp, TypeOK, DispatchTypeOK
  <1>5. CASE SendOnClosed(e)
    BY <1>5, CountSame DEF SendOnClosed, TypeOK, DispatchTypeOK
  <1> QED
    BY <1>1, <1>2, <1>3, <1>4, <1>5 DEF Goroutine, LoadLive

-----------------------------------------------------------------------------
(* The invariant *)

LEMMA InvInit == SubscriptionInit => IInv
  <1> SUFFICES ASSUME SubscriptionInit PROVE IInv
    OBVIOUS
  <1> USE DEF SubscriptionInit, Idle
  <1>1. LifeTypeOK /\ EndTypeOK /\ EoseTypeOK /\ ClosedTypeOK
    <2>1. LifeTypeOK /\ EndTypeOK
      BY DEF LifeTypeOK, EndTypeOK
    <2>2. EoseTypeOK
      <3>1. timer \in {"off", "sleep"}
        BY BoundAssumption, Zenon
      <3>2. eosed \in BOOLEAN /\ strict \in BOOLEAN
        BY Zenon
      <3>3. eoser \in Nat /\ eoseSent \in Nat /\ eoseChan \in 0..1
        OBVIOUS
      <3> QED
        BY <3>1, <3>2, <3>3 DEF EoseTypeOK
    <2>3. ClosedTypeOK
      BY DEF ClosedTypeOK
    <2> QED
      BY <2>1, <2>2, <2>3
  <1>2. DispatchTypeOK
    BY DEF DispatchTypeOK
  <1>3. FiredInv /\ WindowInv
    BY DEF FiredInv, WindowInv, StoredInWindow
  <1>4. OnceInv
    BY DEF OnceInv, EoseOnce
  <1>5. WaitGroupExact
    <2>1. InFlight = {}
      BY DEF InFlight
    <2> QED
      BY <2>1, FS_EmptySet DEF WaitGroupExact, InFlight
  <1>6. DropInv /\ EoseInv
    BY DEF DropInv, EoseInv
  <1> QED
    BY <1>1, <1>2, <1>3, <1>4, <1>5, <1>6 DEF IInv, TypeOK

\* Fire, the end of the context or of the connection, CLOSED and the cleanup:
\* they leave the goroutines of events and EOSE alone, never revive the
\* context, and set live only before the first event.
LEMMA InvLife ==
    ASSUME IInv, LifeTypeOK', EndTypeOK', ClosedTypeOK', UNCHANGED <<dispatchVars, eoseVars>>,
           ctx' => ctx, live' => live \/ fire # "fired", fire = "fired" => fire' = "fired",
           ~events' => ~events \/ cleanup # "wait", cleanup' # "wait" => cleanup # "wait" \/ ~ctx
    PROVE  IInv'
  <1> USE DEF IInv, dispatchVars, eoseVars
  <1>1. TypeOK'
    BY DEF TypeOK, DispatchTypeOK, EoseTypeOK
  <1>2. FiredInv'
    BY DEF TypeOK, DispatchTypeOK, FiredInv
  <1>3. WindowInv' /\ OnceInv'
    BY DEF WindowInv, StoredInWindow, OnceInv, EoseOnce
  <1>4. WaitGroupExact'
    BY DEF WaitGroupExact
  <1>5. DropInv'
    BY DEF TypeOK, DispatchTypeOK, FiredInv, DropInv, TimedOut
  <1>6. EoseInv'
    BY DEF EoseInv, TimedOut
  <1> QED
    BY <1>1, <1>2, <1>3, <1>4, <1>5, <1>6

LEMMA InvEose ==
    ASSUME IInv, Timer \/ PassEose \/ HandleEose \/ ReceiveEose
    PROVE  IInv'
  <1> USE DEF IInv, lifeVars, endVars, dispatchVars, closedVars
  <1>1. /\ UNCHANGED <<lifeVars, endVars, dispatchVars, closedVars>>
        /\ TimedOut => TimedOut'
        /\ eosed => eosed'
        /\ ~TimedOut' => ~TimedOut /\ (eosed' /\ ~eosed => main.pc = "idle")
    BY DEF Timer, TimerClose, TimerSwap, TimerMatch, PassEose, HandleEose, ReceiveEose, TimedOut,
       Readable, Idle
  <1>2. EoseTypeOK'
    <2> USE DEF Timer, TimerClose, TimerSwap, TimerMatch, PassEose, HandleEose, ReceiveEose,
            TypeOK, EoseTypeOK
    <2>1. eosed' \in BOOLEAN
      BY Zenon
    <2>2. strict' \in BOOLEAN
      BY Zenon
    <2>3. timer' \in {"off", "sleep", "closed", "swapped", "over"}
      OBVIOUS
    <2>4. eoser' \in Nat /\ eoseSent' \in Nat /\ eoseChan' \in 0..1
      OBVIOUS
    <2> QED
      BY <2>1, <2>2, <2>3, <2>4
  <1>3. TypeOK' /\ FiredInv' /\ WaitGroupExact'
    BY <1>1, <1>2 DEF TypeOK, LifeTypeOK, EndTypeOK, DispatchTypeOK, ClosedTypeOK, FiredInv,
       WaitGroupExact
  <1>4. ~strict' => eosed'
    BY <1>1 DEF Timer, TimerClose, TimerSwap, TimerMatch, PassEose, HandleEose, ReceiveEose,
       WindowInv, OnceInv
  <1>5. WindowInv'
    BY <1>1, <1>4 DEF WindowInv, StoredInWindow
  <1>6. OnceInv'
    BY DEF Timer, TimerClose, TimerSwap, TimerMatch, PassEose, HandleEose, ReceiveEose,
       OnceInv, EoseOnce, TypeOK, EoseTypeOK
  <1>7. DropInv'
    BY <1>1 DEF DropInv
  <1>8. eosed' /\ ~TimedOut' => main'.pc # "stored"
    BY <1>1 DEF EoseInv
  <1>9. eoseSent' > 0 /\ ~TimedOut' => \A e \in subStored' : g'[e] \notin Running
    <2>1. CASE PassEose
      <3>1. storedwg = 0 /\ IsFiniteSet(InFlight)
        BY <2>1, EventsAssumption, FS_Subset DEF PassEose, InFlight, TypeOK, DispatchTypeOK
      <3>2. InFlight = {}
        BY <3>1, FS_EmptySet DEF WaitGroupExact, InFlight
      <3> QED
        BY <1>1, <3>2 DEF InFlight
    <2>2. CASE ~PassEose
      <3>1. eoseSent' = eoseSent
        BY <2>2 DEF Timer, TimerClose, TimerSwap, TimerMatch, HandleEose, ReceiveEose
      <3> QED
        BY <1>1, <3>1 DEF EoseInv
    <2> QED
      BY <2>1, <2>2
  <1> QED
    BY <1>3, <1>5, <1>6, <1>7, <1>8, <1>9 DEF EoseInv

LEMMA InvMain ==
    ASSUME IInv, Main \/ \E e \in SubEvents : HandleEvent(e)
    PROVE  IInv'
  <1> USE DEF IInv, lifeVars, endVars, eoseVars, closedVars
  <1>1. ASSUME NEW e \in SubEvents, HandleEvent(e) PROVE IInv'
    <2>1. /\ UNCHANGED <<lifeVars, endVars, g, subStored, storedwg, eoseVars, closedVars>>
          /\ main' = [pc |-> "matched", event |-> e] /\ g[e] = "none" /\ fire = "fired"
          /\ strict => e \in SubInWindow
      BY <1>1 DEF HandleEvent, Readable
    <2>2. TypeOK' /\ FiredInv' /\ WaitGroupExact'
      BY <2>1 DEF TypeOK, LifeTypeOK, EndTypeOK, DispatchTypeOK, EoseTypeOK, ClosedTypeOK, FiredInv,
         WaitGroupExact
    <2>3. WindowInv' /\ OnceInv'
      BY <2>1 DEF WindowInv, StoredInWindow, OnceInv, EoseOnce
    <2>4. DropInv' /\ EoseInv'
      BY <2>1 DEF DropInv, EoseInv, TimedOut
    <2> QED
      BY <2>2, <2>3, <2>4
  <1>2. CASE LoadEosed
    <2>1. /\ UNCHANGED <<lifeVars, endVars, g, subStored, storedwg, eoseVars, closedVars>>
          /\ main.pc = "matched" /\ main' = [main EXCEPT !.pc = IF eosed THEN "live" ELSE "stored"]
      BY <1>2 DEF LoadEosed
    <2>2. TypeOK' /\ FiredInv' /\ WaitGroupExact'
      BY <2>1 DEF TypeOK, LifeTypeOK, EndTypeOK, DispatchTypeOK, EoseTypeOK, ClosedTypeOK, FiredInv,
         WaitGroupExact
    <2>3. WindowInv' /\ OnceInv'
      BY <2>1 DEF WindowInv, StoredInWindow, OnceInv, EoseOnce, TypeOK, DispatchTypeOK
    <2>4. DropInv' /\ EoseInv'
      BY <2>1 DEF DropInv, EoseInv, TimedOut, TypeOK, DispatchTypeOK
    <2> QED
      BY <2>2, <2>3, <2>4
  <1>3. CASE Spawn
    <2>1. /\ UNCHANGED <<lifeVars, endVars, eoseVars, closedVars>>
          /\ main.event \in SubEvents /\ g[main.event] = "none" /\ fire = "fired"
          /\ g' = [g EXCEPT ![main.event] = "load"] /\ main' = Idle
          /\ subStored' = IF main.pc = "stored" THEN subStored \cup {main.event} ELSE subStored
          /\ storedwg' = IF main.pc = "stored" THEN storedwg + 1 ELSE storedwg
      BY <1>3 DEF Spawn, TypeOK, DispatchTypeOK, FiredInv
    <2>2. main.event \notin subStored
      BY <2>1 DEF FiredInv
    <2>3. WaitGroupExact'
      <3>1. CASE main.pc = "stored"
        BY <2>1, <3>1, CountUp DEF TypeOK
      <3>2. CASE main.pc # "stored"
        <4>1. InFlight' = InFlight
          BY <2>1, <2>2, <3>2 DEF InFlight, TypeOK, DispatchTypeOK
        <4> QED
          BY <2>1, <3>2, <4>1 DEF WaitGroupExact, InFlight
      <3> QED
        BY <3>1, <3>2
    <2>4. TypeOK' /\ FiredInv'
      BY <2>1 DEF TypeOK, LifeTypeOK, EndTypeOK, DispatchTypeOK, EoseTypeOK, ClosedTypeOK, FiredInv, Idle
    <2>5. WindowInv' /\ OnceInv'
      BY <2>1 DEF WindowInv, StoredInWindow, OnceInv, EoseOnce, Idle
    <2>6. DropInv'
      BY <2>1, <2>2 DEF DropInv, TimedOut, TypeOK, DispatchTypeOK
    <2>7. EoseInv'
      <3>1. eoseSent > 0 /\ ~TimedOut => main.pc # "stored"
        BY DEF EoseInv, OnceInv, TypeOK, EoseTypeOK
      <3> QED
        BY <2>1, <2>2, <3>1 DEF EoseInv, TimedOut, Idle, TypeOK, DispatchTypeOK
    <2> QED
      BY <2>3, <2>4, <2>5, <2>6, <2>7
  <1> QED
    BY <1>1, <1>2, <1>3 DEF Main

LEMMA InvGoroutine ==
    ASSUME IInv, NEW e \in SubEvents, Goroutine(e) \/ Deliver(e)
    PROVE  IInv'
  <1> USE DEF IInv, lifeVars, endVars, eoseVars, closedVars
  <1>1. /\ DispatchTypeOK' /\ WaitGroupExact'
        /\ g[e] \in Running
        /\ g'[e] \in {"select", "sent", "dropped", "panic"}
        /\ \A d \in SubEvents \ {e} : g'[d] = g[d]
        /\ e \in subStored /\ g'[e] = "dropped" => ~ctx \/ ~live \/ TimedOut
        /\ g'[e] = "panic" => ~events
        /\ UNCHANGED <<lifeVars, endVars, main, subStored, eoseVars, closedVars>>
    BY GoroutineStep
  <1>2. TypeOK'
    BY <1>1 DEF TypeOK, LifeTypeOK, EndTypeOK, EoseTypeOK, ClosedTypeOK
  <1>3. FiredInv'
    BY <1>1 DEF FiredInv, Running, TypeOK, DispatchTypeOK
  <1>4. WindowInv' /\ OnceInv'
    BY <1>1 DEF WindowInv, StoredInWindow, OnceInv, EoseOnce
  <1>5. DropInv'
    BY <1>1 DEF DropInv, TimedOut, TypeOK, DispatchTypeOK
  <1>6. EoseInv'
    BY <1>1 DEF EoseInv, TimedOut, Running, TypeOK, DispatchTypeOK
  <1> QED
    BY <1>1, <1>2, <1>3, <1>4, <1>5, <1>6

LEMMA InvStep == IInv /\ [SubscriptionNext]_subVars => IInv'
  <1> SUFFICES ASSUME IInv, [SubscriptionNext]_subVars PROVE IInv'
    OBVIOUS
  <1>1. CASE UNCHANGED subVars
    BY <1>1, InvLife DEF subVars, lifeVars, endVars, closedVars, IInv, TypeOK, LifeTypeOK, EndTypeOK,
       ClosedTypeOK
  <1>2. CASE Fire
    <2> USE <1>2 DEF Fire, FireLive, FireWritten, FireFailed, endVars, closedVars, IInv, TypeOK
    <2>1. LifeTypeOK' /\ (ctx' => ctx)
      <3> USE DEF LifeTypeOK
      <3>1. fire' \in {"prepared", "live", "fired", "failed"}
        OBVIOUS
      <3>2. subConn' \in BOOLEAN
        BY Zenon
      <3>3. ctx' \in BOOLEAN
        BY Zenon
      <3>4. live' \in BOOLEAN
        BY Zenon
      <3>5. (ctx' => ctx)
        OBVIOUS
      <3> QED
        BY <3>1, <3>2, <3>3, <3>4, <3>5
    <2>2. EndTypeOK' /\ ClosedTypeOK'
      BY DEF EndTypeOK, ClosedTypeOK
    <2>3. live' => live \/ fire # "fired"
      OBVIOUS
    <2>4. fire = "fired" => fire' = "fired"
      OBVIOUS
    <2>5. UNCHANGED <<dispatchVars, eoseVars, events, cleanup>>
      OBVIOUS
    <2> QED
      BY <2>1, <2>2, <2>3, <2>4, <2>5, InvLife
  <1>3. CASE Watch \/ Unsub \/ ConnectionLost
    <2> USE <1>3 DEF Watch, Unsub, ConnectionLost, endVars, closedVars, IInv, TypeOK
    <2>1. LifeTypeOK' /\ (ctx' => ctx)
      <3> USE DEF LifeTypeOK
      <3>1. fire' \in {"prepared", "live", "fired", "failed"}
        OBVIOUS
      <3>2. subConn' \in BOOLEAN
        BY Zenon
      <3>3. ctx' \in BOOLEAN
        BY Zenon
      <3>4. live' \in BOOLEAN
        BY Zenon
      <3>5. (ctx' => ctx)
        OBVIOUS
      <3> QED
        BY <3>1, <3>2, <3>3, <3>4, <3>5
    <2>2. EndTypeOK' /\ ClosedTypeOK'
      BY DEF EndTypeOK, ClosedTypeOK
    <2>3. UNCHANGED <<dispatchVars, eoseVars, fire, live, events, cleanup>>
      OBVIOUS
    <2> QED
      BY <2>1, <2>2, <2>3, InvLife
  <1>4. CASE Cleanup
    <2> USE <1>4 DEF Cleanup, CleanupSwap, CleanupWrite, CleanupDelete, CleanupClose, lifeVars,
            closedVars, IInv, TypeOK
    <2>1. LifeTypeOK' /\ (live' => live)
      <3> USE DEF LifeTypeOK
      <3>1. fire' \in {"prepared", "live", "fired", "failed"}
        OBVIOUS
      <3>2. subConn' \in BOOLEAN
        BY Zenon
      <3>3. ctx' \in BOOLEAN
        BY Zenon
      <3>4. live' \in BOOLEAN
        BY Zenon
      <3>5. (live' => live)
        OBVIOUS
      <3> QED
        BY <3>1, <3>2, <3>3, <3>4, <3>5
    <2>2. EndTypeOK'
      BY Zenon DEF EndTypeOK
    <2>3. ClosedTypeOK'
      BY DEF ClosedTypeOK
    <2>4. UNCHANGED <<dispatchVars, eoseVars, fire, ctx>>
      OBVIOUS
    <2>5. ~events' => ~events \/ cleanup # "wait"
      OBVIOUS
    <2>6. cleanup' # "wait" => cleanup # "wait" \/ ~ctx
      OBVIOUS
    <2> QED
      BY <2>1, <2>2, <2>3, <2>4, <2>5, <2>6, InvLife
  <1>5. CASE ReceiveReason
    BY <1>5, InvLife DEF ReceiveReason, lifeVars, endVars, IInv, TypeOK, LifeTypeOK, EndTypeOK,
       ClosedTypeOK
  <1>6. ASSUME NEW i \in ClosedIds, HandleClosed(i) \/ Closer(i) PROVE IInv'
    <2> USE <1>6 DEF HandleClosed, Closer, SendReason, ClosedUnlive, ClosedCancel, lifeVars, endVars,
            IInv, TypeOK
    <2>1. ClosedTypeOK'
      BY DEF ClosedTypeOK
    <2>2. LifeTypeOK' /\ (ctx' => ctx) /\ (live' => live)
      <3> USE DEF LifeTypeOK
      <3>1. fire' \in {"prepared", "live", "fired", "failed"}
        OBVIOUS
      <3>2. subConn' \in BOOLEAN
        BY Zenon
      <3>3. ctx' \in BOOLEAN
        BY Zenon
      <3>4. live' \in BOOLEAN
        BY Zenon
      <3>5. (ctx' => ctx) /\ (live' => live)
        OBVIOUS
      <3> QED
        BY <3>1, <3>2, <3>3, <3>4, <3>5
    <2>3. EndTypeOK'
      BY DEF EndTypeOK
    <2>4. UNCHANGED <<dispatchVars, eoseVars, fire, events, cleanup>>
      OBVIOUS
    <2> QED
      BY <2>1, <2>2, <2>3, <2>4, InvLife
  <1>7. CASE Timer \/ PassEose \/ HandleEose \/ ReceiveEose
    BY <1>7, InvEose
  <1>8. CASE Main \/ \E e \in SubEvents : HandleEvent(e)
    BY <1>8, InvMain
  <1>9. ASSUME NEW e \in SubEvents, Goroutine(e) \/ Deliver(e) PROVE IInv'
    BY <1>9, InvGoroutine
  <1> QED
    BY <1>1, <1>2, <1>3, <1>4, <1>5, <1>6, <1>7, <1>8, <1>9 DEF SubscriptionNext

-----------------------------------------------------------------------------

\* The channels keep to their capacity and the WaitGroup never goes below zero.
THEOREM SubscriptionTypes == SubscriptionSafety => []TypeOK
  <1>1. IInv => TypeOK
    BY DEF IInv
  <1> QED
    BY <1>1, InvInit, InvStep, PTL DEF SubscriptionSafety

\* The WaitGroup counts the goroutines of stored events that are under way.
THEOREM WaitGroupCounts == SubscriptionSafety => []WaitGroupExact
  <1>1. IInv => WaitGroupExact
    BY DEF IInv
  <1> QED
    BY <1>1, InvInit, InvStep, PTL DEF SubscriptionSafety

\* EndOfStoredEvents means what it says, however the goroutines of the events,
\* the relay's EOSE, the timer and the end of the subscription interleave.
THEOREM EoseComesAfterStored == SubscriptionSafety => []EoseAfterStored
  <1>1. IInv => EoseAfterStored
    <2> SUFFICES ASSUME IInv, eoseSent > 0, ctx, live, ~TimedOut, NEW e \in subStored
                 PROVE  g[e] = "sent"
      BY DEF EoseAfterStored
    <2>1. g[e] \notin Running
      BY DEF IInv, EoseInv
    <2>2. g[e] \notin {"none", "dropped", "panic"}
      BY DEF IInv, DropInv, FiredInv
    <2>3. g[e] \in {"none", "load", "select", "sent", "dropped", "panic"}
      BY DEF IInv, TypeOK, DispatchTypeOK
    <2> QED
      BY <2>1, <2>2, <2>3 DEF Running
  <1> QED
    BY <1>1, InvInit, InvStep, PTL DEF SubscriptionSafety

\* EOSE is dispatched at most once, by the main loop or by the timer.
THEOREM EoseIsOnce == SubscriptionSafety => []EoseOnce
  <1>1. IInv => EoseOnce
    BY DEF IInv, OnceInv
  <1> QED
    BY <1>1, InvInit, InvStep, PTL DEF SubscriptionSafety

\* What is dispatched as stored satisfies the time window of the filter.
THEOREM StoredAreInWindow == SubscriptionSafety => []StoredInWindow
  <1>1. IInv => StoredInWindow
    BY DEF IInv, WindowInv
  <1> QED
    BY <1>1, InvInit, InvStep, PTL DEF SubscriptionSafety

(***************************************************************************)
(* The loaders.                                                            *)
(***************************************************************************)
LoadType == [pc : {"out", "wait", "back", "gone"}, key : LdKeys \cup {NoKey}, got : SUBSET Seq(LdEvents)]

Results == UNION {[D -> Seq(LdEvents)] : D \in SUBSET LdKeys}

Batcher ==
    [pc : {"open", "waiting", "prepare", "query", "answered"}, requests : Seq(LdLoads),
     reached : BOOLEAN, todo : SUBSET Nat, waiting : SUBSET Nat,
     asked : SUBSET (LdRelays \X LdKeys), cancelled : BOOLEAN, results : Results,
     received : SUBSET LdEvents]

LoaderTypes ==
    /\ ldFor \in {"replaceable", "addressable"}
    /\ ldLoad \in [LdLoads -> LoadType]
    /\ ldChannel \in [LdLoads -> SUBSET Seq(LdEvents)]
    /\ ldDone \subseteq LdLoads
    /\ ldBatches \in Seq(Batcher) /\ ldBatches # <<>>

Members(n) == ToSet(ldBatches[n].requests)

Slot(for, e, f) == e.by = f.by /\ (for = "replaceable" \/ e.d = f.d)

\* Of the events that came, found has one of every slot, and none is newer.
AllNewest(for, found, came) ==
    /\ ToSet(found) \subseteq came
    /\ \A i, j \in DOMAIN found : Slot(for, found[i], found[j]) => i = j
    /\ \A e \in came : \E i \in DOMAIN found : Slot(for, found[i], e) /\ e.at <= found[i].at

Came(n, key) == {e \in ldBatches[n].received : e.by = key}

\* Only the last batch is open for more; it is not being answered.
OpenInv ==
    \A n \in 1..Current :
        /\ ldBatches[n].pc = "open" => n = Current /\ ldBatches[n].requests = <<>>
        /\ ldBatches[n].pc = "answered" => n # Current
        /\ n = Current => ldBatches[n].pc \in {"open", "waiting"} /\ ~ldBatches[n].reached
        /\ ldBatches[n].pc \in {"open", "waiting"} =>
              /\ ~ldBatches[n].cancelled /\ ldBatches[n].results = <<>>
              /\ ldBatches[n].received = {}

\* A call is in one batch, from when it joins.
PlaceInv ==
    \A l \in LdLoads :
        /\ \A m, n \in 1..Current : l \in Members(m) /\ l \in Members(n) => m = n
        /\ ldLoad[l].pc = "out" <=> \A n \in 1..Current : l \notin Members(n)
        /\ ldLoad[l].pc # "out" => ldLoad[l].key \in LdKeys
        /\ ldLoad[l].pc = "out" => ldChannel[l] = NothingSent /\ ldLoad[l].got = NothingSent

\* Contexts that are not watched any more have ended, until the answer.
ContextInv ==
    \A n \in 1..Current :
        /\ ldBatches[n].cancelled => Members(n) \subseteq ldDone
        /\ ldBatches[n].pc \in {"prepare", "query"} =>
              \A i \in DOMAIN ldBatches[n].requests :
                  i \notin ldBatches[n].waiting => ldBatches[n].requests[i] \in ldDone

\* What a batch has collected for a key.
ResultsInv ==
    \A n \in 1..Current : ldBatches[n].pc # "answered" =>
        \A key \in LdKeys : AllNewest(ldFor, Found(ldBatches[n].results, key), Came(n, key))

\* What a call has been sent.
AnswerInv ==
    \A l \in LdLoads : \A n \in 1..Current : l \in Members(n) =>
        /\ IF ldBatches[n].pc = "answered" THEN ldChannel[l] # NothingSent
           ELSE ldChannel[l] = NothingSent /\ ldLoad[l].got = NothingSent
        /\ \A got \in ldChannel[l] \cup ldLoad[l].got : AllNewest(ldFor, got, Came(n, ldLoad[l].key))

LoaderInv == LoaderTypes /\ OpenInv /\ PlaceInv /\ ContextInv /\ ResultsInv /\ AnswerInv

LEMMA EmptyResults == <<>> \in Results /\ (\A k : Found(<<>>, k) = <<>>) /\ ToSet(<<>>) = {}
  <1>1. <<>> \in [{} -> Seq(LdEvents)]
    OBVIOUS
  <1>2. DOMAIN <<>> = {}
    OBVIOUS
  <1> QED
    BY <1>1, <1>2 DEF Results, Found, ToSet

LEMMA NothingFound == \A for, key : AllNewest(for, Found(<<>>, key), {})
  BY EmptyResults DEF AllNewest

LEMMA NewBatcherType == NewBatcher \in Batcher
  BY EmptyResults DEF NewBatcher, Batcher

\* One batch changes; the current one may be left for a new one.
Replaces(n, v) ==
    /\ ldBatches' \in Seq(Batcher) /\ Current' \in {Current, Current + 1}
    /\ \A m \in 1..Current : ldBatches'[m] = IF m = n THEN v ELSE ldBatches[m]
    /\ Current' # Current => n = Current /\ ldBatches'[Current'] = NewBatcher

LEMMA ReplaceOne ==
    ASSUME LoaderTypes, NEW n \in 1..Current, NEW v \in Batcher, ldBatches' = [ldBatches EXCEPT ![n] = v]
    PROVE  Replaces(n, v) /\ Current' = Current
  <1>1. ldBatches \in Seq(Batcher) /\ Current \in Nat
    BY DEF LoaderTypes, Current
  <1>2. ldBatches' \in Seq(Batcher) /\ Current' = Current
    BY <1>1 DEF Current
  <1> QED
    BY <1>1, <1>2 DEF Replaces, Current

LEMMA ReplaceLast ==
    ASSUME LoaderTypes, NEW v \in Batcher, ldBatches' = Append([ldBatches EXCEPT ![Current] = v], NewBatcher)
    PROVE  Replaces(Current, v) /\ Current' = Current + 1
  <1>1. ldBatches \in Seq(Batcher) /\ Current \in Nat \ {0}
    BY DEF LoaderTypes, Current
  <1> DEFINE mid == [ldBatches EXCEPT ![Current] = v]
  <1>2. mid \in Seq(Batcher) /\ Len(mid) = Current /\ \A m \in 1..Current : mid[m] = IF m = Current THEN v ELSE ldBatches[m]
    BY <1>1 DEF Current
  <1>3. NewBatcher \in Batcher
    BY NewBatcherType
  <1> HIDE DEF mid
  <1>4. ldBatches' = Append(mid, NewBatcher)
    BY DEF mid
  <1>5. /\ ldBatches' \in Seq(Batcher) /\ Len(ldBatches') = Current + 1 /\ ldBatches'[Current + 1] = NewBatcher
        /\ \A m \in 1..Current : ldBatches'[m] = mid[m]
    BY <1>1, <1>2, <1>3, <1>4
  <1> QED
    BY <1>1, <1>2, <1>5 DEF Replaces, Current

\* A batch is one there was or a new one, which has no calls and nothing that came.
LEMMA OldOrNew ==
    ASSUME LoaderTypes, NEW n, NEW v, Replaces(n, v), NEW m \in 1..Current'
    PROVE  \/ m \in 1..Current
           \/ /\ m = Current' /\ Current' # Current /\ n = Current
              /\ ldBatches'[m].pc = "open" /\ Members(m)' = {} /\ ~ldBatches'[m].cancelled
              /\ ldBatches'[m].requests = <<>> /\ ~ldBatches'[m].reached
              /\ ldBatches'[m].results = <<>> /\ ldBatches'[m].received = {}
  <1>1. Current \in Nat \ {0} /\ (Current' = Current \/ Current' = Current + 1)
    BY DEF LoaderTypes, Replaces, Current
  <1>2. m \in 1..Current \/ (m = Current' /\ Current' # Current)
    BY <1>1
  <1>3. ASSUME m = Current', Current' # Current
        PROVE  ldBatches'[m] = NewBatcher /\ n = Current
    BY <1>3 DEF Replaces
  <1>4. /\ NewBatcher.pc = "open" /\ NewBatcher.requests = <<>> /\ ~NewBatcher.cancelled
        /\ ~NewBatcher.reached /\ NewBatcher.results = <<>> /\ NewBatcher.received = {}
    BY DEF NewBatcher
  <1>5. Members(m)' = ToSet(ldBatches'[m].requests)
    BY DEF Members
  <1> QED
    BY <1>2, <1>3, <1>4, <1>5, EmptyResults

\* A batch that is collected or asked about goes on: its calls stay, and what it
\* has collected is still the newest of what came.
LEMMA BatchGoesOn ==
    ASSUME LoaderInv, NEW n \in 1..Current, NEW v \in Batcher, Replaces(n, v),
           n = Current => Current' # Current,
           UNCHANGED <<ldFor, ldLoad, ldChannel, ldDone>>,
           ldBatches[n].pc # "answered", v.pc \in {"prepare", "query"},
           v.requests = ldBatches[n].requests, v.cancelled => Members(n) \subseteq ldDone,
           \A i \in DOMAIN v.requests : i \notin v.waiting => v.requests[i] \in ldDone,
           \A key \in LdKeys : AllNewest(ldFor, Found(v.results, key), {e \in v.received : e.by = key})
    PROVE  LoaderInv'
  <1>1. Current \in Nat \ {0} /\ Current' \in Nat \ {0} /\ Current \in 1..Current
    BY DEF LoaderInv, LoaderTypes, Replaces, Current
  <1>2. LoaderTypes'
    BY <1>1 DEF LoaderInv, LoaderTypes, Replaces, Current
  <1>3. \A m \in 1..Current' :
           \/ m \in 1..Current
           \/ /\ m = Current' /\ Current' # Current /\ n = Current
              /\ ldBatches'[m].pc = "open" /\ Members(m)' = {} /\ ~ldBatches'[m].cancelled
              /\ ldBatches'[m].requests = <<>> /\ ~ldBatches'[m].reached
              /\ ldBatches'[m].results = <<>> /\ ldBatches'[m].received = {}
    BY OldOrNew DEF LoaderInv
  <1>4. \A m \in 1..Current : Members(m)' = Members(m)
    BY DEF Replaces, Members
  <1>5. \A m \in 1..Current : m \in 1..Current'
    BY <1>1 DEF Replaces
  <1>6. OpenInv'
    BY <1>1, <1>3 DEF LoaderInv, OpenInv, Replaces
  <1>7. PlaceInv'
    BY <1>3, <1>4, <1>5 DEF LoaderInv, PlaceInv
  <1>8. ContextInv'
    BY <1>3, <1>4 DEF LoaderInv, ContextInv, Replaces
  <1>9. ResultsInv'
    <2> SUFFICES ASSUME NEW m \in 1..Current', ldBatches'[m].pc # "answered", NEW key \in LdKeys
                 PROVE  AllNewest(ldFor', Found(ldBatches'[m].results, key), Came(m, key)')
      BY DEF ResultsInv
    <2>1. CASE m = n
      <3>1. Came(m, key)' = {e \in v.received : e.by = key} /\ ldBatches'[m] = v
        BY <2>1 DEF Replaces, Came
      <3> QED
        BY <3>1
    <2>2. CASE m \in 1..Current /\ m # n
      <3>1. Came(m, key)' = Came(m, key) /\ ldBatches'[m] = ldBatches[m]
        BY <2>2 DEF Replaces, Came
      <3> QED
        BY <2>2, <3>1 DEF LoaderInv, ResultsInv
    <2>3. CASE m \notin 1..Current
      <3>1. Came(m, key)' = {} /\ ldBatches'[m].results = <<>>
        BY <1>3, <2>3 DEF Came
      <3> QED
        BY <3>1, NothingFound
    <2> QED
      BY <2>1, <2>2, <2>3
  <1>10. AnswerInv'
    <2> SUFFICES ASSUME NEW l \in LdLoads, NEW m \in 1..Current', l \in Members(m)'
                 PROVE  /\ IF ldBatches'[m].pc = "answered" THEN ldChannel'[l] # NothingSent
                           ELSE ldChannel'[l] = NothingSent /\ ldLoad'[l].got = NothingSent
                        /\ \A got \in ldChannel'[l] \cup ldLoad'[l].got :
                              AllNewest(ldFor', got, Came(m, ldLoad[l].key)')
      BY DEF AnswerInv
    <2>1. m \in 1..Current /\ l \in Members(m)
      BY <1>3, <1>4
    <2>2. CASE m = n
      BY <2>1, <2>2 DEF LoaderInv, AnswerInv, Replaces, NothingSent
    <2>3. CASE m # n
      <3>1. Came(m, ldLoad[l].key)' = Came(m, ldLoad[l].key) /\ ldBatches'[m] = ldBatches[m]
        BY <2>1, <2>3 DEF Replaces, Came
      <3> QED
        BY <2>1, <3>1 DEF LoaderInv, AnswerInv
    <2> QED
      BY <2>2, <2>3
  <1> QED
    BY <1>2, <1>6, <1>7, <1>8, <1>9, <1>10 DEF LoaderInv

\* A batch that is started has all its contexts watched.
LEMMA StartKeepsInv ==
    ASSUME LoaderInv, NEW n \in DOMAIN ldBatches, ThresholdReached(n) \/ TimerFires(n)
    PROVE  LoaderInv'
  <1>1. ldBatches \in Seq(Batcher) /\ n \in 1..Current /\ Current \in 1..Current /\ Current \in Nat
    BY DEF LoaderInv, LoaderTypes, Current
  <1>2. ldBatches[n] \in Batcher
    BY <1>1 DEF Current
  <1>3. ldBatches[n].requests \in Seq(LdLoads)
    BY <1>2 DEF Batcher
  <1>4. DOMAIN ldBatches[n].requests \in SUBSET Nat
    BY <1>3
  <1> DEFINE v == [ldBatches[n] EXCEPT !.pc = "prepare", !.todo = DOMAIN ldBatches[n].requests,
                                       !.waiting = DOMAIN ldBatches[n].requests]
  <1>5. /\ v \in Batcher /\ v.pc = "prepare" /\ v.requests = ldBatches[n].requests
        /\ v.waiting = DOMAIN v.requests /\ v.cancelled = ldBatches[n].cancelled
        /\ v.results = ldBatches[n].results /\ v.received = ldBatches[n].received
    BY <1>2, <1>4 DEF Batcher
  <1>6. Started(n) = [ldBatches EXCEPT ![n] = v]
    BY <1>1 DEF Started, Current
  <1> HIDE DEF v
  <1>7. ldBatches[n].pc = "waiting" /\ UNCHANGED <<ldFor, ldLoad, ldChannel, ldDone>>
    BY DEF ThresholdReached, TimerFires
  <1>8. v.cancelled => Members(n) \subseteq ldDone
    BY <1>1, <1>5 DEF LoaderInv, ContextInv
  <1>9. \A key \in LdKeys : AllNewest(ldFor, Found(v.results, key), {e \in v.received : e.by = key})
    BY <1>1, <1>5, <1>7 DEF LoaderInv, ResultsInv, Came
  <1>10. Replaces(n, v) /\ (n = Current => Current' # Current)
    <2>1. CASE ThresholdReached(n)
      <3>1. n # Current
        BY <1>1, <2>1 DEF ThresholdReached, LoaderInv, OpenInv
      <3>2. ldBatches' = [ldBatches EXCEPT ![n] = v]
        BY <1>6, <2>1 DEF ThresholdReached
      <3> QED
        BY <1>1, <1>5, <3>1, <3>2, ReplaceOne DEF LoaderInv
    <2>2. CASE TimerFires(n) /\ n # Current
      <3>1. ldBatches' = [ldBatches EXCEPT ![n] = v]
        BY <1>6, <2>2 DEF TimerFires
      <3> QED
        BY <1>1, <1>5, <2>2, <3>1, ReplaceOne DEF LoaderInv
    <2>3. CASE TimerFires(n) /\ n = Current
      <3>1. ldBatches' = Append([ldBatches EXCEPT ![Current] = v], NewBatcher)
        BY <1>6, <2>3 DEF TimerFires
      <3> QED
        BY <1>1, <1>5, <2>3, <3>1, ReplaceLast DEF LoaderInv
    <2> QED
      BY <2>1, <2>2, <2>3
  <1> QED
    BY <1>1, <1>5, <1>7, <1>8, <1>9, <1>10, BatchGoesOn

\* Relays are chosen among those that are known.
LEMMA RelaysOfKey ==
    ASSUME NEW key \in LdKeys, NEW relays \in DetermineRelaysToQuery(key)
    PROVE  relays \subseteq LdRelays
  BY LoaderAssumption DEF DetermineRelaysToQuery

\* A key finds its relays; the last one starts the query.
LEMMA PrepareKeepsInv ==
    ASSUME LoaderInv, NEW n \in DOMAIN ldBatches, NEW i \in DOMAIN ldBatches[n].requests, PrepareKey(n, i)
    PROVE  LoaderInv'
  <1>1. ldBatches \in Seq(Batcher) /\ n \in 1..Current /\ Current \in 1..Current /\ Current \in Nat
    BY DEF LoaderInv, LoaderTypes, Current
  <1>2. ldBatches[n] \in Batcher
    BY <1>1 DEF Current
  <1>3. ldBatches[n].requests \in Seq(LdLoads)
    BY <1>2 DEF Batcher
  <1> DEFINE key == ldLoad[ldBatches[n].requests[i]].key
  <1>4. key \in LdKeys
    <2>1. ldBatches[n].requests[i] \in LdLoads /\ ldBatches[n].requests[i] \in Members(n)
      BY <1>3 DEF Members, ToSet
    <2> QED
      BY <1>1, <2>1 DEF LoaderInv, PlaceInv
  <1>5. PICK relays \in DetermineRelaysToQuery(key) :
          ldBatches' = [ldBatches EXCEPT ![n].asked = @ \cup (relays \X {key}), ![n].todo = @ \ {i},
                                         ![n].pc = IF ldBatches[n].todo = {i} THEN "query" ELSE @]
    BY DEF PrepareKey
  <1>6. relays \subseteq LdRelays
    BY <1>4, RelaysOfKey
  <1> HIDE DEF key
  <1> DEFINE v == [ldBatches[n] EXCEPT !.asked = @ \cup (relays \X {key}), !.todo = @ \ {i},
                                       !.pc = IF ldBatches[n].todo = {i} THEN "query" ELSE @]
  <1>7. ldBatches[n].pc = "prepare" /\ UNCHANGED <<ldFor, ldLoad, ldChannel, ldDone>>
    BY DEF PrepareKey
  <1>8. ldBatches[n].asked \cup (relays \X {key}) \in SUBSET (LdRelays \X LdKeys)
    BY <1>2, <1>4, <1>6 DEF Batcher
  <1>9. /\ v \in Batcher /\ v.pc \in {"prepare", "query"} /\ v.requests = ldBatches[n].requests
        /\ v.waiting = ldBatches[n].waiting /\ v.cancelled = ldBatches[n].cancelled
        /\ v.results = ldBatches[n].results /\ v.received = ldBatches[n].received
    BY <1>2, <1>7, <1>8 DEF Batcher
  <1>10. ldBatches' = [ldBatches EXCEPT ![n] = v]
    BY <1>1, <1>5 DEF Current
  <1> HIDE DEF v
  <1>11. Replaces(n, v)
    BY <1>1, <1>9, <1>10, ReplaceOne DEF LoaderInv
  <1>12. n # Current
    BY <1>1, <1>7 DEF LoaderInv, OpenInv
  <1>13. /\ v.cancelled => Members(n) \subseteq ldDone
         /\ \A j \in DOMAIN v.requests : j \notin v.waiting => v.requests[j] \in ldDone
    BY <1>1, <1>7, <1>9 DEF LoaderInv, ContextInv
  <1>14. \A k \in LdKeys : AllNewest(ldFor, Found(v.results, k), {e \in v.received : e.by = k})
    BY <1>1, <1>7, <1>9 DEF LoaderInv, ResultsInv, Came
  <1> QED
    BY <1>1, <1>7, <1>9, <1>11, <1>12, <1>13, <1>14, BatchGoesOn

\* The last context that ends cancels the query, when all have ended.
LEMMA WatchKeepsInv ==
    ASSUME LoaderInv, NEW n \in DOMAIN ldBatches, NEW i \in DOMAIN ldBatches[n].requests, WatchContext(n, i)
    PROVE  LoaderInv'
  <1>1. ldBatches \in Seq(Batcher) /\ n \in 1..Current /\ Current \in 1..Current /\ Current \in Nat
    BY DEF LoaderInv, LoaderTypes, Current
  <1>2. ldBatches[n] \in Batcher
    BY <1>1 DEF Current
  <1> DEFINE v == [ldBatches[n] EXCEPT !.waiting = @ \ {i}, !.cancelled = ldBatches[n].waiting = {i}]
  <1>3. /\ ldBatches[n].pc \in {"prepare", "query"} /\ UNCHANGED <<ldFor, ldLoad, ldChannel, ldDone>>
        /\ ldBatches[n].requests[i] \in ldDone
    BY DEF WatchContext
  <1>4. (ldBatches[n].waiting = {i}) \in BOOLEAN
    OBVIOUS
  <1>5. /\ v \in Batcher /\ v.pc = ldBatches[n].pc /\ v.requests = ldBatches[n].requests
        /\ v.waiting = ldBatches[n].waiting \ {i} /\ (v.cancelled <=> ldBatches[n].waiting = {i})
        /\ v.results = ldBatches[n].results /\ v.received = ldBatches[n].received
    BY <1>2, <1>4 DEF Batcher
  <1>6. ldBatches' = [ldBatches EXCEPT ![n] = v]
    BY <1>1 DEF Current, WatchContext
  <1> HIDE DEF v
  <1>7. Replaces(n, v)
    BY <1>1, <1>5, <1>6, ReplaceOne DEF LoaderInv
  <1>8. n # Current
    BY <1>1, <1>3 DEF LoaderInv, OpenInv
  <1>9. \A j \in DOMAIN v.requests : j \notin v.waiting => v.requests[j] \in ldDone
    BY <1>1, <1>3, <1>5 DEF LoaderInv, ContextInv
  <1>10. v.cancelled => Members(n) \subseteq ldDone
    BY <1>5, <1>9 DEF Members, ToSet
  <1>11. \A k \in LdKeys : AllNewest(ldFor, Found(v.results, k), {e \in v.received : e.by = k})
    BY <1>1, <1>3, <1>5 DEF LoaderInv, ResultsInv, Came
  <1> QED
    BY <1>1, <1>3, <1>5, <1>7, <1>8, <1>9, <1>10, <1>11, BatchGoesOn

LEMMA SeqParts ==
    ASSUME NEW found \in Seq(LdEvents)
    PROVE  /\ Len(found) \in Nat /\ DOMAIN found = 1..Len(found)
           /\ \A i \in DOMAIN found : found[i] \in LdEvents /\ found[i].at \in Int
  BY LoaderAssumption

\* A replaceable event has one slot, so there is one found at most.
LEMMA KeepReplaceableIsNewest ==
    ASSUME NEW key, NEW found \in Seq(LdEvents), NEW came \in SUBSET LdEvents, NEW e \in LdEvents,
           \A x \in came \cup {e} : x.by = key, AllNewest("replaceable", found, came)
    PROVE  /\ KeepReplaceable(found, e) \in Seq(LdEvents)
           /\ AllNewest("replaceable", KeepReplaceable(found, e), came \cup {e})
  <1>1. /\ Len(found) \in Nat /\ DOMAIN found = 1..Len(found)
        /\ \A i \in DOMAIN found : found[i] \in LdEvents /\ found[i].at \in Int
    BY SeqParts
  <1>2. \A i \in DOMAIN found : found[i] \in came
    BY DEF AllNewest, ToSet
  <1>3. \A i, j \in DOMAIN found : i = j
    BY <1>2 DEF AllNewest, Slot
  <1>4. Len(found) \in {0, 1}
    <2>1. Len(found) > 1 => 1 \in DOMAIN found /\ 2 \in DOMAIN found
      BY <1>1
    <2> QED
      BY <1>1, <1>3, <2>1
  <1>5. \A x \in came : Len(found) = 1 /\ x.at <= found[1].at
    BY <1>1, <1>4 DEF AllNewest
  <1>6. e.at \in Int /\ \A x \in came : x.at \in Int
    BY LoaderAssumption
  <1>7. found = <<>> <=> Len(found) = 0
    OBVIOUS
  <1>8. /\ <<e>> \in Seq(LdEvents) /\ DOMAIN <<e>> = {1} /\ <<e>>[1] = e
        /\ ToSet(<<e>>) = {e}
    BY DEF ToSet
  <1>9. ASSUME \A x \in came : x.at <= e.at PROVE AllNewest("replaceable", <<e>>, came \cup {e})
    <2>1. e.at <= e.at
      BY <1>6
    <2> HIDE DEF KeepReplaceable
    <2> QED
      BY <1>8, <1>9, <2>1 DEF AllNewest, Slot
  <1>10. CASE found = <<>> \/ found[1].at < e.at
    <2>1. \A x \in came : x.at <= e.at
      BY <1>1, <1>5, <1>6, <1>7, <1>10
    <2> QED
      BY <1>8, <1>9, <1>10, <2>1 DEF KeepReplaceable
  <1>11. CASE ~(found = <<>> \/ found[1].at < e.at)
    <2>1. KeepReplaceable(found, e) = found
      BY <1>11 DEF KeepReplaceable
    <2>2. 1 \in DOMAIN found /\ found[1] \in came /\ e.at <= found[1].at
      BY <1>1, <1>2, <1>4, <1>6, <1>7, <1>11
    <2> QED
      BY <1>2, <1>3, <2>1, <2>2 DEF AllNewest, Slot, ToSet
  <1> QED
    BY <1>10, <1>11

\* An addressable event has a slot for every "d".
LEMMA KeepAddressableIsNewest ==
    ASSUME NEW key, NEW found \in Seq(LdEvents), NEW came \in SUBSET LdEvents, NEW e \in LdEvents,
           \A x \in came \cup {e} : x.by = key, AllNewest("addressable", found, came)
    PROVE  /\ KeepAddressable(found, e) \in Seq(LdEvents)
           /\ AllNewest("addressable", KeepAddressable(found, e), came \cup {e})
  <1>1. /\ Len(found) \in Nat /\ DOMAIN found = 1..Len(found)
        /\ \A i \in DOMAIN found : found[i] \in LdEvents /\ found[i].at \in Int
    BY SeqParts
  <1>2. \A i \in DOMAIN found : found[i] \in came /\ found[i].by = key
    BY DEF AllNewest, ToSet
  <1>3. e.by = key /\ e.at \in Int /\ \A x \in came : x.by = key /\ x.at \in Int
    BY LoaderAssumption
  <1>4. \A i, j \in DOMAIN found : found[i].d = found[j].d => i = j
    BY <1>2 DEF AllNewest, Slot
  <1>5. \A x \in came : \E i \in DOMAIN found : found[i].d = x.d /\ x.at <= found[i].at
    BY DEF AllNewest, Slot
  <1> DEFINE same == {i \in DOMAIN found : found[i].d = e.d}
             new == KeepAddressable(found, e)
  <1>6. CASE same = {}
    <2>1. new = Append(found, e)
      BY <1>6 DEF KeepAddressable
    <2>2. /\ new \in Seq(LdEvents) /\ DOMAIN new = 1..(Len(found) + 1) /\ new[Len(found) + 1] = e
          /\ \A i \in DOMAIN found : i \in DOMAIN new /\ new[i] = found[i]
      BY <1>1, <2>1
    <2> HIDE DEF new
    <2>3. \A i \in DOMAIN new : i \in DOMAIN found \/ i = Len(found) + 1
      BY <1>1, <2>2
    <2>4. ToSet(new) \subseteq came \cup {e}
      BY <1>2, <2>2, <2>3 DEF ToSet
    <2>5. \A i, j \in DOMAIN new : new[i].d = new[j].d => i = j
      BY <1>4, <1>6, <2>2, <2>3
    <2>6. e.at <= e.at /\ Len(found) + 1 \in DOMAIN new
      BY <1>1, <1>3, <2>2
    <2>7. ASSUME NEW x \in came
          PROVE  \E i \in DOMAIN new : new[i].by = x.by /\ new[i].d = x.d /\ x.at <= new[i].at
      <3>1. PICK i \in DOMAIN found : found[i].d = x.d /\ x.at <= found[i].at
        BY <1>5
      <3> QED
        BY <1>2, <1>3, <2>2, <3>1
    <2>8. \E i \in DOMAIN new : new[i].by = e.by /\ new[i].d = e.d /\ e.at <= new[i].at
      BY <2>2, <2>6
    <2>9. AllNewest("addressable", new, came \cup {e})
      BY <2>4, <2>5, <2>7, <2>8 DEF AllNewest, Slot
    <2> QED
      BY <2>2, <2>9 DEF new
  <1>7. CASE same # {}
    <2>1. new = [i \in DOMAIN found |-> IF i \in same /\ found[i].at < e.at THEN e ELSE found[i]]
      BY <1>7 DEF KeepAddressable
    <2>2. new \in Seq(LdEvents)
      BY <1>1, <2>1
    <2>3. /\ DOMAIN new = DOMAIN found
          /\ \A i \in DOMAIN found : new[i] = IF i \in same /\ found[i].at < e.at THEN e ELSE found[i]
      BY <2>1
    <2> HIDE DEF new
    <2>4. \A i \in DOMAIN found : new[i].d = found[i].d /\ new[i].by = key /\ new[i] \in came \cup {e}
      BY <1>2, <1>3, <2>3
    <2>5. \A i \in DOMAIN found : found[i].at <= new[i].at /\ new[i].at \in Int
      BY <1>1, <1>3, <2>3
    <2>6. \A i \in same : e.at <= new[i].at
      BY <1>1, <1>3, <2>3
    <2>7. ToSet(new) \subseteq came \cup {e}
      BY <2>3, <2>4 DEF ToSet
    <2>8. \A i, j \in DOMAIN new : new[i].d = new[j].d => i = j
      BY <1>4, <2>3, <2>4
    <2>9. ASSUME NEW x \in came
          PROVE  \E i \in DOMAIN new : new[i].by = x.by /\ new[i].d = x.d /\ x.at <= new[i].at
      <3>1. PICK i \in DOMAIN found : found[i].d = x.d /\ x.at <= found[i].at
        BY <1>5
      <3>2. x.at <= new[i].at
        BY <1>1, <1>3, <2>5, <3>1
      <3> QED
        BY <1>3, <2>3, <2>4, <3>1, <3>2
    <2>10. \E i \in DOMAIN new : new[i].by = e.by /\ new[i].d = e.d /\ e.at <= new[i].at
      <3>1. PICK i \in same : TRUE
        BY <1>7
      <3> QED
        BY <1>3, <2>3, <2>4, <2>6, <3>1
    <2>11. AllNewest("addressable", new, came \cup {e})
      BY <2>7, <2>8, <2>9, <2>10 DEF AllNewest, Slot
    <2> QED
      BY <2>2, <2>11 DEF new
  <1> QED
    BY <1>6, <1>7

\* An event that comes is kept, replaces an older version, or is dropped.
LEMMA ArrivalKeepsInv ==
    ASSUME LoaderInv, NEW n \in DOMAIN ldBatches, EventArrives(n)
    PROVE  LoaderInv'
  <1>1. ldBatches \in Seq(Batcher) /\ n \in 1..Current /\ Current \in 1..Current /\ Current \in Nat
    BY DEF LoaderInv, LoaderTypes, Current
  <1>2. ldBatches[n] \in Batcher
    BY <1>1 DEF Current
  <1>3. /\ ldBatches[n].pc = "query" /\ UNCHANGED <<ldFor, ldLoad, ldChannel, ldDone>>
        /\ n # Current
    BY <1>1 DEF EventArrives, LoaderInv, OpenInv
  <1> DEFINE results == ldBatches[n].results
             kept(e) == [k \in DOMAIN results \cup {e.by} |->
                           IF k = e.by THEN Keep(Found(results, k), e) ELSE results[k]]
             v(e) == [ldBatches[n] EXCEPT !.results = kept(e), !.received = @ \cup {e}]
  <1>4. PICK rk \in ldBatches[n].asked : \E e \in LdHolds[rk[1]] \ ldBatches[n].received :
          e.by = rk[2] /\ ldBatches' = [ldBatches EXCEPT ![n].results = kept(e), ![n].received = @ \cup {e}]
    BY DEF EventArrives
  <1>5. PICK e \in LdHolds[rk[1]] : /\ e.by = rk[2]
                                    /\ ldBatches' = [ldBatches EXCEPT ![n].results = kept(e), ![n].received = @ \cup {e}]
    BY <1>4
  <1>6. e \in LdEvents /\ e.by \in LdKeys
    <2>1. rk[1] \in LdRelays /\ rk[2] \in LdKeys
      BY <1>2 DEF Batcher
    <2> QED
      BY <1>5, <2>1 DEF LdEvents
  <1>7. results \in Results /\ ldBatches[n].received \in SUBSET LdEvents
    BY <1>2 DEF Batcher
  <1>8. PICK D \in SUBSET LdKeys : results \in [D -> Seq(LdEvents)]
    BY <1>7 DEF Results
  <1>9. \A k \in LdKeys : /\ Found(results, k) \in Seq(LdEvents)
                          /\ AllNewest(ldFor, Found(results, k), Came(n, k))
    <2>1. <<>> \in Seq(LdEvents)
      OBVIOUS
    <2> QED
      BY <1>1, <1>3, <1>8, <2>1 DEF Found, LoaderInv, ResultsInv
  <1>10. /\ Keep(Found(results, e.by), e) \in Seq(LdEvents)
         /\ AllNewest(ldFor, Keep(Found(results, e.by), e), Came(n, e.by) \cup {e})
    <2>1. PICK found : found = Found(results, e.by)
      OBVIOUS
    <2>2. PICK came : came = Came(n, e.by)
      OBVIOUS
    <2>3. /\ found \in Seq(LdEvents) /\ came \in SUBSET LdEvents /\ AllNewest(ldFor, found, came)
          /\ \A x \in came \cup {e} : x.by = e.by
      BY <1>6, <1>7, <1>9, <2>1, <2>2 DEF Came
    <2>4. CASE ldFor = "replaceable"
      BY <1>6, <2>1, <2>2, <2>3, <2>4, KeepReplaceableIsNewest DEF Keep
    <2>5. CASE ldFor = "addressable"
      BY <1>6, <2>1, <2>2, <2>3, <2>5, KeepAddressableIsNewest DEF Keep
    <2> QED
      BY <2>4, <2>5 DEF LoaderInv, LoaderTypes
  <1>11. kept(e) \in Results /\ \A k \in LdKeys : Found(kept(e), k) = IF k = e.by THEN Keep(Found(results, k), e)
                                                                     ELSE Found(results, k)
    <2>1. kept(e) \in [D \cup {e.by} -> Seq(LdEvents)]
      BY <1>8, <1>10
    <2>2. D \cup {e.by} \in SUBSET LdKeys
      BY <1>6
    <2>3. kept(e) \in Results
      BY <2>1, <2>2 DEF Results
    <2>4. \A k \in LdKeys : Found(kept(e), k) = IF k = e.by THEN Keep(Found(results, k), e)
                                                            ELSE Found(results, k)
      BY <1>8 DEF Found
    <2> QED
      BY <2>3, <2>4
  <1>12. /\ v(e) \in Batcher /\ v(e).pc = "query" /\ v(e).requests = ldBatches[n].requests
         /\ v(e).waiting = ldBatches[n].waiting /\ v(e).cancelled = ldBatches[n].cancelled
         /\ v(e).results = kept(e) /\ v(e).received = ldBatches[n].received \cup {e}
    BY <1>2, <1>3, <1>6, <1>7, <1>11 DEF Batcher
  <1>13. ldBatches' = [ldBatches EXCEPT ![n] = v(e)]
    BY <1>1, <1>5 DEF Current
  <1> HIDE DEF v, kept, results
  <1>14. Replaces(n, v(e))
    BY <1>1, <1>12, <1>13, ReplaceOne DEF LoaderInv
  <1>15. /\ v(e).cancelled => Members(n) \subseteq ldDone
         /\ \A j \in DOMAIN v(e).requests : j \notin v(e).waiting => v(e).requests[j] \in ldDone
    BY <1>1, <1>3, <1>12 DEF LoaderInv, ContextInv
  <1>16. ASSUME NEW k \in LdKeys
         PROVE  AllNewest(ldFor, Found(v(e).results, k), {x \in v(e).received : x.by = k})
    <2>1. {x \in v(e).received : x.by = k} = IF k = e.by THEN Came(n, k) \cup {e} ELSE Came(n, k)
      BY <1>12 DEF Came
    <2> QED
      BY <1>9, <1>10, <1>11, <1>12, <2>1
  <1> QED
    BY <1>1, <1>3, <1>12, <1>14, <1>15, <1>16, BatchGoesOn

\* The calls of the batch, and no others, are sent what it has collected.
LEMMA AnswerKeepsInv ==
    ASSUME LoaderInv, NEW n \in DOMAIN ldBatches, QueryEnds(n) \/ QueryCancelled(n)
    PROVE  LoaderInv'
  <1>1. ldBatches \in Seq(Batcher) /\ n \in 1..Current /\ Current \in 1..Current /\ Current \in Nat \ {0}
    BY DEF LoaderInv, LoaderTypes, Current
  <1>2. ldBatches[n] \in Batcher
    BY <1>1 DEF Current
  <1>3. ldBatches[n].pc = "query" /\ Answer(n) /\ UNCHANGED <<ldFor, ldLoad, ldDone>>
    BY DEF QueryEnds, QueryCancelled, Answer
  <1>4. n # Current
    BY <1>1, <1>3 DEF LoaderInv, OpenInv
  <1> DEFINE v == [ldBatches[n] EXCEPT !.pc = "answered", !.waiting = {}, !.asked = {}, !.results = <<>>]
             found(l) == Found(ldBatches[n].results, ldLoad[l].key)
  <1>5. /\ v \in Batcher /\ v.pc = "answered" /\ v.requests = ldBatches[n].requests
        /\ v.cancelled = ldBatches[n].cancelled /\ v.received = ldBatches[n].received
    BY <1>2, EmptyResults DEF Batcher
  <1>6. ldBatches' = [ldBatches EXCEPT ![n] = v]
    BY <1>1, <1>3 DEF Answer, Current
  <1> HIDE DEF v
  <1>7. Replaces(n, v) /\ Current' = Current
    BY <1>1, <1>5, <1>6, ReplaceOne DEF LoaderInv
  <1>8. \A l \in LdLoads : ldChannel'[l] = IF l \in Members(n) THEN {found(l)} ELSE ldChannel[l]
    BY <1>3 DEF Answer, Members
  <1>9. DOMAIN ldChannel' = LdLoads /\ ldChannel' = [l \in LdLoads |-> ldChannel'[l]]
    BY <1>3 DEF Answer
  <1>10. ASSUME NEW l \in LdLoads, l \in Members(n)
         PROVE  /\ found(l) \in Seq(LdEvents) /\ ldLoad[l].key \in LdKeys
                /\ AllNewest(ldFor, found(l), Came(n, ldLoad[l].key))
    <2>1. ldLoad[l].key \in LdKeys
      BY <1>1, <1>10 DEF LoaderInv, PlaceInv
    <2>2. ldBatches[n].results \in Results
      BY <1>2 DEF Batcher
    <2>3. PICK D \in SUBSET LdKeys : ldBatches[n].results \in [D -> Seq(LdEvents)]
      BY <2>2 DEF Results
    <2>4. <<>> \in Seq(LdEvents)
      OBVIOUS
    <2>5. found(l) \in Seq(LdEvents)
      BY <2>3, <2>4 DEF Found
    <2> QED
      BY <1>1, <1>3, <2>1, <2>5 DEF LoaderInv, ResultsInv
  <1> HIDE DEF found
  <1>11. ldChannel' \in [LdLoads -> SUBSET Seq(LdEvents)]
    BY <1>8, <1>9, <1>10 DEF LoaderInv, LoaderTypes
  <1>12. LoaderTypes'
    BY <1>1, <1>3, <1>7, <1>11 DEF LoaderInv, LoaderTypes, Replaces, Current
  <1>13. \A m \in 1..Current : Members(m)' = Members(m) /\ \A key : Came(m, key)' = Came(m, key)
    BY <1>5, <1>7 DEF Replaces, Members, Came
  <1>14. OpenInv'
    BY <1>1, <1>4, <1>5, <1>7 DEF LoaderInv, OpenInv, Replaces
  <1>15. PlaceInv'
    <2> SUFFICES ASSUME NEW l \in LdLoads
                 PROVE  /\ \A k, m \in 1..Current : l \in Members(k) /\ l \in Members(m) => k = m
                        /\ ldLoad[l].pc = "out" <=> \A m \in 1..Current : l \notin Members(m)
                        /\ ldLoad[l].pc # "out" => ldLoad[l].key \in LdKeys
                        /\ ldLoad[l].pc = "out" => ldChannel'[l] = NothingSent /\ ldLoad[l].got = NothingSent
      BY <1>3, <1>7, <1>13 DEF PlaceInv
    <2>1. /\ \A k, m \in 1..Current : l \in Members(k) /\ l \in Members(m) => k = m
          /\ ldLoad[l].pc = "out" <=> \A m \in 1..Current : l \notin Members(m)
          /\ ldLoad[l].pc # "out" => ldLoad[l].key \in LdKeys
          /\ ldLoad[l].pc = "out" => ldChannel[l] = NothingSent /\ ldLoad[l].got = NothingSent
      BY DEF LoaderInv, PlaceInv
    <2>2. ldLoad[l].pc = "out" => ldChannel'[l] = ldChannel[l]
      BY <1>1, <1>8, <2>1
    <2> QED
      BY <2>1, <2>2
  <1>16. ContextInv'
    BY <1>1, <1>3, <1>5, <1>7, <1>13 DEF LoaderInv, ContextInv, Replaces
  <1>17. ResultsInv'
    BY <1>1, <1>3, <1>5, <1>7, <1>13 DEF LoaderInv, ResultsInv, Replaces
  <1>18. AnswerInv'
    <2> SUFFICES ASSUME NEW l \in LdLoads, NEW m \in 1..Current, l \in Members(m)
                 PROVE  /\ IF ldBatches'[m].pc = "answered" THEN ldChannel'[l] # NothingSent
                           ELSE ldChannel'[l] = NothingSent /\ ldLoad'[l].got = NothingSent
                        /\ \A got \in ldChannel'[l] \cup ldLoad'[l].got :
                              AllNewest(ldFor', got, Came(m, ldLoad[l].key)')
      BY <1>7, <1>13 DEF AnswerInv
    <2>1. Came(m, ldLoad[l].key)' = Came(m, ldLoad[l].key) /\ ldLoad'[l].got = ldLoad[l].got /\ ldFor' = ldFor
      BY <1>3, <1>13
    <2>2. CASE m = n
      <3>1. ldBatches'[m].pc = "answered" /\ ldChannel'[l] = {found(l)}
        BY <1>5, <1>7, <1>8, <2>2 DEF Replaces
      <3>2. ldLoad[l].got = NothingSent
        BY <1>1, <1>3, <2>2 DEF LoaderInv, AnswerInv
      <3> QED
        BY <1>10, <2>1, <2>2, <3>1, <3>2 DEF NothingSent
    <2>3. CASE m # n
      <3>1. l \notin Members(n)
        BY <1>1, <2>3 DEF LoaderInv, PlaceInv
      <3>2. ldBatches'[m] = ldBatches[m] /\ ldChannel'[l] = ldChannel[l]
        BY <1>7, <1>8, <2>3, <3>1 DEF Replaces
      <3> QED
        BY <2>1, <3>2 DEF LoaderInv, AnswerInv
    <2> QED
      BY <2>2, <2>3
  <1> QED
    BY <1>12, <1>14, <1>15, <1>16, <1>17, <1>18 DEF LoaderInv

\* A call joins the last batch, and closes it if it is full.
LEMMA JoinKeepsInv ==
    ASSUME LoaderInv, NEW l \in LdLoads, NEW key \in LdKeys, LoadJoins(l, key)
    PROVE  LoaderInv'
  <1>1. PICK n : n = Current /\ ldBatches \in Seq(Batcher) /\ n \in 1..Current /\ Current \in Nat \ {0}
    BY DEF LoaderInv, LoaderTypes, Current
  <1>2. ldBatches[n] \in Batcher
    BY <1>1 DEF Current
  <1>3. /\ ldLoad[l].pc = "out" /\ UNCHANGED <<ldFor, ldChannel, ldDone>>
        /\ ldLoad' = [ldLoad EXCEPT ![l].pc = "wait", ![l].key = key]
    BY DEF LoadJoins
  <1> DEFINE old == ldBatches[n].requests
             requests == Append(old, l)
             full == Len(requests) = BatchCap
             v == [ldBatches[n] EXCEPT !.requests = requests, !.reached = full,
                                       !.pc = IF Len(requests) = 1 THEN "waiting" ELSE @]
  <1>4. old \in Seq(LdLoads)
    BY <1>2 DEF Batcher
  <1>5. requests \in Seq(LdLoads) /\ Len(requests) = Len(old) + 1 /\ ToSet(requests) = ToSet(old) \cup {l}
    <2>1. /\ requests \in Seq(LdLoads) /\ Len(requests) = Len(old) + 1 /\ requests[Len(old) + 1] = l
          /\ \A i \in 1..Len(old) : requests[i] = old[i]
          /\ DOMAIN old = 1..Len(old) /\ DOMAIN requests = 1..(Len(old) + 1) /\ Len(old) \in Nat
      BY <1>4
    <2> HIDE DEF requests, old
    <2>2. 1..(Len(old) + 1) = 1..Len(old) \cup {Len(old) + 1}
      BY <2>1
    <2> QED
      BY <2>1, <2>2 DEF ToSet
  <1>6. ldBatches[n].pc \in {"open", "waiting"} /\ ~ldBatches[n].cancelled /\ ldBatches[n].results = <<>>
        /\ ldBatches[n].received = {} /\ (ldBatches[n].pc = "open" => Len(old) = 0)
    BY <1>1 DEF LoaderInv, OpenInv
  <1>7. full \in BOOLEAN
    OBVIOUS
  <1>8. /\ v \in Batcher /\ v.pc = "waiting" /\ v.requests = requests /\ (v.reached <=> full)
        /\ ~v.cancelled /\ v.results = <<>> /\ v.received = {}
    <2> HIDE DEF requests, full
    <2>1. (IF Len(requests) = 1 THEN "waiting" ELSE ldBatches[n].pc) = "waiting"
      BY <1>4, <1>5, <1>6
    <2> HIDE DEF old
    <2> QED
      BY <1>2, <1>5, <1>6, <1>7, <2>1 DEF Batcher
  <1> DEFINE joined == [ldBatches EXCEPT ![n] = v]
  <1>9. ldBatches' = IF full THEN Append(joined, NewBatcher) ELSE joined
    <2>1. joined = [ldBatches EXCEPT ![n].requests = requests, ![n].reached = full,
                                     ![n].pc = IF Len(requests) = 1 THEN "waiting" ELSE @]
      BY <1>1 DEF Current
    <2> QED
      BY <1>1, <2>1 DEF LoadJoins
  <1> HIDE DEF v, requests, full, old
  <1>10. Replaces(n, v) /\ (n = Current' => ~full)
    BY <1>1, <1>8, <1>9, ReplaceOne, ReplaceLast DEF LoaderInv
  <1> HIDE DEF joined
  <1>11. LoaderTypes /\ Current' \in Nat \ {0} /\ Current' >= Current
    BY <1>1, <1>10 DEF LoaderInv, Replaces
  <1>12. ldLoad' \in [LdLoads -> LoadType]
    BY <1>3, <1>11 DEF LoaderTypes, LoadType
  <1>13. LoaderTypes'
    BY <1>3, <1>10, <1>11, <1>12 DEF LoaderTypes, Replaces, Current
  <1>14. \A m \in 1..Current' :
           \/ m \in 1..Current
           \/ /\ m = Current' /\ Current' # Current
              /\ ldBatches'[m].pc = "open" /\ Members(m)' = {} /\ ~ldBatches'[m].cancelled
              /\ ldBatches'[m].requests = <<>> /\ ~ldBatches'[m].reached
              /\ ldBatches'[m].results = <<>> /\ ldBatches'[m].received = {}
    BY <1>10, <1>11, OldOrNew
  <1>15. \A m \in 1..Current : /\ Members(m)' = IF m = n THEN Members(m) \cup {l} ELSE Members(m)
                               /\ m \in 1..Current'
    <2>1. Members(n)' = ToSet(v.requests) /\ Members(n) = ToSet(old)
      BY <1>1, <1>10 DEF Replaces, Members, old
    <2>2. \A m \in 1..Current : m # n => Members(m)' = Members(m)
      BY <1>10 DEF Replaces, Members
    <2>3. \A m \in 1..Current : m \in 1..Current'
      BY <1>1, <1>11
    <2> QED
      BY <1>5, <1>8, <2>1, <2>2, <2>3
  <1>16. \A m \in 1..Current : \A k : Came(m, k)' = Came(m, k)
    BY <1>6, <1>8, <1>10 DEF Replaces, Came
  <1>17. OpenInv'
    BY <1>1, <1>8, <1>10, <1>14 DEF LoaderInv, OpenInv, Replaces
  <1>18. \A x \in LdLoads : /\ x # l => ldLoad'[x] = ldLoad[x]
                            /\ x = l => ldLoad'[x].pc = "wait" /\ ldLoad'[x].key = key /\ ldLoad'[x].got = ldLoad[x].got
    BY <1>3, <1>11 DEF LoaderTypes, LoadType
  <1>19. \A m \in 1..Current : l \notin Members(m)
    BY <1>3 DEF LoaderInv, PlaceInv
  <1>20. PlaceInv'
    <2> SUFFICES ASSUME NEW x \in LdLoads
                 PROVE  /\ \A k, m \in 1..Current' : x \in Members(k)' /\ x \in Members(m)' => k = m
                        /\ ldLoad'[x].pc = "out" <=> \A m \in 1..Current' : x \notin Members(m)'
                        /\ ldLoad'[x].pc # "out" => ldLoad'[x].key \in LdKeys
                        /\ ldLoad'[x].pc = "out" => ldChannel'[x] = NothingSent /\ ldLoad'[x].got = NothingSent
      BY DEF PlaceInv
    <2>1. /\ \A k, m \in 1..Current : x \in Members(k) /\ x \in Members(m) => k = m
          /\ ldLoad[x].pc = "out" <=> \A m \in 1..Current : x \notin Members(m)
          /\ ldLoad[x].pc # "out" => ldLoad[x].key \in LdKeys
          /\ ldLoad[x].pc = "out" => ldChannel[x] = NothingSent /\ ldLoad[x].got = NothingSent
      BY DEF LoaderInv, PlaceInv
    <2>2. \A m \in 1..Current' : x \in Members(m)' => m \in 1..Current
      BY <1>14
    <2>3. CASE x = l
      <3>1. \A m \in 1..Current' : x \in Members(m)' <=> m = n
        BY <1>1, <1>15, <1>19, <2>2, <2>3
      <3>2. n \in 1..Current'
        BY <1>1, <1>15
      <3> QED
        BY <1>18, <2>3, <3>1, <3>2
    <2>4. CASE x # l
      <3>1. \A m \in 1..Current' : x \in Members(m)' <=> m \in 1..Current /\ x \in Members(m)
        BY <1>15, <2>2, <2>4
      <3>2. \A m \in 1..Current : m \in 1..Current'
        BY <1>15
      <3> QED
        BY <1>3, <1>18, <2>1, <2>4, <3>1, <3>2
    <2> QED
      BY <2>3, <2>4
  <1>21. ContextInv'
    BY <1>3, <1>8, <1>10, <1>14, <1>15 DEF LoaderInv, ContextInv, Replaces
  <1>22. ResultsInv'
    <2> SUFFICES ASSUME NEW m \in 1..Current', ldBatches'[m].pc # "answered", NEW k \in LdKeys
                 PROVE  AllNewest(ldFor', Found(ldBatches'[m].results, k), Came(m, k)')
      BY DEF ResultsInv
    <2>1. CASE m \in 1..Current
      <3>1. ldBatches'[m].results = ldBatches[m].results /\ ldBatches[m].pc # "answered"
        BY <1>6, <1>8, <1>10, <2>1 DEF Replaces
      <3> QED
        BY <1>3, <1>16, <2>1, <3>1 DEF LoaderInv, ResultsInv
    <2>2. CASE m \notin 1..Current
      <3>1. Came(m, k)' = {} /\ ldBatches'[m].results = <<>>
        BY <1>14, <2>2 DEF Came
      <3> QED
        BY <3>1, NothingFound
    <2> QED
      BY <2>1, <2>2
  <1>23. AnswerInv'
    <2> SUFFICES ASSUME NEW x \in LdLoads, NEW m \in 1..Current', x \in Members(m)'
                 PROVE  /\ IF ldBatches'[m].pc = "answered" THEN ldChannel'[x] # NothingSent
                           ELSE ldChannel'[x] = NothingSent /\ ldLoad'[x].got = NothingSent
                        /\ \A got \in ldChannel'[x] \cup ldLoad'[x].got :
                              AllNewest(ldFor', got, Came(m, ldLoad[x].key)')
      BY DEF AnswerInv
    <2>1. m \in 1..Current
      BY <1>14
    <2>2. CASE x = l
      <3>1. m = n /\ ldBatches'[m].pc = "waiting"
        BY <1>8, <1>10, <1>15, <1>19, <2>1, <2>2 DEF Replaces
      <3>2. ldChannel'[x] = {} /\ ldLoad'[x].got = {}
        BY <1>3, <1>18, <2>2 DEF LoaderInv, PlaceInv, NothingSent
      <3> QED
        BY <3>1, <3>2 DEF NothingSent
    <2>3. CASE x # l
      <3>1. x \in Members(m) /\ ldLoad'[x] = ldLoad[x] /\ ldChannel'[x] = ldChannel[x] /\ ldFor' = ldFor
        BY <1>3, <1>15, <1>18, <2>1, <2>3
      <3>2. Came(m, ldLoad[x].key)' = Came(m, ldLoad[x].key)
        BY <1>16, <2>1, <3>1 DEF Came
      <3>3. ldBatches'[m].pc = "answered" <=> ldBatches[m].pc = "answered"
        BY <1>6, <1>8, <1>10, <2>1 DEF Replaces
      <3> QED
        BY <2>1, <3>1, <3>2, <3>3 DEF LoaderInv, AnswerInv
    <2> QED
      BY <2>2, <2>3
  <1> QED
    BY <1>13, <1>17, <1>20, <1>21, <1>22, <1>23 DEF LoaderInv

\* Members return or give up, and contexts end: the batches stay as they are.
LEMMA CallKeepsInv ==
    ASSUME LoaderInv, NEW l \in LdLoads, LoadReturns(l) \/ LoadGivesUp(l) \/ ContextEnds(l)
    PROVE  LoaderInv'
  <1>1. LoaderTypes /\ UNCHANGED <<ldFor, ldChannel, ldBatches>> /\ ldLoad[l].pc = "wait"
    BY DEF LoaderInv, LoadReturns, LoadGivesUp, ContextEnds
  <1>2. Current' = Current /\ \A n : Members(n)' = Members(n) /\ \A key : Came(n, key)' = Came(n, key)
    BY <1>1 DEF Current, Members, Came
  <1>3. ldDone \subseteq ldDone' /\ ldDone' \subseteq LdLoads
    BY <1>1 DEF LoadReturns, LoadGivesUp, ContextEnds, LoaderTypes
  <1>4. ldLoad' \in [LdLoads -> LoadType]
    BY <1>1 DEF LoadReturns, LoadGivesUp, ContextEnds, LoaderTypes, LoadType
  <1>5. \A x \in LdLoads : /\ ldLoad'[x].key = ldLoad[x].key /\ (ldLoad'[x].pc = "out" <=> ldLoad[x].pc = "out")
                           /\ \/ ldLoad'[x].got = ldLoad[x].got
                              \/ ldLoad'[x].got = ldChannel[x] /\ ldChannel[x] # NothingSent
    BY <1>1 DEF LoadReturns, LoadGivesUp, ContextEnds, LoaderTypes, LoadType
  <1>6. LoaderTypes'
    BY <1>1, <1>3, <1>4 DEF LoaderTypes
  <1>7. OpenInv'
    BY <1>1, <1>2 DEF LoaderInv, OpenInv
  <1>8. PlaceInv'
    BY <1>1, <1>2, <1>5 DEF LoaderInv, PlaceInv
  <1>9. ContextInv'
    BY <1>1, <1>2, <1>3 DEF LoaderInv, ContextInv
  <1>10. ResultsInv'
    BY <1>1, <1>2 DEF LoaderInv, ResultsInv
  <1>11. AnswerInv'
    BY <1>1, <1>2, <1>5 DEF LoaderInv, AnswerInv
  <1> QED
    BY <1>6, <1>7, <1>8, <1>9, <1>10, <1>11 DEF LoaderInv

LEMMA LoaderStep == LoaderInv /\ [DataloaderNext]_ldVars => LoaderInv'
  <1> SUFFICES ASSUME LoaderInv, [DataloaderNext]_ldVars PROVE LoaderInv'
    OBVIOUS
  <1>1. CASE UNCHANGED ldVars
    <2>1. UNCHANGED <<ldFor, ldLoad, ldChannel, ldDone, ldBatches>> /\ Current' = Current
      BY <1>1 DEF ldVars, Current
    <2>2. \A n : Members(n)' = Members(n) /\ \A key : Came(n, key)' = Came(n, key)
      BY <2>1 DEF Members, Came
    <2>3. LoaderTypes' /\ OpenInv' /\ ContextInv'
      BY <2>1, <2>2 DEF LoaderInv, LoaderTypes, OpenInv, ContextInv
    <2>4. PlaceInv'
      BY <2>1, <2>2 DEF LoaderInv, PlaceInv
    <2>5. ResultsInv'
      BY <2>1, <2>2 DEF LoaderInv, ResultsInv
    <2>6. AnswerInv'
      BY <2>1, <2>2 DEF LoaderInv, AnswerInv
    <2> QED
      BY <2>3, <2>4, <2>5, <2>6 DEF LoaderInv
  <1>2. CASE DataloaderNext
    BY <1>2, JoinKeepsInv, CallKeepsInv, StartKeepsInv, ArrivalKeepsInv, AnswerKeepsInv, PrepareKeepsInv,
       WatchKeepsInv DEF DataloaderNext
  <1> QED
    BY <1>1, <1>2

LEMMA LoaderStart == DataloaderInit => LoaderInv
  <1> SUFFICES ASSUME DataloaderInit PROVE LoaderInv
    OBVIOUS
  <1>1. ldBatches = <<NewBatcher>> /\ NewBatcher \in Batcher
    BY NewBatcherType DEF DataloaderInit
  <1>2. ldBatches \in Seq(Batcher) /\ ldBatches # <<>> /\ Current = 1 /\ ldBatches[1] = NewBatcher
    BY <1>1 DEF Current
  <1>3. LoaderTypes
    BY <1>2 DEF DataloaderInit, LoaderTypes, LoadType, NothingSent
  <1>4. \A n \in 1..Current : n = 1
    BY <1>2
  <1>5. /\ NewBatcher.pc = "open" /\ NewBatcher.requests = <<>> /\ ~NewBatcher.cancelled
        /\ ~NewBatcher.reached /\ NewBatcher.results = <<>> /\ NewBatcher.received = {}
    BY DEF NewBatcher
  <1>6. Members(1) = {} /\ \A key : Came(1, key) = {}
    BY <1>2, <1>5, EmptyResults DEF Members, Came
  <1>7. OpenInv /\ ContextInv
    BY <1>2, <1>4, <1>5, <1>6 DEF OpenInv, ContextInv
  <1>8. PlaceInv
    BY <1>4, <1>6 DEF PlaceInv, DataloaderInit, NothingSent
  <1>9. ResultsInv
    BY <1>2, <1>4, <1>5, <1>6, NothingFound DEF ResultsInv
  <1>10. AnswerInv
    BY <1>4, <1>6 DEF AnswerInv
  <1> QED
    BY <1>3, <1>7, <1>8, <1>9, <1>10 DEF LoaderInv

LEMMA InvGivesAnswers == LoaderInv => LoadsAreAnswered
  <1> SUFFICES ASSUME LoaderInv PROVE LoadsAreAnswered
    OBVIOUS
  <1>1. DOMAIN ldBatches = 1..Current
    BY DEF LoaderInv, LoaderTypes, Current
  <1>2. \A l : BatchesOf(l) = {n \in 1..Current : l \in Members(n)}
    BY <1>1 DEF BatchesOf, Members
  <1>3. ASSUME NEW l \in LdLoads, ldLoad[l].pc = "wait"
        PROVE  /\ Cardinality(BatchesOf(l)) = 1
               /\ \A b \in BatchesOf(l) : ldBatches[b].pc \in {"open", "answered"} => ldChannel[l] # NothingSent
    <2>1. PICK b \in 1..Current : l \in Members(b)
      BY <1>3 DEF LoaderInv, PlaceInv
    <2>2. \A n \in 1..Current : l \in Members(n) => n = b
      BY <2>1 DEF LoaderInv, PlaceInv
    <2>3. BatchesOf(l) = {b}
      BY <1>2, <2>1, <2>2
    <2>4. Cardinality(BatchesOf(l)) = 1
      BY <2>3, FS_Singleton
    <2>5. ldBatches[b].pc = "open" => Members(b) = {}
      BY EmptyResults DEF LoaderInv, OpenInv, Members
    <2> QED
      BY <2>1, <2>3, <2>4, <2>5 DEF LoaderInv, AnswerInv
  <1>4. Collected
    BY <1>3 DEF Collected
  <1>5. CancelledByAll
    BY <1>1 DEF CancelledByAll, LoaderInv, ContextInv, Members
  <1>6. ASSUME NEW l \in LdLoads, NEW b \in BatchesOf(l)
        PROVE  ReturnsNewest(l, b)
    <2>1. b \in 1..Current /\ l \in Members(b)
      BY <1>2
    <2>2. \A got \in ldLoad[l].got : AllNewest(ldFor, got, Came(b, ldLoad[l].key))
      BY <2>1 DEF LoaderInv, AnswerInv
    <2> QED
      BY <2>2 DEF ReturnsNewest, AllNewest, Slot, SameSlot, Came
  <1> QED
    BY <1>4, <1>5, <1>6 DEF LoadsAreAnswered

(***************************************************************************)
(* Every call of Load is answered by the one batch it joined, with the     *)
(* newest version of what came for its key, for any calls, keys, relays,   *)
(* sizes of batches and contexts that end: dataloader.go keeps its promise *)
(* to callers that others share a query with.                              *)
(***************************************************************************)
THEOREM LoaderAnswersLoads == DataloaderInit /\ [][DataloaderNext]_ldVars => []LoadsAreAnswered
  <1> QED
    BY LoaderStart, LoaderStep, InvGivesAnswers, PTL

(***************************************************************************)
(* How the SDK fetches.                                                    *)
(***************************************************************************)
Versions == DOMAIN SfTime

FetchPlaces ==
    {"out", "sleep", "look", "cached", "query", "check", "fetch", "refresh",
     "fetched", "refreshed", "mark", "save", "cache", "back", "panic"}

FetchCall ==
    [pc : FetchPlaces, v : SUBSET Versions, new : SUBSET Versions, internal : BOOLEAN, found : SUBSET Versions]

\* Covers and SfSlot, for one style: versions V are as new as the versions W.
SlotBy(style, e) == IF style = "sets" THEN SfD[e] ELSE "one"
AsNew(style, V, W) == \A f \in W : \E e \in V : SlotBy(style, e) = SlotBy(style, f) /\ SfTime[f] <= SfTime[e]

\* One version for each slot.
OneEach(style, V) == \A e, f \in V : SlotBy(style, e) = SlotBy(style, f) => e = f

\* What a call knows at each step, of itself and of the store, which may have lost some versions.
CallOk(style, store, lost, call) ==
    /\ AsNew(style, store, call.v \ lost) /\ AsNew(style, store, call.new \ lost) /\ OneEach(style, call.new)
    /\ call.pc \in {"out", "sleep", "look", "query", "fetch", "fetched"} => call.v = {} /\ call.found = {}
    /\ call.pc \in {"out", "sleep", "look", "query", "check", "fetch", "refresh"} => call.new = {}
    /\ call.pc \in {"check", "refresh", "refreshed"} =>
          call.v = call.found /\ (style # "sets" => \E f \in Versions : call.v = {f})
    /\ call.pc = "refreshed" /\ style # "sets" => call.new = {} \/ \E e \in Versions : call.new = {e}
    /\ call.pc \in {"mark", "save", "cache", "back"} =>
          AsNew(style, call.v, call.new) /\ (style # "sets" => AsNew(style, call.v, call.found))

\* The store keeps up with what the cache has, or is about to have.
Kept(style, store, lost, V) == V \in SUBSET Versions /\ AsNew(style, store, V \ lost)

CacheOk(style, store, lost, cache, buffer) ==
    /\ \A V \in cache : Kept(style, store, lost, V)
    /\ buffer \in Seq(SUBSET Versions) /\ \A i \in 1..Len(buffer) : Kept(style, store, lost, buffer[i])

\* What a step does to the store: it stays as new as it was, and as what is no longer lost.
StoreGrows ==
    /\ sfStore' \in SUBSET Versions /\ sfLost' \in SUBSET Versions
    /\ AsNew(sfStyle, sfStore', sfStore) /\ AsNew(sfStyle, sfStore', sfLost \ sfLost')

FetchInv ==
    /\ sfStyle \in {"list", "sets", "profile"} /\ sfStore \subseteq Versions /\ sfLost \subseteq Versions
    /\ sfCall \in [SfCalls -> FetchCall]
    /\ CacheOk(sfStyle, sfStore, sfLost, sfCache, sfBuffer)
    /\ \A c \in SfCalls : CallOk(sfStyle, sfStore, sfLost, sfCall[c])

-----------------------------------------------------------------------------

LEMMA TimesAreNumbers == \A e \in Versions : SfTime[e] \in Int /\ e \in Nat
  BY FetchAssumption DEF Versions

LEMMA AsNewIsOrder ==
  ASSUME NEW style, NEW U \in SUBSET Versions, NEW V \in SUBSET Versions, NEW W \in SUBSET Versions
  PROVE  AsNew(style, V, V) /\ (AsNew(style, U, V) /\ AsNew(style, V, W) => AsNew(style, U, W))
  <1>1. AsNew(style, V, V)
    BY TimesAreNumbers DEF AsNew
  <1>2. ASSUME AsNew(style, U, V), AsNew(style, V, W), NEW w \in W
        PROVE  \E u \in U : SlotBy(style, u) = SlotBy(style, w) /\ SfTime[w] <= SfTime[u]
    <2>1. PICK v \in V : SlotBy(style, v) = SlotBy(style, w) /\ SfTime[w] <= SfTime[v]
      BY <1>2 DEF AsNew
    <2>2. PICK u \in U : SlotBy(style, u) = SlotBy(style, v) /\ SfTime[v] <= SfTime[u]
      BY <1>2 DEF AsNew
    <2>3. SfTime[u] \in Int /\ SfTime[v] \in Int /\ SfTime[w] \in Int
      BY TimesAreNumbers
    <2> QED
      BY <2>1, <2>2, <2>3
  <1> QED
    BY <1>1, <1>2 DEF AsNew

\* Replacing keeps the store as new as it was, and as what is offered to it.
LEMMA ReplacedIsAsNew ==
  ASSUME NEW S \in SUBSET Versions, NEW new \in SUBSET Versions, OneEach(sfStyle, new)
  PROVE  /\ ReplacedAll(S, new) \in SUBSET Versions
         /\ AsNew(sfStyle, ReplacedAll(S, new), S) /\ AsNew(sfStyle, ReplacedAll(S, new), new)
  <1> DEFINE R == ReplacedAll(S, new)
  <1>1. \A e : SfSlot(e) = SlotBy(sfStyle, e)
    BY DEF SfSlot, SlotBy
  <1>2. R = {f \in S : \A e \in new : SlotBy(sfStyle, f) = SlotBy(sfStyle, e) => ~IsNewer(e, f)}
            \cup {e \in new : \A f \in S : SlotBy(sfStyle, f) = SlotBy(sfStyle, e) => IsNewer(e, f)}
    BY <1>1 DEF ReplacedAll
  <1>3. \A e, f \in Versions : /\ IsNewer(e, f) => SfTime[f] <= SfTime[e]
                               /\ ~IsNewer(e, f) => SfTime[e] <= SfTime[f]
    BY TimesAreNumbers DEF IsNewer
  <1> HIDE DEF R
  <1>4. ASSUME NEW e \in new
        PROVE  \E r \in R : SlotBy(sfStyle, r) = SlotBy(sfStyle, e) /\ SfTime[e] <= SfTime[r]
    <2>1. CASE \A f \in S : SlotBy(sfStyle, f) = SlotBy(sfStyle, e) => IsNewer(e, f)
      BY <1>2, <2>1, TimesAreNumbers
    <2>2. CASE \E f \in S : SlotBy(sfStyle, f) = SlotBy(sfStyle, e) /\ ~IsNewer(e, f)
      <3>1. PICK f \in S : SlotBy(sfStyle, f) = SlotBy(sfStyle, e) /\ ~IsNewer(e, f)
        BY <2>2
      <3>2. f \in R
        BY <1>2, <3>1 DEF OneEach
      <3> QED
        BY <1>3, <3>1, <3>2
    <2> QED
      BY <2>1, <2>2
  <1>5. ASSUME NEW f \in S
        PROVE  \E r \in R : SlotBy(sfStyle, r) = SlotBy(sfStyle, f) /\ SfTime[f] <= SfTime[r]
    <2>1. CASE f \in R
      BY <2>1, TimesAreNumbers
    <2>2. CASE f \notin R
      <3>1. PICK e \in new : SlotBy(sfStyle, f) = SlotBy(sfStyle, e) /\ IsNewer(e, f)
        BY <1>2, <2>2
      <3>2. PICK r \in R : SlotBy(sfStyle, r) = SlotBy(sfStyle, e) /\ SfTime[e] <= SfTime[r]
        BY <1>4
      <3>3. r \in Versions /\ SfTime[f] <= SfTime[e]
        BY <1>2, <1>3, <3>1
      <3>4. SfTime[f] \in Int /\ SfTime[e] \in Int /\ SfTime[r] \in Int
        BY <3>3, TimesAreNumbers
      <3> QED
        BY <3>1, <3>2, <3>3, <3>4
    <2> QED
      BY <2>1, <2>2
  <1>6. R \in SUBSET Versions
    BY <1>2
  <1> QED
    BY <1>4, <1>5, <1>6 DEF AsNew, R

\* Saving adds to the store what a call has found.
LEMMA SavedIsAsNew ==
  ASSUME NEW S \in SUBSET Versions, NEW new \in SUBSET Versions
  PROVE  S \cup new \in SUBSET Versions /\ AsNew(sfStyle, S \cup new, S)
  BY AsNewIsOrder DEF AsNew

\* A store that grows newer breaks nothing that a call knows, nor the cache.
LEMMA NewerStore ==
  ASSUME NEW style, NEW S \in SUBSET Versions, NEW T \in SUBSET Versions,
         NEW L \in SUBSET Versions, NEW M \in SUBSET Versions, AsNew(style, T, S), AsNew(style, T, L \ M)
  PROVE  /\ \A call \in FetchCall : CallOk(style, S, L, call) => CallOk(style, T, M, call)
         /\ \A cache, buffer : CacheOk(style, S, L, cache, buffer) => CacheOk(style, T, M, cache, buffer)
  <1>1. ASSUME NEW V \in SUBSET Versions, AsNew(style, S, V \ L) PROVE AsNew(style, T, V \ M)
    <2>1. V \ L \in SUBSET Versions
      OBVIOUS
    <2>2. AsNew(style, T, V \ L)
      BY <1>1, <2>1, AsNewIsOrder
    <2> QED
      BY <2>2 DEF AsNew
  <1>2. ASSUME NEW call \in FetchCall, CallOk(style, S, L, call) PROVE CallOk(style, T, M, call)
    <2>1. call.v \in SUBSET Versions /\ call.new \in SUBSET Versions
      BY DEF FetchCall
    <2> QED
      BY <1>1, <1>2, <2>1 DEF CallOk
  <1>3. ASSUME NEW cache, NEW buffer, CacheOk(style, S, L, cache, buffer) PROVE CacheOk(style, T, M, cache, buffer)
    <2>1. \A V : Kept(style, S, L, V) => Kept(style, T, M, V)
      BY <1>1 DEF Kept
    <2> QED
      BY <1>3, <2>1 DEF CacheOk
  <1> QED
    BY <1>2, <1>3

LEMMA StoreGrowsIs ==
  ASSUME FetchInv, StoreGrows
  PROVE  /\ \A call \in FetchCall : CallOk(sfStyle, sfStore, sfLost, call) => CallOk(sfStyle, sfStore', sfLost', call)
         /\ CacheOk(sfStyle, sfStore', sfLost', sfCache, sfBuffer)
  BY NewerStore DEF FetchInv, StoreGrows

\* Writes that may fail: the store grows, and has or has lost what was written.
LEMMA WritesGrow ==
  ASSUME FetchInv, NEW new \in SUBSET Versions, OneEach(sfStyle, new), StoreReplaces(new) \/ StoreSaves(new)
  PROVE  StoreGrows /\ AsNew(sfStyle, sfStore', new \ sfLost')
  <1>1. sfStore \in SUBSET Versions /\ sfLost \in SUBSET Versions
    BY DEF FetchInv
  <1>2. PICK written \in SUBSET new : sfStore' = ReplacedAll(sfStore, written) \/ sfStore' = sfStore \cup written
    BY DEF StoreReplaces, StoreSaves
  <1>3. written \in SUBSET Versions /\ OneEach(sfStyle, written)
    BY DEF OneEach
  <1>4. sfStore' \in SUBSET Versions /\ AsNew(sfStyle, sfStore', sfStore)
    BY <1>1, <1>2, <1>3, ReplacedIsAsNew, SavedIsAsNew
  <1>5. sfLost' = {e \in sfLost \cup new : ~Covers(sfStore', {e})}
    BY DEF StoreReplaces, StoreSaves, StoreLoses
  <1>6. ASSUME NEW f \in (sfLost \cup new) \ sfLost'
        PROVE  \E e \in sfStore' : SlotBy(sfStyle, e) = SlotBy(sfStyle, f) /\ SfTime[f] <= SfTime[e]
    BY <1>5 DEF Covers, SfSlot, SlotBy
  <1>7. AsNew(sfStyle, sfStore', sfLost \ sfLost') /\ AsNew(sfStyle, sfStore', new \ sfLost')
    BY <1>6 DEF AsNew
  <1> QED
    BY <1>1, <1>4, <1>5, <1>7 DEF StoreGrows

LEMMA NothingGrows ==
  ASSUME FetchInv, UNCHANGED <<sfStore, sfLost>>
  PROVE  StoreGrows
  <1>1. AsNew(sfStyle, sfStore, sfStore) /\ sfLost \ sfLost = {}
    BY AsNewIsOrder DEF FetchInv
  <1> QED
    BY <1>1 DEF FetchInv, StoreGrows, AsNew

\* A step of one call.
LEMMA FetchStepIs ==
  ASSUME FetchInv, NEW c \in SfCalls, sfStyle' = sfStyle, StoreGrows, NEW call \in FetchCall, sfCall' = [sfCall EXCEPT ![c] = call],
         CallOk(sfStyle, sfStore', sfLost', call), CacheOk(sfStyle, sfStore', sfLost', sfCache', sfBuffer')
  PROVE  FetchInv'
  <1>1. sfCall' \in [SfCalls -> FetchCall] /\ sfCall'[c] = call /\ \A d \in SfCalls \ {c} : sfCall'[d] = sfCall[d]
    BY DEF FetchInv
  <1>2. ASSUME NEW d \in SfCalls \ {c} PROVE CallOk(sfStyle, sfStore', sfLost', sfCall'[d])
    <2>1. sfCall[d] \in FetchCall /\ CallOk(sfStyle, sfStore, sfLost, sfCall[d])
      BY DEF FetchInv
    <2>2. CallOk(sfStyle, sfStore', sfLost', sfCall[d])
      BY <2>1, StoreGrowsIs
    <2> QED
      BY <1>1, <2>2
  <1>3. \A d \in SfCalls : CallOk(sfStyle, sfStore', sfLost', sfCall'[d])
    BY <1>1, <1>2
  <1> QED
    BY <1>1, <1>3 DEF FetchInv, StoreGrows

\* A call that goes on, while the store stays.
LEMMA FetchGoesOn ==
  ASSUME FetchInv, NEW c \in SfCalls, sfStyle' = sfStyle, UNCHANGED <<sfStore, sfLost>>,
         NEW call \in FetchCall, sfCall' = [sfCall EXCEPT ![c] = call],
         CallOk(sfStyle, sfStore, sfLost, call), CacheOk(sfStyle, sfStore, sfLost, sfCache', sfBuffer')
  PROVE  FetchInv'
  <1>1. StoreGrows
    BY NothingGrows
  <1>2. CallOk(sfStyle, sfStore', sfLost', call) /\ CacheOk(sfStyle, sfStore', sfLost', sfCache', sfBuffer')
    OBVIOUS
  <1> QED
    BY <1>1, <1>2, FetchStepIs

LEMMA NoVersions ==
  ASSUME NEW style, NEW V
  PROVE  AsNew(style, V, {}) /\ OneEach(style, {}) /\ {} \in SUBSET Versions
  BY DEF AsNew, OneEach

\* The mutex, the cache and the store are looked at.
LEMMA LooksKeepInv ==
  ASSUME FetchInv, NEW c \in SfCalls,
         FetchEnter(c) \/ FetchWakes(c) \/ LookInCache(c) \/ QueryStore(c) \/ CheckLastFetch(c)
  PROVE  FetchInv'
  <1>1. PICK old : old = sfCall[c]
    OBVIOUS
  <1>2. /\ old \in FetchCall /\ CallOk(sfStyle, sfStore, sfLost, old) /\ sfStore \in SUBSET Versions
        /\ sfCall \in [SfCalls -> FetchCall]
    BY <1>1 DEF FetchInv
  <1>3. UNCHANGED <<sfStyle, sfStore, sfLost, sfCache, sfBuffer>> /\ CacheOk(sfStyle, sfStore, sfLost, sfCache', sfBuffer')
    <2>1. UNCHANGED <<sfStyle, sfStore, sfLost, sfCache, sfBuffer>>
      BY Zenon DEF FetchEnter, FetchWakes, LookInCache, QueryStore, CheckLastFetch
    <2> QED
      BY <2>1 DEF FetchInv
  <1>4. ASSUME NEW pc \in FetchPlaces, SfGoto(c, pc)
        PROVE  /\ [old EXCEPT !.pc = pc] \in FetchCall /\ sfCall' = [sfCall EXCEPT ![c] = [old EXCEPT !.pc = pc]]
               /\ [old EXCEPT !.pc = pc].v = old.v /\ [old EXCEPT !.pc = pc].new = old.new
               /\ [old EXCEPT !.pc = pc].found = old.found /\ [old EXCEPT !.pc = pc].pc = pc
    BY <1>1, <1>2, <1>4 DEF SfGoto, FetchCall
  <1>5. CASE FetchEnter(c) \/ FetchWakes(c)
    <2>1. PICK pc \in {"look", "sleep"} : SfGoto(c, pc)
      BY <1>5 DEF FetchEnter, FetchWakes
    <2>2. old.pc \in {"out", "sleep"}
      BY <1>1, <1>5 DEF FetchEnter, FetchWakes, SfAt
    <2>3. pc \in FetchPlaces
      BY DEF FetchPlaces
    <2>4. PICK call : call = [old EXCEPT !.pc = pc]
      OBVIOUS
    <2>5. /\ call \in FetchCall /\ sfCall' = [sfCall EXCEPT ![c] = call] /\ call.v = old.v /\ call.new = old.new
          /\ call.found = old.found /\ call.pc \in {"look", "sleep"}
      BY <1>4, <2>1, <2>3, <2>4
    <2>6. CallOk(sfStyle, sfStore, sfLost, call)
      BY <1>2, <2>2, <2>5 DEF CallOk
    <2> QED
      BY <1>3, <2>5, <2>6, FetchGoesOn
  <1>6. CASE LookInCache(c)
    <2>1. old.pc = "look"
      BY <1>1, <1>6 DEF LookInCache, SfAt
    <2>2. CASE sfCache = {}
      <3>1. PICK call : call = [old EXCEPT !.pc = "query"]
        OBVIOUS
      <3>2. SfGoto(c, "query") /\ "query" \in FetchPlaces
        BY <1>6, <2>2 DEF LookInCache, SfGoto, FetchPlaces
      <3>3. /\ call \in FetchCall /\ sfCall' = [sfCall EXCEPT ![c] = call] /\ call.v = old.v /\ call.new = old.new
            /\ call.found = old.found /\ call.pc = "query"
        BY <1>4, <3>1, <3>2
      <3>4. CallOk(sfStyle, sfStore, sfLost, call)
        BY <1>2, <2>1, <3>3 DEF CallOk
      <3> QED
        BY <1>3, <3>3, <3>4, FetchGoesOn
    <2>3. CASE sfCache # {}
      <3>1. PICK V : V = UNION sfCache
        OBVIOUS
      <3>2. V \in SUBSET Versions /\ AsNew(sfStyle, sfStore, V \ sfLost)
        BY <3>1 DEF FetchInv, CacheOk, Kept, AsNew
      <3>3. PICK call : call = [old EXCEPT !.pc = "cached", !.v = V, !.internal = TRUE]
        OBVIOUS
      <3>4. sfCall' = [sfCall EXCEPT ![c] = call]
        BY <1>1, <1>2, <1>6, <2>3, <3>1, <3>3 DEF LookInCache
      <3>5. call \in FetchCall /\ call.v = V /\ call.new = old.new /\ call.pc = "cached"
        BY <1>2, <3>2, <3>3 DEF FetchCall, FetchPlaces
      <3>6. CallOk(sfStyle, sfStore, sfLost, call)
        BY <1>2, <3>2, <3>5 DEF CallOk
      <3> QED
        BY <1>3, <3>4, <3>5, <3>6, FetchGoesOn
    <2> QED
      BY <2>2, <2>3
  <1>7. CASE QueryStore(c)
    <2> DEFINE Finds == IF sfStyle = "sets" \/ sfStore = {} THEN {sfStore} ELSE {{e} : e \in Newest}
    <2>0. ASSUME NEW found \in Finds
          PROVE  found \in SUBSET sfStore /\ (found = {} \/ (sfStyle # "sets" => \E f \in Versions : found = {f}))
      BY <1>2, <2>0 DEF Newest
    <2>1. PICK found \in Finds :
              sfCall' = [sfCall EXCEPT ![c].v = found, ![c].found = found, ![c].internal = found # {},
                                       ![c].pc = IF found = {} THEN "fetch" ELSE "check"]
      BY <1>7, Zenon DEF QueryStore
    <2> HIDE DEF Finds
    <2>2. /\ found \in SUBSET sfStore
          /\ found = {} \/ (sfStyle # "sets" => \E f \in Versions : found = {f})
      BY <2>0
    <2>3. PICK pc : pc = IF found = {} THEN "fetch" ELSE "check"
      OBVIOUS
    <2>4. PICK internal \in BOOLEAN : internal = (found # {})
      OBVIOUS
    <2>5. PICK call : call = [old EXCEPT !.v = found, !.found = found, !.internal = internal, !.pc = pc]
      OBVIOUS
    <2>6. sfCall' = [sfCall EXCEPT ![c] = call]
      <3>1. sfCall' = [sfCall EXCEPT ![c].v = found, ![c].found = found, ![c].internal = internal, ![c].pc = pc]
        BY <2>1, <2>3, <2>4, Zenon
      <3> QED
        BY <1>1, <1>2, <2>5, <3>1
    <2>7. pc \in FetchPlaces /\ found \in SUBSET Versions
      BY <1>2, <2>2, <2>3 DEF FetchPlaces
    <2>8. call \in FetchCall /\ call.v = found /\ call.found = found /\ call.new = old.new /\ call.pc = pc
      BY <1>2, <2>5, <2>7 DEF FetchCall
    <2>9. AsNew(sfStyle, sfStore, found \ sfLost)
      BY <1>2, <2>2, TimesAreNumbers DEF AsNew
    <2>10. old.new = {}
      <3>1. old.pc = "query"
        BY <1>1, <1>7, Zenon DEF QueryStore, SfAt
      <3> QED
        BY <1>2, <3>1 DEF CallOk
    <2>11. CallOk(sfStyle, sfStore, sfLost, call)
      BY <2>2, <2>3, <2>8, <2>9, <2>10, NoVersions DEF CallOk
    <2> QED
      BY <1>3, <2>6, <2>8, <2>11, FetchGoesOn
  <1>8. CASE CheckLastFetch(c)
    <2>1. PICK pc \in {"cache", "refresh"} : SfGoto(c, pc)
      BY <1>8 DEF CheckLastFetch
    <2>2. old.pc = "check"
      BY <1>1, <1>8 DEF CheckLastFetch, SfAt
    <2>3. pc \in FetchPlaces
      BY DEF FetchPlaces
    <2>4. PICK call : call = [old EXCEPT !.pc = pc]
      OBVIOUS
    <2>5. /\ call \in FetchCall /\ sfCall' = [sfCall EXCEPT ![c] = call] /\ call.v = old.v /\ call.new = old.new
          /\ call.found = old.found /\ call.pc \in {"cache", "refresh"}
      BY <1>4, <2>1, <2>3, <2>4
    <2>6. old.v \in SUBSET Versions /\ old.v = old.found /\ old.new = {}
      BY <1>2, <2>2 DEF CallOk, FetchCall
    <2>7. AsNew(sfStyle, old.v, old.found) /\ AsNew(sfStyle, old.v, {})
      BY <2>6, AsNewIsOrder, NoVersions
    <2>8. CallOk(sfStyle, sfStore, sfLost, call)
      BY <1>2, <2>2, <2>5, <2>6, <2>7 DEF CallOk
    <2> QED
      BY <1>3, <2>5, <2>8, FetchGoesOn
  <1> QED
    BY <1>5, <1>6, <1>7, <1>8

\* A Load returns one version for each slot.
LEMMA LoadedIs ==
  ASSUME NEW new \in Loaded
  PROVE  /\ new \in SUBSET Versions /\ OneEach(sfStyle, new)
         /\ sfStyle # "sets" => new = {} \/ \E e \in Versions : new = {e}
  BY DEF Loaded, OneEach, SlotBy, Versions

\* What the network gave is replaced in the store, and a profile is cached at once.
LEMMA TryFetchKeepsInv ==
  ASSUME FetchInv, NEW c \in SfCalls, TryFetch(c)
  PROVE  FetchInv'
  <1>1. PICK old : old = sfCall[c]
    OBVIOUS
  <1>2. /\ old \in FetchCall /\ CallOk(sfStyle, sfStore, sfLost, old) /\ sfStore \in SUBSET Versions
        /\ sfCall \in [SfCalls -> FetchCall] /\ CacheOk(sfStyle, sfStore, sfLost, sfCache, sfBuffer)
    BY <1>1 DEF FetchInv
  <1>3. PICK new \in Loaded :
          /\ sfCall' = [sfCall EXCEPT ![c].new = new, ![c].pc = IF SfAt(c, "fetch") THEN "fetched" ELSE "refreshed"]
          /\ StoreReplaces(new)
          /\ sfBuffer' = IF sfStyle = "profile" /\ new # {} THEN Append(sfBuffer, new) ELSE sfBuffer
    BY DEF TryFetch
  <1>4. /\ old.pc \in {"fetch", "refresh"} /\ UNCHANGED <<sfStyle, sfCache>>
    BY <1>1 DEF TryFetch
  <1>5. /\ new \in SUBSET Versions /\ OneEach(sfStyle, new)
        /\ sfStyle # "sets" => new = {} \/ \E e \in Versions : new = {e}
    BY LoadedIs
  <1>6. StoreGrows /\ AsNew(sfStyle, sfStore', new \ sfLost')
    BY <1>3, <1>5, WritesGrow
  <1>7. PICK pc : pc = IF old.pc = "fetch" THEN "fetched" ELSE "refreshed"
    OBVIOUS
  <1>8. PICK call : call = [old EXCEPT !.new = new, !.pc = pc]
    OBVIOUS
  <1>9. sfCall' = [sfCall EXCEPT ![c] = call]
    BY <1>1, <1>2, <1>3, <1>7, <1>8 DEF SfAt
  <1>10. /\ call \in FetchCall /\ call.v = old.v /\ call.new = new /\ call.found = old.found /\ call.pc = pc
    BY <1>2, <1>5, <1>7, <1>8 DEF FetchCall, FetchPlaces
  <1>11. CallOk(sfStyle, sfStore', sfLost', old)
    BY <1>2, <1>6, StoreGrowsIs
  <1>12. CallOk(sfStyle, sfStore', sfLost', call)
    BY <1>4, <1>5, <1>6, <1>7, <1>10, <1>11 DEF CallOk
  <1>13. CacheOk(sfStyle, sfStore', sfLost', sfCache, sfBuffer)
    BY <1>6, StoreGrowsIs
  <1>14. CacheOk(sfStyle, sfStore', sfLost', sfCache', sfBuffer')
    <2>1. CASE sfBuffer' = sfBuffer
      BY <1>4, <1>13, <2>1
    <2>2. CASE sfBuffer' = Append(sfBuffer, new)
      <3>1. sfBuffer \in Seq(SUBSET Versions) /\ Kept(sfStyle, sfStore', sfLost', new)
        BY <1>5, <1>6, <1>13 DEF CacheOk, Kept
      <3>2. /\ Append(sfBuffer, new) \in Seq(SUBSET Versions)
            /\ \A i \in 1..Len(Append(sfBuffer, new)) :
                  (i \in 1..Len(sfBuffer) /\ Append(sfBuffer, new)[i] = sfBuffer[i]) \/ Append(sfBuffer, new)[i] = new
        BY <1>5, <3>1
      <3> QED
        BY <1>4, <1>13, <2>2, <3>1, <3>2 DEF CacheOk
    <2> QED
      BY <1>3, <2>1, <2>2
  <1> QED
    BY <1>4, <1>6, <1>9, <1>10, <1>12, <1>14, FetchStepIs

\* After a refresh: a list or a profile becomes the newer one, sets what came.
LEMMA RefreshedKeepsInv ==
  ASSUME FetchInv, NEW c \in SfCalls, RefreshedList(c) \/ RefreshedSets(c)
  PROVE  FetchInv'
  <1>1. PICK old : old = sfCall[c]
    OBVIOUS
  <1>2. /\ old \in FetchCall /\ CallOk(sfStyle, sfStore, sfLost, old) /\ sfStore \in SUBSET Versions
        /\ sfCall \in [SfCalls -> FetchCall] /\ CacheOk(sfStyle, sfStore, sfLost, sfCache, sfBuffer)
    BY <1>1 DEF FetchInv
  <1>3. old.pc = "refreshed" /\ UNCHANGED <<sfStyle, sfCache, sfBuffer>>
    BY <1>1 DEF RefreshedList, RefreshedSets, SfAt
  <1>4. /\ old.v \in SUBSET Versions /\ old.new \in SUBSET Versions /\ old.found = old.v
        /\ OneEach(sfStyle, old.new)
    BY <1>2, <1>3 DEF CallOk, FetchCall
  <1>5. StoreGrows
    <2>1. PICK new \in {{}, old.new} : StoreReplaces(new)
      BY <1>1 DEF RefreshedList, RefreshedSets
    <2> QED
      BY <1>4, <2>1, WritesGrow, NoVersions
  <1>6. CallOk(sfStyle, sfStore', sfLost', old) /\ CacheOk(sfStyle, sfStore', sfLost', sfCache', sfBuffer')
    <2>1. CallOk(sfStyle, sfStore', sfLost', old) /\ CacheOk(sfStyle, sfStore', sfLost', sfCache, sfBuffer)
      BY <1>2, <1>5, StoreGrowsIs
    <2> QED
      BY <1>3, <2>1
  <1>7. AsNew(sfStyle, old.v, old.v) /\ AsNew(sfStyle, old.new, old.new)
    BY <1>4, AsNewIsOrder
  <1>8. ASSUME NEW V \in {old.v, old.new}, NEW pc \in {"mark", "panic"},
               sfCall' = [sfCall EXCEPT ![c] = [old EXCEPT !.v = V, !.pc = pc]],
               pc = "mark" => AsNew(sfStyle, V, old.new) /\ (sfStyle # "sets" => AsNew(sfStyle, V, old.found))
        PROVE  FetchInv'
    <2>1. PICK call : call = [old EXCEPT !.v = V, !.pc = pc]
      OBVIOUS
    <2>2. /\ call \in FetchCall /\ call.v = V /\ call.new = old.new /\ call.found = old.found /\ call.pc = pc
      BY <1>2, <1>4, <2>1 DEF FetchCall, FetchPlaces
    <2>3. AsNew(sfStyle, sfStore', V \ sfLost')
      BY <1>6 DEF CallOk
    <2>4. CallOk(sfStyle, sfStore', sfLost', call)
      BY <1>6, <1>8, <2>2, <2>3 DEF CallOk
    <2>5. sfCall' = [sfCall EXCEPT ![c] = call]
      BY <1>8, <2>1
    <2> QED
      BY <1>3, <1>5, <1>6, <2>2, <2>4, <2>5, FetchStepIs
  <1>9. CASE RefreshedList(c)
    <2>1. PICK better \in BOOLEAN : better = (old.new # {} /\ NewerThan(old.new, old.v))
      OBVIOUS
    <2>2. PICK V : V = IF better THEN old.new ELSE old.v
      OBVIOUS
    <2>3. sfStyle # "sets" /\ sfCall' = [sfCall EXCEPT ![c].v = V, ![c].pc = "mark"]
      BY <1>1, <1>2, <1>9, <2>1, <2>2 DEF RefreshedList
    <2>4. sfCall' = [sfCall EXCEPT ![c] = [old EXCEPT !.v = V, !.pc = "mark"]]
      BY <1>1, <1>2, <2>3
    <2>5. PICK f \in Versions : old.v = {f}
      BY <1>2, <1>3, <2>3 DEF CallOk
    <2>6. old.new = {} \/ \E e \in Versions : old.new = {e}
      BY <1>2, <1>3, <2>3 DEF CallOk
    <2>7. AsNew(sfStyle, V, old.new) /\ AsNew(sfStyle, V, old.v)
      <3>1. CASE old.new = {}
        BY <1>7, <2>1, <2>2, <3>1, NoVersions
      <3>2. CASE old.new # {}
        <4>1. PICK e \in Versions : old.new = {e}
          BY <2>6, <3>2
        <4>2. SlotBy(sfStyle, e) = SlotBy(sfStyle, f)
          BY <2>3 DEF SlotBy
        <4>3. better <=> SfTime[e] > SfTime[f]
          BY <2>1, <2>5, <4>1 DEF NewerThan
        <4>4. SfTime[e] \in Int /\ SfTime[f] \in Int
          BY TimesAreNumbers
        <4>5. CASE better
          <5>1. V = {e} /\ SfTime[f] <= SfTime[e]
            BY <2>2, <4>1, <4>3, <4>4, <4>5
          <5> QED
            BY <1>7, <2>5, <4>1, <4>2, <5>1 DEF AsNew
        <4>6. CASE ~better
          <5>1. V = {f} /\ SfTime[e] <= SfTime[f]
            BY <2>2, <2>5, <4>3, <4>4, <4>6
          <5> QED
            BY <1>7, <2>5, <4>1, <4>2, <5>1 DEF AsNew
        <4> QED
          BY <4>5, <4>6
      <3> QED
        BY <3>1, <3>2
    <2> QED
      BY <1>4, <1>8, <2>2, <2>4, <2>7
  <1>10. CASE RefreshedSets(c)
    <2>1. sfStyle = "sets"
      BY <1>10 DEF RefreshedSets
    <2>2. CASE old.new = {}
      <3>1. sfCall' = [sfCall EXCEPT ![c].pc = "panic"]
        BY <1>1, <1>10, <2>2 DEF RefreshedSets
      <3>2. sfCall' = [sfCall EXCEPT ![c] = [old EXCEPT !.v = old.v, !.pc = "panic"]]
        <4>1. [old EXCEPT !.v = old.v, !.pc = "panic"] = [old EXCEPT !.pc = "panic"]
          BY <1>2 DEF FetchCall
        <4> QED
          BY <1>1, <1>2, <3>1, <4>1
      <3> QED
        BY <1>8, <3>2
    <2>3. CASE old.new # {}
      <3>1. sfCall' = [sfCall EXCEPT ![c].v = old.new, ![c].pc = "mark"]
        BY <1>1, <1>10, <2>3 DEF RefreshedSets
      <3>2. sfCall' = [sfCall EXCEPT ![c] = [old EXCEPT !.v = old.new, !.pc = "mark"]]
        BY <1>1, <1>2, <3>1
      <3> QED
        BY <1>7, <1>8, <2>1, <3>2
    <2> QED
      BY <2>2, <2>3
  <1> QED
    BY <1>9, <1>10

\* Nothing was stored, so what the network gave is the value.
LEMMA FetchedNewKeepsInv ==
  ASSUME FetchInv, NEW c \in SfCalls, FetchedNew(c)
  PROVE  FetchInv'
  <1>1. PICK old : old = sfCall[c]
    OBVIOUS
  <1>2. /\ old \in FetchCall /\ CallOk(sfStyle, sfStore, sfLost, old) /\ sfStore \in SUBSET Versions
        /\ sfCall \in [SfCalls -> FetchCall] /\ CacheOk(sfStyle, sfStore, sfLost, sfCache, sfBuffer)
        /\ sfStyle \in {"list", "sets", "profile"}
    BY <1>1 DEF FetchInv
  <1>3. old.pc = "fetched" /\ UNCHANGED <<sfStyle, sfCache, sfBuffer>>
    BY <1>1 DEF FetchedNew, SfAt
  <1>4. /\ old.new \in SUBSET Versions /\ old.found = {} /\ OneEach(sfStyle, old.new)
    BY <1>2, <1>3 DEF CallOk, FetchCall
  <1>5. StoreGrows
    <2>1. UNCHANGED <<sfStore, sfLost>> \/ StoreSaves(old.new) \/ StoreReplaces(old.new)
      BY <1>1, <1>2 DEF FetchedNew
    <2> QED
      BY <1>4, <2>1, WritesGrow, NothingGrows
  <1>6. CallOk(sfStyle, sfStore', sfLost', old) /\ CacheOk(sfStyle, sfStore', sfLost', sfCache', sfBuffer')
    <2>1. CallOk(sfStyle, sfStore', sfLost', old) /\ CacheOk(sfStyle, sfStore', sfLost', sfCache, sfBuffer)
      BY <1>2, <1>5, StoreGrowsIs
    <2> QED
      BY <1>3, <2>1
  <1>7. PICK pc : pc = CASE old.new = {} -> "cache" [] old.new # {} /\ sfStyle = "list" -> "save" [] OTHER -> "mark"
    OBVIOUS
  <1>8. PICK call : call = [old EXCEPT !.v = old.new, !.pc = pc]
    OBVIOUS
  <1>9. sfCall' = [sfCall EXCEPT ![c] = call]
    <2>1. sfCall' = [sfCall EXCEPT ![c].v = old.new, ![c].pc = pc]
      BY <1>1, <1>7 DEF FetchedNew
    <2> QED
      BY <1>1, <1>2, <1>8, <2>1
  <1>10. pc \in {"cache", "save", "mark"}
    BY <1>7
  <1>11. /\ call \in FetchCall /\ call.v = old.new /\ call.new = old.new /\ call.found = {}
         /\ call.pc \in {"cache", "save", "mark"}
    BY <1>2, <1>4, <1>8, <1>10 DEF FetchCall, FetchPlaces
  <1>12. AsNew(sfStyle, old.new, old.new) /\ AsNew(sfStyle, old.new, {})
    BY <1>4, AsNewIsOrder, NoVersions
  <1>13. CallOk(sfStyle, sfStore', sfLost', call)
    BY <1>6, <1>11, <1>12 DEF CallOk
  <1> QED
    BY <1>3, <1>5, <1>6, <1>9, <1>11, <1>13, FetchStepIs

\* The last steps: the date is noted, a list is saved, the value is cached.
LEMMA EndsKeepInv ==
  ASSUME FetchInv, NEW c \in SfCalls, MarkFetched(c) \/ SaveNewList(c) \/ SaveToCache(c)
  PROVE  FetchInv'
  <1>1. PICK old : old = sfCall[c]
    OBVIOUS
  <1>2. /\ old \in FetchCall /\ CallOk(sfStyle, sfStore, sfLost, old) /\ sfStore \in SUBSET Versions
        /\ sfCall \in [SfCalls -> FetchCall] /\ CacheOk(sfStyle, sfStore, sfLost, sfCache, sfBuffer)
    BY <1>1 DEF FetchInv
  <1>3. PICK pc \in {"cache", "back"} : SfGoto(c, pc)
    BY DEF MarkFetched, SaveNewList, SaveToCache
  <1>4. PICK call : call = [old EXCEPT !.pc = pc]
    OBVIOUS
  <1>5. sfCall' = [sfCall EXCEPT ![c] = call]
    BY <1>1, <1>2, <1>3, <1>4 DEF SfGoto
  <1>6. /\ call \in FetchCall /\ call.v = old.v /\ call.new = old.new /\ call.found = old.found
        /\ call.pc \in {"cache", "back"}
    BY <1>2, <1>4 DEF FetchCall, FetchPlaces
  <1>7. old.pc \in {"mark", "save", "cache"} /\ UNCHANGED <<sfStyle, sfCache>>
    BY <1>1 DEF MarkFetched, SaveNewList, SaveToCache, SfAt
  <1>8. old.v \in SUBSET Versions /\ old.new \in SUBSET Versions
    BY <1>2 DEF FetchCall
  <1>9. StoreGrows
    <2>1. UNCHANGED <<sfStore, sfLost>> \/ StoreSaves(old.new)
      BY <1>1 DEF MarkFetched, SaveNewList, SaveToCache
    <2>2. OneEach(sfStyle, old.new)
      BY <1>2 DEF CallOk
    <2> QED
      BY <1>8, <2>1, <2>2, WritesGrow, NothingGrows
  <1>10. CallOk(sfStyle, sfStore', sfLost', old) /\ CacheOk(sfStyle, sfStore', sfLost', sfCache, sfBuffer)
    BY <1>2, <1>9, StoreGrowsIs
  <1>11. CallOk(sfStyle, sfStore', sfLost', call)
    BY <1>6, <1>7, <1>10 DEF CallOk
  <1>12. CacheOk(sfStyle, sfStore', sfLost', sfCache', sfBuffer')
    <2>1. CASE sfBuffer' = sfBuffer
      BY <1>7, <1>10, <2>1
    <2>2. CASE sfBuffer' = Append(sfBuffer, old.v)
      <3>1. sfBuffer \in Seq(SUBSET Versions) /\ Kept(sfStyle, sfStore', sfLost', old.v)
        BY <1>8, <1>10 DEF CacheOk, CallOk, Kept
      <3>2. /\ Append(sfBuffer, old.v) \in Seq(SUBSET Versions)
            /\ \A i \in 1..Len(Append(sfBuffer, old.v)) :
                  (i \in 1..Len(sfBuffer) /\ Append(sfBuffer, old.v)[i] = sfBuffer[i]) \/ Append(sfBuffer, old.v)[i] = old.v
        BY <1>8, <3>1
      <3> QED
        BY <1>7, <1>10, <2>2, <3>1, <3>2 DEF CacheOk
    <2> QED
      BY <1>1, <2>1, <2>2 DEF MarkFetched, SaveNewList, SaveToCache
  <1> QED
    BY <1>5, <1>6, <1>7, <1>9, <1>11, <1>12, FetchStepIs

\* The cache commits, drops and forgets as it likes.
LEMMA CacheKeepsInv ==
  ASSUME FetchInv, CacheCommits \/ CacheForgets
  PROVE  FetchInv'
  <1>1. UNCHANGED <<sfStyle, sfStore, sfLost, sfCall>> /\ CacheOk(sfStyle, sfStore, sfLost, sfCache, sfBuffer)
    BY DEF CacheCommits, CacheForgets, FetchInv
  <1>2. CacheOk(sfStyle, sfStore, sfLost, sfCache', sfBuffer')
    <2>1. CASE CacheCommits
      <3>1. sfBuffer # <<>> /\ sfBuffer' = Tail(sfBuffer) /\ sfCache' \in {sfCache, {Head(sfBuffer)}}
        BY <2>1 DEF CacheCommits
      <3>2. sfBuffer \in Seq(SUBSET Versions)
        BY <1>1 DEF CacheOk
      <3>3. /\ Tail(sfBuffer) \in Seq(SUBSET Versions) /\ Head(sfBuffer) = sfBuffer[1] /\ 1 \in 1..Len(sfBuffer)
            /\ \A i \in 1..Len(Tail(sfBuffer)) : i + 1 \in 1..Len(sfBuffer) /\ Tail(sfBuffer)[i] = sfBuffer[i + 1]
        BY <3>1, <3>2
      <3> QED
        BY <1>1, <3>1, <3>3 DEF CacheOk
    <2>2. CASE CacheForgets
      BY <1>1, <2>2 DEF CacheForgets, CacheOk
    <2> QED
      BY <2>1, <2>2
  <1> QED
    BY <1>1, <1>2 DEF FetchInv

LEMMA FetchStarts == SdkFetchInit => FetchInv
  <1> SUFFICES ASSUME SdkFetchInit PROVE FetchInv
    OBVIOUS
  <1>1. PICK call : call = [pc |-> "out", v |-> {}, new |-> {}, internal |-> FALSE, found |-> {}]
    OBVIOUS
  <1>2. /\ call \in FetchCall /\ call.pc = "out" /\ call.v = {} /\ call.new = {} /\ call.found = {}
    BY <1>1 DEF FetchCall, FetchPlaces
  <1>3. sfStyle \in {"list", "sets", "profile"} /\ sfStore \subseteq Versions /\ sfLost = {}
    BY FetchAssumption DEF SdkFetchInit, Versions
  <1>4. sfCall = [c \in SfCalls |-> call]
    BY <1>1 DEF SdkFetchInit
  <1>5. CallOk(sfStyle, sfStore, sfLost, call)
    BY <1>2, NoVersions DEF CallOk
  <1>6. CacheOk(sfStyle, sfStore, sfLost, sfCache, sfBuffer)
    BY DEF SdkFetchInit, CacheOk
  <1> QED
    BY <1>2, <1>3, <1>4, <1>5, <1>6 DEF FetchInv

LEMMA FetchNextKeepsInv == FetchInv /\ [SdkFetchNext]_sfVars => FetchInv'
  <1> SUFFICES ASSUME FetchInv, [SdkFetchNext]_sfVars PROVE FetchInv'
    OBVIOUS
  <1>1. CASE SfTick \/ UNCHANGED sfVars
    BY <1>1 DEF SfTick, sfVars, FetchInv
  <1>2. CASE CacheCommits \/ CacheForgets
    BY <1>2, CacheKeepsInv
  <1>3. ASSUME NEW c \in SfCalls,
               \/ FetchEnter(c) \/ FetchWakes(c) \/ LookInCache(c) \/ QueryStore(c) \/ CheckLastFetch(c)
               \/ TryFetch(c) \/ RefreshedList(c) \/ RefreshedSets(c) \/ MarkFetched(c) \/ FetchedNew(c)
               \/ SaveNewList(c) \/ SaveToCache(c)
        PROVE  FetchInv'
    BY <1>3, LooksKeepInv, TryFetchKeepsInv, RefreshedKeepsInv, FetchedNewKeepsInv, EndsKeepInv
  <1> QED
    BY <1>1, <1>2, <1>3 DEF SdkFetchNext

LEMMA FetchInvIsSafe == FetchInv => FetchKeepsNewest
  <1> SUFFICES ASSUME FetchInv PROVE FetchKeepsNewest
    OBVIOUS
  <1>1. \A V, W : Covers(V, W) <=> AsNew(sfStyle, V, W)
    BY DEF Covers, AsNew, SfSlot, SlotBy
  <1>2. \A c \in SfCalls : CallOk(sfStyle, sfStore, sfLost, sfCall[c])
    BY DEF FetchInv
  <1> QED
    BY <1>1, <1>2 DEF CallOk, FetchKeepsNewest, SfAt

(***************************************************************************)
(* fetchGenericList, fetchGenericSets and FetchProfileMetadata, for any    *)
(* number of calls side by side, versions, relays that are late or old,    *)
(* and a cache that commits late and forgets: what a call returns is not   *)
(* older than what it found in the store and what the network gave it, and *)
(* the store falls behind what was returned or cached by no more than what *)
(* its failed writes have lost.                                            *)
(***************************************************************************)
THEOREM FetchIsNewest == SdkFetchInit /\ [][SdkFetchNext]_sfVars => []FetchKeepsNewest
  <1> QED
    BY FetchStarts, FetchNextKeepsInv, FetchInvIsSafe, PTL

=============================================================================
