-------------------------- MODULE RelayServerProofs --------------------------
(***************************************************************************)
(* The listeners of the relay, for every number of connections, requests,  *)
(* filters and publications.  First ownership: whoever holds clientsMutex, *)
(* every subscription of the dispatcher is owned by one spec of one        *)
(* connection, except the one that is just being added.  Then the          *)
(* refinement: the dispatcher behind the mutex is the sequential one.      *)
(* Then the broadcasts: what a loop of candidates may find in the indexes  *)
(* while they change, so that nobody gets what was not asked for and       *)
(* nobody gets a broadcast twice.  Last the requests: from the query to    *)
(* the listener and from the listener to the broadcast no event is lost.   *)
(***************************************************************************)
EXTENDS RelayServer, TLAPS

\* What RelayTypeOK and DispatcherTypeOK say of the variables ownership is
\* about.
Types == RelayTypeOK /\ serial \in 0..MaxSerial
         /\ DOMAIN subscriptions \subseteq 1..serial
         /\ subscriptions \in [DOMAIN subscriptions -> Subs]

\* A connection is in the map from the upgrade to the end of
\* removeClientAndListeners.
ConnInv ==
    /\ \A c \in Conns : conn[c] = "new" => c \notin DOMAIN clients
    /\ \A c \in Conns : conn[c] \in {"open", "dying"} => c \in DOMAIN clients

\* What the holder of the mutex relies on.
LockInv ==
    /\ lock.op = "free" => lock = Free
    /\ lock.op # "free" => lock.ws \in DOMAIN clients
    /\ lock.op = "add" =>
          /\ lock.req \in Reqs /\ lock.ssid \in DOMAIN subscriptions /\ lock.ssid = serial
          /\ subscriptions[lock.ssid] = lock.sub
          /\ lock.sub.ws = lock.ws /\ lock.sub.id = ReqOf[lock.req].sid
    /\ lock.op \in {"remove", "close"} => lock.doomed \subseteq clients[lock.ws]
    /\ lock.op = "remove" => lock.doomed = clients[lock.ws] /\ conn[lock.ws] = "gone"
    /\ lock.op \in {"remove", "close"} /\ lock.ssid # 0 =>
          lock.ssid \in (1..serial) \ DOMAIN subscriptions /\ lock.sub \in Subs

BeingAdded(s) == lock.op = "add" /\ lock.ssid = s

\* Every subscription but the one being added has a spec.
Owned ==
    \A s \in DOMAIN subscriptions : BeingAdded(s) \/
        /\ subscriptions[s].ws \in DOMAIN clients
        /\ \E spec \in clients[subscriptions[s].ws] :
              spec.ssid = s /\ spec.sid = subscriptions[s].id

\* Every spec has its subscription, and no other spec has it.
Owns ==
    \A c \in DOMAIN clients : \A spec \in clients[c] :
        /\ spec.ssid \in DOMAIN subscriptions /\ ~BeingAdded(spec.ssid)
        /\ subscriptions[spec.ssid].ws = c
        /\ \A other \in clients[c] : other.ssid = spec.ssid => other = spec

OwnershipInv == Types /\ ConnInv /\ LockInv /\ Owned /\ Owns

LEMMA FreeInLocks == Free \in Locks
  BY DEF Free, Locks

\* The steps that leave the dispatcher, the clients, the connections and the
\* mutex alone.
LEMMA OwnershipStutter ==
    ASSUME OwnershipInv, RelayTypeOK', UNCHANGED <<dvars, conn, clients, lock>>
    PROVE  OwnershipInv'
  BY DEF OwnershipInv, Types, ConnInv, LockInv, Owned, Owns, BeingAdded, dvars

\* A REQ goroutine that moves between places that have nothing to do with the
\* mutex keeps the types.
LEMMA ReqMoves ==
    ASSUME RelayTypeOK, UNCHANGED <<conn, clients, lock>>, NEW r \in Reqs,
           req[r].pc # "index",
           NEW q \in [pc : {"filter", "listen", "done", "closed"}, i : Nat \ {0}],
           req' = [req EXCEPT ![r] = q],
           q.pc = "listen" => q.i <= Len(ReqOf[r].filters)
    PROVE  RelayTypeOK'
  BY DEF RelayTypeOK

LEMMA OwnershipConn ==
    ASSUME OwnershipInv, NEW c \in Conns, ConnStep(c)
    PROVE  OwnershipInv'
  <1> USE ConnAssumption, FreeInLocks DEF OwnershipInv, dvars
  <1>1. CASE Connect(c)
    <2>1. lock = Free /\ c \notin DOMAIN clients /\ lock.op = "free"
      BY <1>1 DEF Connect, ConnInv, Free
    <2>2. /\ DOMAIN clients' = DOMAIN clients \cup {c} /\ clients'[c] = {}
          /\ \A d \in DOMAIN clients : clients'[d] = clients[d]
      BY <1>1, <2>1 DEF Connect, Put
    <2>3. Types'
      BY <1>1, <2>2 DEF Connect, Types, RelayTypeOK
    <2>4. ConnInv'
      BY <1>1, <2>1, <2>2 DEF Connect, ConnInv, Types, RelayTypeOK
    <2>5. LockInv'
      BY <1>1, <2>1 DEF Connect, LockInv
    <2>6. Owned'
      BY <1>1, <2>1, <2>2 DEF Connect, Owned, BeingAdded
    <2>7. Owns'
      BY <1>1, <2>1, <2>2 DEF Connect, Owns, BeingAdded
    <2> QED
      BY <2>3, <2>4, <2>5, <2>6, <2>7
  <1>2. CASE Kill(c)
    BY <1>2 DEF Kill, Types, RelayTypeOK, ConnInv, LockInv, Owned, Owns, BeingAdded
  <1>3. CASE RemoveClientStart(c)
    <2>1. lock = Free /\ lock.op = "free" /\ c \in DOMAIN clients
      BY <1>3 DEF RemoveClientStart, ConnInv, Free
    <2>2. /\ lock'.op = "remove" /\ lock'.ws = c /\ lock'.doomed = clients[c]
          /\ lock'.ssid = 0 /\ lock' \in Locks
      BY <1>3, <2>1 DEF RemoveClientStart, Types, RelayTypeOK, Locks, Free
    <2>3. Types'
      BY <1>3, <2>1, <2>2 DEF RemoveClientStart, Types, RelayTypeOK
    <2> QED
      BY <1>3, <2>1, <2>2, <2>3
      DEF RemoveClientStart, ConnInv, LockInv, Owned, Owns, BeingAdded, Types, RelayTypeOK
  <1>4. ASSUME NEW sid \in SubIds, CloseStart(c, sid)
        PROVE  OwnershipInv'
    <2>1. lock = Free /\ lock.op = "free" /\ c \in DOMAIN clients
      BY <1>4 DEF CloseStart, Free
    <2>2. /\ lock'.op = "close" /\ lock'.ws = c /\ lock'.doomed \subseteq clients[c]
          /\ lock'.ssid = 0 /\ lock' \in Locks
      BY <1>4, <2>1 DEF CloseStart, Types, RelayTypeOK, Locks, Free
    <2>3. Types'
      BY <1>4, <2>1, <2>2 DEF CloseStart, Types, RelayTypeOK
    <2> QED
      BY <1>4, <2>1, <2>2, <2>3
      DEF CloseStart, ConnInv, LockInv, Owned, Owns, BeingAdded, Types, RelayTypeOK
  <1> QED
    BY <1>1, <1>2, <1>3, <1>4 DEF ConnStep

LEMMA OwnershipLock ==
    ASSUME OwnershipInv, LockStep
    PROVE  OwnershipInv'
  <1> USE ConnAssumption, FreeInLocks DEF OwnershipInv, dvars
  <1>1. ASSUME lock.op \in {"remove", "close"}, lock.ssid = 0, NEW spec \in lock.doomed,
               \A other \in lock.doomed : spec.ssid <= other.ssid,
               spec.ssid \in DOMAIN subscriptions,
               lock' = [lock EXCEPT !.ssid = spec.ssid, !.doomed = @ \ {spec},
                                    !.sub = subscriptions[spec.ssid]],
               DeleteSub(spec.ssid),
               clients' = [clients EXCEPT ![lock.ws] = @ \ {spec}],
               UNCHANGED <<byAuthor, byKind, fallback, conn, req>>
        PROVE  OwnershipInv'
    <2> DEFINE c == lock.ws
    <2>1. /\ c \in DOMAIN clients /\ spec \in clients[c] /\ spec \in Specs
          /\ subscriptions[spec.ssid].ws = c
      BY <1>1 DEF LockInv, Owns, Types, RelayTypeOK
    <2>2. /\ lock' \in Locks /\ lock'.op = lock.op /\ lock'.ws = c
          /\ lock'.doomed = lock.doomed \ {spec} /\ lock'.req = lock.req
          /\ lock'.ssid = spec.ssid /\ lock'.sub = subscriptions[spec.ssid]
          /\ lock'.sub \in Subs /\ spec.ssid \in 1..serial
      BY <1>1, <2>1 DEF Types, RelayTypeOK, Locks, Specs
    <2>3. /\ DOMAIN clients' = DOMAIN clients /\ clients'[c] = clients[c] \ {spec}
          /\ \A d \in DOMAIN clients : d # c => clients'[d] = clients[d]
      BY <1>1, <2>1
    <2>4. /\ DOMAIN subscriptions' = DOMAIN subscriptions \ {spec.ssid} /\ serial' = serial
          /\ \A s \in DOMAIN subscriptions' : subscriptions'[s] = subscriptions[s]
          /\ subscriptions' \in [DOMAIN subscriptions' -> Subs]
      BY <1>1 DEF DeleteSub, Drop, Types
    <2>5. Types'
      BY <1>1, <2>2, <2>3, <2>4 DEF Types, RelayTypeOK
    <2>6. ConnInv'
      BY <1>1, <2>3 DEF ConnInv
    <2>7. LockInv'
      BY <1>1, <2>1, <2>2, <2>3, <2>4 DEF LockInv
    <2>8. Owned'
      <3> SUFFICES ASSUME NEW s \in DOMAIN subscriptions'
                   PROVE  /\ subscriptions'[s].ws \in DOMAIN clients'
                          /\ \E sp \in clients'[subscriptions'[s].ws] :
                                sp.ssid = s /\ sp.sid = subscriptions'[s].id
        BY DEF Owned
      <3>1. PICK sp \in clients[subscriptions[s].ws] : sp.ssid = s /\ sp.sid = subscriptions[s].id
        BY <1>1, <2>4 DEF Owned, BeingAdded
      <3>2. sp # spec /\ subscriptions[s].ws \in DOMAIN clients
        BY <1>1, <2>4, <3>1 DEF Owned, BeingAdded
      <3> QED
        BY <2>3, <2>4, <3>1, <3>2
    <2>9. Owns'
      <3> SUFFICES ASSUME NEW d \in DOMAIN clients', NEW sp \in clients'[d]
                   PROVE  /\ sp.ssid \in DOMAIN subscriptions'
                          /\ subscriptions'[sp.ssid].ws = d
                          /\ \A other \in clients'[d] : other.ssid = sp.ssid => other = sp
        BY <1>1, <2>2 DEF Owns, BeingAdded
      <3>1. sp # spec \/ d # c
        BY <2>3
      <3>2. d \in DOMAIN clients /\ sp \in clients[d] /\ clients'[d] \subseteq clients[d]
        BY <2>3
      <3>3. sp.ssid # spec.ssid
        BY <2>1, <2>3, <3>1, <3>2 DEF Owns
      <3> QED
        BY <2>4, <3>2, <3>3 DEF Owns
    <2> QED
      BY <2>5, <2>6, <2>7, <2>8, <2>9
  <1>2. CASE RemoveDelete
    <2>1. \A spec \in lock.doomed : spec.ssid \in DOMAIN subscriptions
      BY <1>2 DEF RemoveDelete, LockInv, Owns
    <2> QED
      BY <1>1, <1>2, <2>1 DEF RemoveDelete
  <1>3. CASE RemoveUnindex
    <2>1. lock' \in Locks /\ lock'.op = lock.op /\ lock'.ws = lock.ws /\ lock'.req = lock.req
          /\ lock'.doomed = lock.doomed /\ lock'.ssid = 0
      BY <1>3 DEF RemoveUnindex, Types, RelayTypeOK, Locks
    <2>2. lock.op \in {"remove", "close"}
      BY <1>3 DEF RemoveUnindex
    <2>3. Types'
      BY <1>3, <2>1 DEF RemoveUnindex, Types, RelayTypeOK
    <2> QED
      BY <1>3, <2>1, <2>2, <2>3 DEF RemoveUnindex, ConnInv, LockInv, Owned, Owns, BeingAdded
  <1>4. CASE RemoveEnd
    <2>1. lock' = Free /\ lock'.op = "free" /\ lock.op \in {"remove", "close"}
      BY <1>4 DEF RemoveEnd, Free
    <2>2. lock.ws \in DOMAIN clients /\ (lock.op = "remove" => clients[lock.ws] = {})
      BY <1>4 DEF RemoveEnd, LockInv
    <2>3. /\ DOMAIN clients' \subseteq DOMAIN clients
          /\ \A d \in DOMAIN clients' : clients'[d] = clients[d]
          /\ \A d \in DOMAIN clients \ DOMAIN clients' : clients[d] = {} /\ conn[d] = "gone"
      BY <1>4, <2>2 DEF RemoveEnd, Drop, LockInv
    <2>4. Types'
      BY <1>4, <2>1, <2>3 DEF RemoveEnd, Types, RelayTypeOK
    <2>5. ConnInv'
      BY <1>4, <2>3 DEF RemoveEnd, ConnInv
    <2>6. LockInv'
      BY <2>1 DEF LockInv
    <2>7. Owned'
      BY <1>4, <2>1, <2>3 DEF RemoveEnd, Owned, BeingAdded
    <2>8. Owns'
      BY <1>4, <2>1, <2>3 DEF RemoveEnd, Owns, BeingAdded
    <2> QED
      BY <2>4, <2>5, <2>6, <2>7, <2>8
  <1> QED
    BY <1>2, <1>3, <1>4 DEF LockStep

LEMMA OwnershipReq ==
    ASSUME OwnershipInv, NEW r \in Reqs, ReqStep(r)
    PROVE  OwnershipInv'
  <1> USE ConnAssumption, FreeInLocks, ReqAssumption
  <1>1. /\ req \in [Reqs -> [pc : {"idle", "filter", "listen", "index", "done", "closed"},
                             i : Nat \ {0}]]
        /\ RelayTypeOK /\ DOMAIN ReqOf[r].filters = 1..Len(ReqOf[r].filters)
        /\ Len(ReqOf[r].filters) \in Nat
    BY DEF OwnershipInv, Types, RelayTypeOK
  <1>2. CASE ReqStart(r)
    <2>1. RelayTypeOK'
      BY <1>1, <1>2, ReqMoves DEF ReqStart, Goto
    <2> QED
      BY <1>2, <2>1, OwnershipStutter DEF ReqStart
  <1>3. CASE RejectFilter(r)
    <2>1. RelayTypeOK'
      BY <1>1, <1>3, ReqMoves DEF RejectFilter, AtFilter, Goto
    <2> QED
      BY <1>3, <2>1, OwnershipStutter DEF RejectFilter
  <1>4. CASE QueryFilter(r)
    <2>1. RelayTypeOK'
      <3>1. CASE Goto(r, "listen")
        BY <1>1, <1>4, <3>1, ReqMoves DEF QueryFilter, AtFilter, Goto
      <3>2. CASE NextFilter(r)
        <4>1. UNCHANGED <<conn, clients, lock>> /\ req[r].pc = "filter"
          BY <1>4 DEF QueryFilter, AtFilter
        <4>2. [pc |-> "filter", i |-> req[r].i + 1]
                \in [pc : {"filter", "listen", "done", "closed"}, i : Nat \ {0}]
          BY <1>1
        <4> QED
          BY <1>1, <3>2, <4>1, <4>2, ReqMoves DEF NextFilter
      <3> QED
        BY <1>4, <3>1, <3>2 DEF QueryFilter
    <2> QED
      BY <1>4, <2>1, OwnershipStutter DEF QueryFilter
  <1>5. CASE AddListenerDone(r) \/ AddListenerLate(r)
    <2>1. RelayTypeOK'
      BY <1>1, <1>5, ReqMoves DEF AddListenerDone, AddListenerLate, NextFilter
    <2> QED
      BY <1>5, <2>1, OwnershipStutter DEF AddListenerDone, AddListenerLate
  <1>6. CASE SendEose(r)
    <2>1. RelayTypeOK'
      BY <1>1, <1>6, ReqMoves DEF SendEose, Goto
    <2> QED
      BY <1>6, <2>1, OwnershipStutter DEF SendEose
  <1>7. CASE AddListenerStart(r)
    <2> DEFINE n == serial + 1
               c == ReqOf[r].ws
    <2>1. /\ lock = Free /\ lock.op = "free" /\ c \in DOMAIN clients
          /\ n \in Ssids /\ n \in Nat /\ n \notin DOMAIN subscriptions /\ serial' = n
          /\ NewSub(r) \in Subs /\ NewSub(r).ws = c /\ NewSub(r).id = ReqOf[r].sid
      BY <1>1, <1>7, SerialAssumption
      DEF AddListenerStart, StoreSub, Free, OwnershipInv, Types, Ssids, CurrentFilter, RelayTypeOK,
          NewSub, Subs
    <2>2. /\ DOMAIN subscriptions' = DOMAIN subscriptions \cup {n}
          /\ subscriptions'[n] = NewSub(r)
          /\ \A s \in DOMAIN subscriptions : subscriptions'[s] = subscriptions[s]
          /\ subscriptions' \in [DOMAIN subscriptions' -> Subs]
      BY <1>7, <2>1 DEF AddListenerStart, StoreSub, Put, OwnershipInv, Types
    <2>3. /\ lock'.op = "add" /\ lock'.ws = c /\ lock'.req = r /\ lock'.ssid = n
          /\ lock'.sub = NewSub(r) /\ lock' \in Locks
      BY <1>7, <2>1 DEF AddListenerStart, Free, Locks
    <2>4. Types'
      <3>1. RelayTypeOK'
        BY <1>1, <1>7, <2>1, <2>3 DEF RelayTypeOK, AddListenerStart, Goto
      <3> QED
        BY <2>1, <2>2, <3>1, SerialAssumption DEF OwnershipInv, Types, Ssids
    <2>5. ConnInv' /\ LockInv'
      BY <1>7, <2>1, <2>2, <2>3 DEF AddListenerStart, ConnInv, LockInv, OwnershipInv
    <2>6. Owned'
      BY <1>7, <2>1, <2>2, <2>3 DEF AddListenerStart, Owned, OwnershipInv, BeingAdded
    <2>7. Owns'
      BY <1>7, <2>1, <2>2, <2>3 DEF AddListenerStart, Owns, OwnershipInv, BeingAdded
    <2> QED
      BY <2>4, <2>5, <2>6, <2>7 DEF OwnershipInv
  <1>8. CASE AddListenerIndex(r)
    <2> DEFINE c == lock.ws
               new == Spec(lock.ssid, ReqOf[r].sid, r)
    <2>1. /\ lock.op = "add" /\ lock.req = r /\ req[r].pc = "index" /\ c \in DOMAIN clients
          /\ lock.ssid \in DOMAIN subscriptions /\ subscriptions[lock.ssid].ws = c
          /\ subscriptions[lock.ssid].id = ReqOf[r].sid /\ lock' = Free /\ lock'.op = "free"
          /\ lock.ssid \in Ssids
      BY <1>1, <1>8, SerialAssumption
      DEF AddListenerIndex, OwnershipInv, LockInv, RelayTypeOK, Free, Types, Ssids
    <2>2. /\ DOMAIN clients' = DOMAIN clients /\ clients'[c] = clients[c] \cup {new}
          /\ \A d \in DOMAIN clients : d # c => clients'[d] = clients[d]
      BY <1>8, <2>1 DEF AddListenerIndex
    <2>3. new \in Specs /\ new.ssid = lock.ssid /\ new.sid = ReqOf[r].sid
      BY <2>1 DEF Spec, Specs
    <2>4. UNCHANGED <<serial, subscriptions, conn>>
      BY <1>8 DEF AddListenerIndex
    <2>5. Types'
      <3>1. RelayTypeOK'
        BY <1>1, <1>8, <2>1, <2>2, <2>3, <2>4 DEF RelayTypeOK, AddListenerIndex, NextFilter
      <3> QED
        BY <2>4, <3>1 DEF OwnershipInv, Types
    <2>6. ConnInv' /\ LockInv'
      BY <2>1, <2>2, <2>4 DEF ConnInv, LockInv, OwnershipInv
    <2>7. Owned'
      BY <2>1, <2>2, <2>3, <2>4 DEF Owned, OwnershipInv, BeingAdded
    <2>8. Owns'
      BY <2>1, <2>2, <2>3, <2>4 DEF Owns, OwnershipInv, BeingAdded
    <2> QED
      BY <2>5, <2>6, <2>7, <2>8 DEF OwnershipInv
  <1> QED
    BY <1>2, <1>3, <1>4, <1>5, <1>6, <1>7, <1>8 DEF ReqStep

LEMMA OwnershipPub ==
    ASSUME OwnershipInv, NEW p \in Pubs, PubStep(p)
    PROVE  OwnershipInv'
  <1>1. UNCHANGED <<dvars, conn, clients, lock, req>>
    BY DEF PubStep, RefuseEvent, DuplicateEvent, AcceptEvent, BroadcastStart, BroadcastPhase,
           ReplyOk, Visit
  <1>2. RelayTypeOK'
    BY <1>1 DEF OwnershipInv, Types, RelayTypeOK
  <1> QED
    BY <1>1, <1>2, OwnershipStutter

LEMMA OwnershipStep == OwnershipInv /\ [RelayNext]_vars => OwnershipInv'
  <1> SUFFICES ASSUME OwnershipInv, [RelayNext]_vars
               PROVE  OwnershipInv'
    OBVIOUS
  <1>1. CASE UNCHANGED vars
    BY <1>1 DEF vars, svars, dvars, OwnershipInv, Types, RelayTypeOK, ConnInv, LockInv, Owned,
                Owns, BeingAdded
  <1> QED
    BY <1>1, OwnershipReq, OwnershipPub, OwnershipConn, OwnershipLock DEF RelayNext

LEMMA OwnershipInit == RelayInit => OwnershipInv
  BY FreeInLocks, SerialAssumption, ConnAssumption
  DEF RelayInit, DispatcherInit, OwnershipInv, Types, RelayTypeOK, ConnInv, LockInv, Owned, Owns,
      BeingAdded, Free

-----------------------------------------------------------------------------
(* The dispatcher behind the mutex is the sequential dispatcher. *)

LEMMA RefinesInit == RelayInit => D!DispatcherInit
  BY DEF RelayInit, DispatcherInit, D!DispatcherInit, Indexed, IndexedSerial, Free

\* What an unfinished operation hides or still shows is what the operation was
\* begun with.
LEMMA DropPut ==
    ASSUME NEW T, NEW S, NEW m \in [T -> S], NEW k, NEW v
    PROVE  /\ k \notin DOMAIN m => Drop(Put(m, k, v), k) = m
           /\ k \in DOMAIN m => Put(Drop(m, k), k, m[k]) = m
  BY DEF Drop, Put

\* Of the steps of the relay, the second halves of addSubscription and of
\* removeSubscription are steps of the dispatcher; the others do not change
\* what a broadcast sees of it.
LEMMA RefinesStep ==
    ASSUME OwnershipInv, [RelayNext]_vars
    PROVE  [D!DispatcherNext]_(D!dvars)
  <1>1. /\ serial \in Nat /\ serial <= MaxSerial /\ DOMAIN subscriptions \subseteq 1..serial
        /\ subscriptions \in [DOMAIN subscriptions -> Subs]
    BY SerialAssumption DEF OwnershipInv, Types
  <1>2. CASE UNCHANGED <<dvars, lock>>
    BY <1>2 DEF dvars, D!dvars, Indexed, IndexedSerial
  <1>3. ASSUME UNCHANGED dvars, lock.op # "add", lock.ssid = 0, lock'.op # "add", lock'.ssid = 0
        PROVE  UNCHANGED D!dvars
    BY <1>3 DEF dvars, D!dvars, Indexed, IndexedSerial
  <1>4. ASSUME NEW c \in Conns, ConnStep(c)
        PROVE  UNCHANGED D!dvars
    <2>1. CASE Connect(c) \/ Kill(c)
      BY <1>2, <2>1 DEF Connect, Kill, dvars, D!dvars, Indexed, IndexedSerial
    <2>2. CASE RemoveClientStart(c)
      BY <1>3, <2>2 DEF RemoveClientStart, Free
    <2>3. ASSUME NEW sid \in SubIds, CloseStart(c, sid)
          PROVE  UNCHANGED D!dvars
      BY <1>3, <2>3 DEF CloseStart, Free
    <2> QED
      BY <1>4, <2>1, <2>2, <2>3 DEF ConnStep
  <1>5. CASE RemoveDelete
    <2>1. PICK spec \in lock.doomed :
            /\ spec.ssid \in DOMAIN subscriptions
            /\ lock' = [lock EXCEPT !.ssid = spec.ssid, !.doomed = @ \ {spec},
                                    !.sub = subscriptions[spec.ssid]]
            /\ subscriptions' = Drop(subscriptions, spec.ssid) /\ serial' = serial
      BY <1>5 DEF RemoveDelete, OwnershipInv, LockInv, Owns, DeleteSub
    <2>2. /\ lock.op \in {"remove", "close"} /\ lock.ssid = 0 /\ lock'.op = lock.op
          /\ lock'.ssid = spec.ssid /\ spec.ssid # 0 /\ lock'.sub = subscriptions[spec.ssid]
      BY <1>1, <1>5, <2>1 DEF RemoveDelete, OwnershipInv, Types, RelayTypeOK, Locks
    <2>3. Indexed' = Put(Drop(subscriptions, spec.ssid), spec.ssid, subscriptions[spec.ssid])
      BY <2>1, <2>2 DEF Indexed
    <2>4. Indexed' = Indexed /\ IndexedSerial' = IndexedSerial
      BY <1>1, <2>1, <2>2, <2>3, DropPut DEF Indexed, IndexedSerial
    <2> QED
      BY <1>5, <2>4 DEF RemoveDelete, D!dvars
  <1>6. CASE RemoveUnindex
    <2> DEFINE s == lock.ssid
    <2>1. /\ lock.op \in {"remove", "close"} /\ s # 0 /\ s \notin DOMAIN subscriptions
          /\ lock'.op = lock.op /\ lock'.ssid = 0 /\ UNCHANGED <<serial, subscriptions>>
      BY <1>6 DEF RemoveUnindex, OwnershipInv, LockInv, Types, RelayTypeOK, Locks
    <2>2. /\ Indexed = Put(subscriptions, s, lock.sub) /\ Indexed' = subscriptions
          /\ IndexedSerial' = IndexedSerial
      BY <2>1 DEF Indexed, IndexedSerial
    <2>3. s \in DOMAIN Indexed /\ Indexed[s] = lock.sub
      BY <2>2 DEF Put
    <2>4. Indexed' = Drop(Indexed, s)
      BY <1>1, <2>1, <2>2, DropPut
    <2>5. D!DeleteSub(s)
      BY <2>2, <2>4 DEF D!DeleteSub, D!Drop, Drop
    <2>6. D!Unindex(Indexed[s].filter, s)
      BY <1>6, <2>3 DEF RemoveUnindex, Unindex, D!Unindex, IndexRemove, D!IndexRemove,
           WalkCompletes, D!WalkCompletes, WalkReaches, D!WalkReaches, MissingAt, D!MissingAt
    <2> QED
      BY <2>3, <2>5, <2>6 DEF D!DispatcherNext, D!RemoveSubscription
  <1>7. CASE RemoveEnd
    BY <1>3, <1>7 DEF RemoveEnd, Free
  <1>8. ASSUME NEW r \in Reqs, AddListenerStart(r)
        PROVE  UNCHANGED D!dvars
    <2> DEFINE n == serial + 1
    <2>1. /\ lock.op = "free" /\ lock.ssid = 0 /\ lock'.op = "add" /\ lock'.ssid = n
          /\ serial' = n /\ subscriptions' = Put(subscriptions, n, NewSub(r))
          /\ n \notin DOMAIN subscriptions
      BY <1>1, <1>8 DEF AddListenerStart, StoreSub, Free
    <2>2. Indexed' = Drop(Put(subscriptions, n, NewSub(r)), n)
      BY <2>1 DEF Indexed
    <2>3. Indexed' = Indexed /\ IndexedSerial' = IndexedSerial
      BY <1>1, <2>1, <2>2, DropPut DEF Indexed, IndexedSerial
    <2> QED
      BY <1>8, <2>3 DEF AddListenerStart, D!dvars
  <1>9. ASSUME NEW r \in Reqs, AddListenerIndex(r)
        PROVE  D!DispatcherNext
    <2> DEFINE s == lock.ssid
    <2>1. /\ lock.op = "add" /\ s = serial /\ s \in DOMAIN subscriptions
          /\ subscriptions[s] = lock.sub /\ lock'.op = "free" /\ lock'.ssid = 0
          /\ UNCHANGED <<serial, subscriptions>>
      BY <1>9 DEF AddListenerIndex, OwnershipInv, LockInv, Free
    <2>2. /\ Indexed = Drop(subscriptions, s) /\ Indexed' = subscriptions
          /\ IndexedSerial = serial - 1 /\ IndexedSerial' = serial /\ IndexedSerial + 1 = s
      BY <1>1, <2>1 DEF Indexed, IndexedSerial
    <2>3. lock.sub \in Subs /\ lock.sub \in D!Subs
      BY <1>1, <2>1 DEF Subs, D!Subs
    <2>4. Indexed' = Put(Indexed, s, lock.sub)
      BY <1>1, <2>1, <2>2, DropPut
    <2>5. D!StoreSub(lock.sub)
      <3>1. serial \in Nat /\ serial <= MaxSerial
        BY <1>1, <2>1, SerialAssumption
      <3>2. IndexedSerial < MaxSerial /\ IndexedSerial' = IndexedSerial + 1
        BY <2>2, <3>1, SerialAssumption
      <3>3. Indexed' = D!Put(Indexed, IndexedSerial + 1, lock.sub)
        BY <2>2, <2>4, Zenon DEF Put, D!Put
      <3> QED
        BY <3>2, <3>3, Zenon DEF D!StoreSub
    <2>6. D!IndexSub(lock.sub.filter, IndexedSerial + 1)
      BY <1>9, <2>2 DEF AddListenerIndex, IndexSub, D!IndexSub, IndexAdd, D!IndexAdd, Listed, D!Listed
    <2> QED
      BY <2>3, <2>5, <2>6 DEF D!DispatcherNext, D!AddSubscription
  <1>10. ASSUME NEW r \in Reqs, ReqStep(r)
         PROVE  [D!DispatcherNext]_(D!dvars)
    <2>1. CASE \/ ReqStart(r) \/ RejectFilter(r) \/ QueryFilter(r) \/ SendEose(r)
               \/ AddListenerDone(r) \/ AddListenerLate(r)
      BY <1>2, <2>1 DEF ReqStart, RejectFilter, QueryFilter, SendEose, AddListenerDone,
           AddListenerLate
    <2> QED
      BY <1>8, <1>9, <1>10, <2>1 DEF ReqStep
  <1>11. ASSUME NEW p \in Pubs, PubStep(p)
         PROVE  [D!DispatcherNext]_(D!dvars)
    BY <1>2, <1>11 DEF PubStep, RefuseEvent, DuplicateEvent, AcceptEvent, BroadcastStart,
         BroadcastPhase, ReplyOk, Visit
  <1>12. CASE UNCHANGED vars
    BY <1>2, <1>12 DEF vars, svars
  <1> QED
    BY <1>4, <1>5, <1>6, <1>7, <1>10, <1>11, <1>12 DEF RelayNext, LockStep

\* The relay's own types hold in every reachable state, and the goroutine that
\* adds a listener is the one that holds the mutex.
THEOREM RelayTypesHold == RelaySafety => []RelayTypeOK
  <1>1. OwnershipInv => RelayTypeOK
    BY DEF OwnershipInv, Types
  <1> QED
    BY <1>1, OwnershipInit, OwnershipStep, PTL DEF RelaySafety

\* Whatever the interleaving of REQ, CLOSE, disconnections and broadcasts, the
\* dispatcher has a subscription for exactly the specs of the connections that
\* are in the map whenever the mutex is free.
THEOREM ListenersAreOwned == RelaySafety => []OwnedWhenUnlocked
  <1>1. OwnershipInv => OwnedWhenUnlocked
    BY DEF OwnershipInv, Owned, Owns, OwnedWhenUnlocked, BeingAdded, Free
  <1> QED
    BY <1>1, OwnershipInit, OwnershipStep, PTL DEF RelaySafety

\* The relay implements the sequential dispatcher: seen through the steps that
\* change the indexes, the listeners of all connections go through a sequence of
\* whole addSubscription and removeSubscription calls.
THEOREM RelayImplementsDispatcher == RelaySafety => DispatcherIsSequential
  <1>1. RelayInit /\ [][RelayNext]_vars => [][D!DispatcherNext]_(D!dvars)
    BY OwnershipInit, OwnershipStep, RefinesStep, PTL
  <1> QED
    BY <1>1, RefinesInit, PTL DEF RelaySafety, DispatcherIsSequential, D!DispatcherSpec

\* What is proved of the sequential dispatcher holds of the relay's.
P == INSTANCE DispatcherProofs WITH subscriptions <- Indexed, serial <- IndexedSerial

\* When no filter repeats an author or a kind, the indexes are exact whenever
\* the mutex is free, whatever REQ, CLOSE and disconnections raced before.
THEOREM RelayIndexExact ==
    ASSUME DistinctFilters
    PROVE  RelaySafety => []IndexExactWhenUnlocked
  <1>1. P!DistinctFilters
    BY DEF DistinctFilters, P!DistinctFilters, NoRepeats, P!NoRepeats
  <1>2. RelayInit => P!IndexInv
    BY RefinesInit, SerialAssumption
    DEF D!DispatcherInit, P!IndexInv, P!DispatcherTypeOK, P!IndexExact, P!Ssids
  <1>3. ASSUME OwnershipInv, P!IndexInv, [RelayNext]_vars
        PROVE  P!IndexInv'
    <2>1. [P!DispatcherNext]_(P!dvars)
      BY <1>3, RefinesStep, Zenon
      DEF D!DispatcherNext, P!DispatcherNext, D!AddSubscription, P!AddSubscription,
          D!StoreSub, P!StoreSub, D!IndexSub, P!IndexSub, D!IndexAdd, P!IndexAdd,
          D!Listed, P!Listed, D!RemoveSubscription, P!RemoveSubscription, D!DeleteSub,
          P!DeleteSub, D!Unindex, P!Unindex, D!IndexRemove, P!IndexRemove,
          D!WalkCompletes, P!WalkCompletes, D!WalkReaches, P!WalkReaches, D!MissingAt,
          P!MissingAt, D!Put, P!Put, D!Drop, P!Drop, D!Subs, P!Subs, D!dvars, P!dvars
    <2> QED
      BY <1>1, <1>3, <2>1, P!IndexInvStep, SerialAssumption, FilterAssumption, EventAssumption,
         NilAssumption
      DEF ListOf, P!ListOf
  <1>4. OwnershipInv /\ P!IndexInv => IndexExactWhenUnlocked
    BY DEF P!IndexInv, P!IndexExact, IndexExactWhenUnlocked, IndexExact, Indexed, Free, P!Listed,
           Listed
  <1> QED
    BY <1>2, <1>3, <1>4, OwnershipInit, OwnershipStep, PTL DEF RelaySafety
-----------------------------------------------------------------------------
(* What the indexes say, whatever the filters repeat *)

Broadcasts ==
    [pc : {"idle", "begin", "author", "kind", "fallback", "reply", "done"}, ok : BOOLEAN,
     hasKind : BOOLEAN, todo : SUBSET (1..serial), count : Nat,
     wrote : SUBSET ({"author", "kind", "fallback"} \X (1..serial))]

PubTypes == pub \in [Pubs -> Broadcasts]

IndexTypes ==
    /\ byAuthor \in [Authors -> SUBSET (1..serial)]
    /\ byKind \in [Kinds -> SUBSET (1..serial)]
    /\ fallback \subseteq 1..serial

Catches(f) == f.authors = Nil /\ f.kinds = Nil

\* A listener that is not being added is in the sets of the authors and kinds
\* of its filter and in no other. Of a listener that is gone nothing is said:
\* with repetitions the early return of removeSubscription leaves it behind.
Placed ==
    \A s \in DOMAIN subscriptions :
        LET f == subscriptions[s].filter
            there == ~BeingAdded(s)
        IN  /\ \A a \in Authors : s \in byAuthor[a] <=> there /\ Listed(f.authors, a)
            /\ \A k \in Kinds : s \in byKind[k] <=> there /\ Listed(f.kinds, k)
            /\ s \in fallback <=> there /\ Catches(f)

IndexInv == IndexTypes /\ Placed

\* Which loop of candidates a listener belongs to.
OfPhase(pc, f) ==
    /\ pc = "author" => f.authors # Nil
    /\ pc = "kind" => f.authors = Nil /\ f.kinds # Nil
    /\ pc = "fallback" => Catches(f)

\* The list a broadcast walks was right when it took it, and a listener that
\* was in the map then is the same listener as long as it is there.
TodoOk(b, e) ==
    /\ b.todo # {} => b.pc \in {"author", "kind", "fallback"}
    /\ \A s \in b.todo \cap DOMAIN subscriptions :
          LET f == subscriptions[s].filter
          IN  /\ b.pc = "author" => Listed(f.authors, e.pubkey)
              /\ b.pc = "kind" => Listed(f.kinds, e.kind)
              /\ b.pc = "fallback" => Catches(f)

\* A loop has written only to listeners that belong to it, and so only one of
\* the loops has written to a listener.
WroteOk(b) ==
    /\ \A y \in b.wrote : y[2] \in DOMAIN subscriptions => OfPhase(y[1], subscriptions[y[2]].filter)
    /\ \A y, z \in b.wrote : y[2] = z[2] => y = z

PubInv ==
    PubTypes /\ \A p \in Pubs : TodoOk(pub[p], PubOf[p].event) /\ WroteOk(pub[p])

\* Every subscription was asked for by a REQ that has been taken up.
Requested(c, sid, f) ==
    \E r \in Reqs : /\ req[r].pc # "idle" /\ ReqOf[r].ws = c /\ ReqOf[r].sid = sid
                    /\ \E i \in DOMAIN ReqOf[r].filters : ReqOf[r].filters[i] = f

RequestedInv ==
    \A s \in DOMAIN subscriptions :
        Requested(subscriptions[s].ws, subscriptions[s].id, subscriptions[s].filter)

IsOut == out = [c \in Conns |-> out[c]]

BroadcastInv ==
    /\ IndexInv /\ PubInv /\ stored \subseteq Events /\ IsOut
    /\ RequestedInv /\ OnlyRequestedEvents

\* A step that does not change the dispatcher, and neither begins nor ends an
\* addListener.
LEMMA IndexStutter ==
    ASSUME IndexInv, UNCHANGED dvars, lock'.op = "add" <=> lock.op = "add",
           lock.op = "add" => lock'.ssid = lock.ssid
    PROVE  IndexInv'
  BY DEF IndexInv, IndexTypes, Placed, BeingAdded, dvars

LEMMA IndexLock ==
    ASSUME OwnershipInv, IndexInv, LockStep
    PROVE  IndexInv'
  <1>1. CASE RemoveEnd
    BY <1>1, IndexStutter DEF RemoveEnd, Free
  <1>2. CASE RemoveDelete
    <2>1. lock.op # "add" /\ lock'.op = lock.op /\ UNCHANGED <<serial, byAuthor, byKind, fallback>>
      BY <1>2 DEF RemoveDelete, DeleteSub, OwnershipInv, Types, RelayTypeOK, Locks
    <2>2. /\ DOMAIN subscriptions' \subseteq DOMAIN subscriptions
          /\ \A s \in DOMAIN subscriptions' : subscriptions'[s] = subscriptions[s]
      BY <1>2 DEF RemoveDelete, DeleteSub, Drop
    <2> QED
      BY <2>1, <2>2 DEF IndexInv, IndexTypes, Placed, BeingAdded
  <1>3. CASE RemoveUnindex
    <2> DEFINE n == lock.ssid
               f == lock.sub.filter
    <2>1. /\ n \notin DOMAIN subscriptions /\ lock.op # "add" /\ lock'.op # "add"
          /\ UNCHANGED <<serial, subscriptions>>
      BY <1>3 DEF RemoveUnindex, OwnershipInv, LockInv, Types, RelayTypeOK, Locks
    <2>2. /\ DOMAIN byAuthor' = Authors
          /\ \A a \in Authors : /\ byAuthor'[a] \subseteq byAuthor[a]
                                /\ \A s : s # n => (s \in byAuthor'[a] <=> s \in byAuthor[a])
      <3>1. byAuthor' = IndexRemove(byAuthor, f.authors, n) /\ DOMAIN byAuthor = Authors
        BY <1>3 DEF RemoveUnindex, Unindex, IndexInv, IndexTypes
      <3> QED
        BY <3>1 DEF IndexRemove
    <2>3. /\ DOMAIN byKind' = Kinds
          /\ \A k \in Kinds : /\ byKind'[k] \subseteq byKind[k]
                              /\ \A s : s # n => (s \in byKind'[k] <=> s \in byKind[k])
      <3>1. /\ byKind' = IndexRemove(byKind, f.kinds, n) \/ byKind' = byKind
            /\ DOMAIN byKind = Kinds
        BY <1>3 DEF RemoveUnindex, Unindex, IndexInv, IndexTypes
      <3> QED
        BY <3>1 DEF IndexRemove
    <2>4. fallback' \subseteq fallback /\ \A s : s # n => (s \in fallback' <=> s \in fallback)
      BY <1>3 DEF RemoveUnindex, Unindex
    <2>5. byAuthor' = [a \in Authors |-> byAuthor'[a]] /\ byKind' = [k \in Kinds |-> byKind'[k]]
      BY <1>3 DEF RemoveUnindex, Unindex, IndexInv, IndexTypes, IndexRemove
    <2>6. IndexTypes'
      BY <2>1, <2>2, <2>3, <2>4, <2>5 DEF IndexInv, IndexTypes
    <2>7. Placed'
      BY <2>1, <2>2, <2>3, <2>4 DEF IndexInv, Placed, BeingAdded
    <2> QED
      BY <2>6, <2>7 DEF IndexInv
  <1> QED
    BY <1>1, <1>2, <1>3 DEF LockStep

LEMMA IndexReq ==
    ASSUME OwnershipInv, IndexInv, NEW r \in Reqs, ReqStep(r)
    PROVE  IndexInv'
  <1>1. CASE \/ ReqStart(r) \/ RejectFilter(r) \/ QueryFilter(r) \/ SendEose(r)
             \/ AddListenerDone(r) \/ AddListenerLate(r)
    BY <1>1, IndexStutter DEF ReqStart, RejectFilter, QueryFilter, SendEose, AddListenerDone,
         AddListenerLate
  <1>2. CASE AddListenerStart(r)
    <2> DEFINE n == serial + 1
    <2>1. /\ serial \in Nat /\ serial' = n /\ n \notin 1..serial /\ lock'.op = "add"
          /\ lock'.ssid = n /\ lock.op = "free"
          /\ UNCHANGED <<byAuthor, byKind, fallback>>
      BY <1>2, SerialAssumption DEF AddListenerStart, StoreSub, Free, OwnershipInv, Types
    <2>2. /\ DOMAIN subscriptions' = DOMAIN subscriptions \cup {n}
          /\ \A s \in DOMAIN subscriptions : s # n /\ subscriptions'[s] = subscriptions[s]
      BY <1>2, <2>1 DEF AddListenerStart, StoreSub, Put, OwnershipInv, Types
    <2>3. IndexTypes'
      BY <2>1 DEF IndexInv, IndexTypes
    <2>4. Placed'
      BY <2>1, <2>2 DEF IndexInv, IndexTypes, Placed, BeingAdded
    <2> QED
      BY <2>3, <2>4 DEF IndexInv
  <1>3. CASE AddListenerIndex(r)
    <2> DEFINE n == lock.ssid
               f == lock.sub.filter
    <2>1. /\ n \in DOMAIN subscriptions /\ subscriptions[n] = lock.sub /\ BeingAdded(n)
          /\ n \in 1..serial /\ lock'.op # "add" /\ UNCHANGED <<serial, subscriptions>>
      BY <1>3 DEF AddListenerIndex, OwnershipInv, LockInv, Types, BeingAdded, Free
    <2>2. /\ DOMAIN byAuthor' = Authors
          /\ \A a \in Authors : \A s : s \in byAuthor'[a] <=>
                 s \in byAuthor[a] \/ (s = n /\ Listed(f.authors, a))
      <3>1. byAuthor' = IndexAdd(byAuthor, f.authors, n) /\ DOMAIN byAuthor = Authors
        BY <1>3 DEF AddListenerIndex, IndexSub, IndexInv, IndexTypes
      <3> QED
        BY <3>1 DEF IndexAdd
    <2>3. /\ DOMAIN byKind' = Kinds
          /\ \A k \in Kinds : \A s : s \in byKind'[k] <=>
                 s \in byKind[k] \/ (s = n /\ Listed(f.kinds, k))
      <3>1. byKind' = IndexAdd(byKind, f.kinds, n) /\ DOMAIN byKind = Kinds
        BY <1>3 DEF AddListenerIndex, IndexSub, IndexInv, IndexTypes
      <3> QED
        BY <3>1 DEF IndexAdd
    <2>4. \A s : s \in fallback' <=> s \in fallback \/ (s = n /\ Catches(f))
      BY <1>3 DEF AddListenerIndex, IndexSub, Catches
    <2>5. byAuthor' = [a \in Authors |-> byAuthor'[a]] /\ byKind' = [k \in Kinds |-> byKind'[k]]
      BY <1>3 DEF AddListenerIndex, IndexSub, IndexInv, IndexTypes, IndexAdd
    <2>6. IndexTypes'
      BY <2>1, <2>2, <2>3, <2>4, <2>5 DEF IndexInv, IndexTypes
    <2>7. Placed'
      BY <2>1, <2>2, <2>3, <2>4 DEF IndexInv, Placed, BeingAdded
    <2> QED
      BY <2>6, <2>7 DEF IndexInv
  <1> QED
    BY <1>1, <1>2, <1>3 DEF ReqStep

LEMMA IndexStep ==
    ASSUME OwnershipInv, IndexInv, [RelayNext]_vars
    PROVE  IndexInv'
  <1>1. CASE UNCHANGED vars
    BY <1>1, IndexStutter DEF vars, svars
  <1>2. ASSUME NEW p \in Pubs, PubStep(p)
        PROVE  IndexInv'
    BY <1>2, IndexStutter DEF PubStep, RefuseEvent, DuplicateEvent, AcceptEvent, BroadcastStart,
         BroadcastPhase, ReplyOk, Visit
  <1>3. ASSUME NEW c \in Conns, ConnStep(c)
        PROVE  IndexInv'
    <2>1. UNCHANGED dvars
      BY <1>3 DEF ConnStep, Connect, Kill, RemoveClientStart, CloseStart
    <2>2. (lock.op # "add" /\ lock'.op # "add") \/ UNCHANGED lock
      <3>1. CASE Connect(c) \/ Kill(c)
        BY <3>1 DEF Connect, Kill
      <3>2. CASE RemoveClientStart(c)
        BY <3>2 DEF RemoveClientStart, Free
      <3>3. ASSUME NEW sid \in SubIds, CloseStart(c, sid)
            PROVE  lock.op # "add" /\ lock'.op # "add"
        BY <3>3 DEF CloseStart, Free
      <3> QED
        BY <1>3, <3>1, <3>2, <3>3 DEF ConnStep
    <2> QED
      BY <2>1, <2>2, IndexStutter
  <1> QED
    BY <1>1, <1>2, <1>3, IndexReq, IndexLock DEF RelayNext

-----------------------------------------------------------------------------
(* The broadcasts *)

\* A serial number is given out once: a listener that is in the map and has an
\* old number is the listener it was.
LEMMA SerialsAreFresh ==
    ASSUME OwnershipInv, [RelayNext]_vars
    PROVE  /\ 1..serial \subseteq 1..serial'
           /\ \A s \in 1..serial : s \in DOMAIN subscriptions' =>
                 s \in DOMAIN subscriptions /\ subscriptions'[s] = subscriptions[s]
           /\ \A r \in Reqs : req[r].pc # "idle" => req'[r].pc # "idle"
  <1> USE DEF OwnershipInv
  <1>0. /\ serial \in Nat
        /\ req \in [Reqs -> [pc : {"idle", "filter", "listen", "index", "done", "closed"},
                             i : Nat \ {0}]]
    BY SerialAssumption DEF Types, RelayTypeOK
  <1>1. CASE UNCHANGED vars
    BY <1>1 DEF vars, svars, dvars
  <1>2. ASSUME NEW p \in Pubs, PubStep(p)
        PROVE  UNCHANGED <<serial, subscriptions, req>>
    BY <1>2 DEF PubStep, RefuseEvent, DuplicateEvent, AcceptEvent, BroadcastStart, BroadcastPhase,
         ReplyOk, Visit, dvars
  <1>3. ASSUME NEW c \in Conns, ConnStep(c)
        PROVE  UNCHANGED <<serial, subscriptions, req>>
    BY <1>3 DEF ConnStep, Connect, Kill, RemoveClientStart, CloseStart, dvars
  <1>4. ASSUME LockStep
        PROVE  /\ UNCHANGED <<serial, req>>
               /\ DOMAIN subscriptions' \subseteq DOMAIN subscriptions
               /\ \A s \in DOMAIN subscriptions' : subscriptions'[s] = subscriptions[s]
    BY <1>4 DEF LockStep, RemoveDelete, RemoveUnindex, RemoveEnd, DeleteSub, Drop, dvars
  <1>5. ASSUME NEW r \in Reqs, ReqStep(r)
        PROVE  /\ 1..serial \subseteq 1..serial'
               /\ \A s \in 1..serial : s \in DOMAIN subscriptions' =>
                     s \in DOMAIN subscriptions /\ subscriptions'[s] = subscriptions[s]
               /\ \A q \in Reqs : req[q].pc # "idle" => req'[q].pc # "idle"
    <2>1. CASE AddListenerStart(r)
      <3>1. /\ serial' = serial + 1 /\ subscriptions' = Put(subscriptions, serial + 1, NewSub(r))
            /\ req' = [req EXCEPT ![r].pc = "index"]
        BY <2>1 DEF AddListenerStart, StoreSub, Goto
      <3> QED
        BY <1>0, <3>1 DEF Put
    <2>2. CASE AddListenerIndex(r)
      BY <1>0, <2>2 DEF AddListenerIndex, NextFilter, LockInv, Types, RelayTypeOK
    <2>3. CASE \/ ReqStart(r) \/ RejectFilter(r) \/ QueryFilter(r) \/ SendEose(r)
               \/ AddListenerDone(r) \/ AddListenerLate(r)
      <3>1. UNCHANGED <<serial, subscriptions>>
        BY <2>3 DEF ReqStart, RejectFilter, QueryFilter, SendEose, AddListenerDone,
             AddListenerLate, dvars
      <3>2. \/ \E pc \in {"filter", "listen", "done", "closed"} : req' = [req EXCEPT ![r].pc = pc]
            \/ req' = [req EXCEPT ![r] = [pc |-> "filter", i |-> @.i + 1]]
        BY <2>3 DEF ReqStart, RejectFilter, QueryFilter, SendEose, AddListenerDone,
             AddListenerLate, NextFilter, Goto
      <3>3. \A q \in Reqs : req[q].pc # "idle" => req'[q].pc # "idle"
        BY <1>0, <3>2
      <3> QED
        BY <3>1, <3>3
    <2> QED
      BY <1>5, <2>1, <2>2, <2>3 DEF ReqStep
  <1> QED
    BY <1>0, <1>1, <1>2, <1>3, <1>4, <1>5 DEF RelayNext

\* The broadcasts, when only the listeners change.
LEMMA BroadcastStutter ==
    ASSUME OwnershipInv, [RelayNext]_vars, PubInv, UNCHANGED pub
    PROVE  PubInv'
  <1>1. /\ 1..serial \subseteq 1..serial'
        /\ \A s \in 1..serial : s \in DOMAIN subscriptions' =>
              s \in DOMAIN subscriptions /\ subscriptions'[s] = subscriptions[s]
    BY SerialsAreFresh
  <1>2. \A p \in Pubs : /\ pub[p].todo \subseteq 1..serial
                        /\ \A y \in pub[p].wrote : y[2] \in 1..serial
    BY DEF PubInv, PubTypes, Broadcasts
  <1>3. PubTypes'
    BY <1>1 DEF PubInv, PubTypes, Broadcasts
  <1>4. ASSUME NEW p \in Pubs
        PROVE  TodoOk(pub[p], PubOf[p].event)' /\ WroteOk(pub[p])'
    BY <1>1, <1>2 DEF PubInv, TodoOk, WroteOk
  <1> QED
    BY <1>3, <1>4 DEF PubInv

\* The broadcast of one goroutine goes on.
LEMMA PubMoves ==
    ASSUME PubInv, UNCHANGED <<serial, subscriptions>>,
           NEW p \in Pubs, NEW b \in Broadcasts, pub' = [pub EXCEPT ![p] = b],
           TodoOk(b, PubOf[p].event), WroteOk(b)
    PROVE  PubInv'
  <1>1. PubTypes'
    BY DEF PubInv, PubTypes, Broadcasts
  <1>2. \A q \in Pubs : pub'[q] = IF q = p THEN b ELSE pub[q]
    BY DEF PubInv, PubTypes
  <1>3. ASSUME NEW q \in Pubs
        PROVE  TodoOk(pub[q], PubOf[q].event)' /\ WroteOk(pub[q])'
    BY <1>2 DEF PubInv, TodoOk, WroteOk
  <1> QED
    BY <1>1, <1>3 DEF PubInv

LEMMA LoadedIsOpen ==
    ASSUME NEW s, Load(s).ws # Nil
    PROVE  s \in DOMAIN subscriptions /\ Load(s) = subscriptions[s]
           /\ Loaded(s) = subscriptions[s].filter
  BY DEF Load, Loaded, ZeroSub

LEMMA PubStepKeeps ==
    ASSUME OwnershipInv, IndexInv, PubInv, NEW p \in Pubs, PubStep(p)
    PROVE  PubInv'
  <1> DEFINE e == PubOf[p].event
             b == pub[p]
  <1>0. /\ e \in Events /\ e.pubkey \in Authors /\ e.kind \in Kinds
        /\ UNCHANGED <<serial, subscriptions>>
    BY PubAssumption, EventAssumption
    DEF PubStep, RefuseEvent, DuplicateEvent, AcceptEvent, BroadcastStart, BroadcastPhase,
        ReplyOk, Visit, dvars
  <1>1. b \in Broadcasts /\ TodoOk(b, e) /\ WroteOk(b) /\ pub \in [Pubs -> Broadcasts]
    BY DEF PubInv, PubTypes
  <1>2. ASSUME NEW pc \in {"begin", "reply", "done"}, NEW ok \in BOOLEAN, b.todo = {},
               pub' = [pub EXCEPT ![p].pc = pc, ![p].ok = ok]
        PROVE  PubInv'
    <2> DEFINE new == [b EXCEPT !.pc = pc, !.ok = ok]
    <2>1. new \in Broadcasts /\ new.todo = {} /\ new.wrote = b.wrote
      BY <1>1, <1>2 DEF Broadcasts
    <2>2. pub' = [pub EXCEPT ![p] = new]
      BY <1>1, <1>2
    <2> HIDE DEF new
    <2>3. TodoOk(new, e) /\ WroteOk(new)
      BY <1>1, <2>1 DEF TodoOk, WroteOk
    <2> QED
      BY <1>0, <2>1, <2>2, <2>3, PubMoves
  <1>3. CASE RefuseEvent(p) \/ DuplicateEvent(p) \/ AcceptEvent(p)
    <2>1. b.todo = {}
      BY <1>1, <1>3 DEF RefuseEvent, DuplicateEvent, AcceptEvent, TodoOk
    <2> QED
      BY <1>2, <1>3, <2>1 DEF RefuseEvent, DuplicateEvent, AcceptEvent, PubGoto
  <1>4. CASE ReplyOk(p)
    <2>1. b.todo = {} /\ b.ok \in BOOLEAN
      BY <1>1, <1>4 DEF ReplyOk, TodoOk, Broadcasts
    <2>2. pub' = [pub EXCEPT ![p].pc = "done", ![p].ok = b.ok]
      BY <1>1, <1>4 DEF ReplyOk, Broadcasts
    <2> QED
      BY <1>2, <2>1, <2>2
  \* The three loops take their lists from the indexes.
  <1>5. ASSUME NEW pc \in {"author", "kind", "fallback", "reply"}, NEW h \in BOOLEAN,
               NEW todo \in SUBSET (1..serial),
               pub' = [pub EXCEPT ![p].pc = pc, ![p].hasKind = h, ![p].todo = todo],
               pc = "reply" => todo = {},
               \A s \in todo : /\ pc = "author" => s \in byAuthor[e.pubkey]
                               /\ pc = "kind" => s \in byKind[e.kind]
                               /\ pc = "fallback" => s \in fallback
        PROVE  PubInv'
    <2> DEFINE new == [b EXCEPT !.pc = pc, !.hasKind = h, !.todo = todo]
    <2>1. new \in Broadcasts /\ new.todo = todo /\ new.wrote = b.wrote /\ new.pc = pc
      BY <1>1, <1>5 DEF Broadcasts
    <2>2. pub' = [pub EXCEPT ![p] = new]
      BY <1>1, <1>5
    <2> HIDE DEF new
    <2>3. TodoOk(new, e)
      BY <1>0, <1>5, <2>1 DEF TodoOk, IndexInv, Placed
    <2>4. WroteOk(new)
      BY <1>1, <2>1 DEF WroteOk
    <2> QED
      BY <1>0, <2>1, <2>2, <2>3, <2>4, PubMoves
  <1>6. CASE BroadcastStart(p)
    <2>1. byAuthor[e.pubkey] \in SUBSET (1..serial)
      BY <1>0 DEF IndexInv, IndexTypes
    <2>2. pub' = [pub EXCEPT ![p].pc = "author", ![p].hasKind = (byKind[e.kind] # {}),
                             ![p].todo = byAuthor[e.pubkey]]
      BY <1>6 DEF BroadcastStart
    <2> QED
      BY <1>5, <2>1, <2>2
  <1>7. CASE BroadcastPhase(p)
    <2> DEFINE list == IF b.pc = "author" THEN IF b.hasKind THEN byKind[e.kind] ELSE {}
                       ELSE IF b.pc = "kind" THEN fallback ELSE {}
               next == IF b.pc = "author" THEN "kind"
                       ELSE IF b.pc = "kind" THEN "fallback" ELSE "reply"
    <2>1. list \in SUBSET (1..serial) /\ b.hasKind \in BOOLEAN
      BY <1>0, <1>1 DEF IndexInv, IndexTypes, Broadcasts
    <2>2. pub' = [pub EXCEPT ![p].pc = next, ![p].todo = list]
      BY <1>1, <1>7 DEF BroadcastPhase
    <2>3. pub' = [pub EXCEPT ![p].pc = next, ![p].hasKind = b.hasKind, ![p].todo = list]
      BY <1>1, <2>2 DEF Broadcasts
    <2> QED
      BY <1>5, <2>1, <2>3
  <1>8. ASSUME NEW s \in b.todo, Visit(p, s)
        PROVE  PubInv'
    <2> DEFINE notify == Qualifies(p, s) /\ <<Load(s).ws, e>> \notin Prevented
               written == notify /\ Load(s).ws # Nil
               y == <<b.pc, s>>
               wrote == IF written THEN b.wrote \cup {y} ELSE b.wrote
               count == IF notify THEN b.count + 1 ELSE b.count
               new == [b EXCEPT !.todo = @ \ {s}, !.count = count, !.wrote = wrote]
    <2>1. pub' = [pub EXCEPT ![p].todo = @ \ {s}, ![p].count = count, ![p].wrote = wrote]
      BY <1>8 DEF Visit
    <2>2. b.pc \in {"author", "kind", "fallback"} /\ s \in 1..serial /\ b.count \in Nat
      BY <1>1, <1>8 DEF TodoOk, Broadcasts
    <2>3. wrote \subseteq {"author", "kind", "fallback"} \X (1..serial) /\ count \in Nat
      BY <1>1, <2>2 DEF Broadcasts
    <2>4. written => s \in DOMAIN subscriptions /\ OfPhase(b.pc, subscriptions[s].filter)
      <3>1. ASSUME written
            PROVE  s \in DOMAIN subscriptions /\ OfPhase(b.pc, subscriptions[s].filter)
        <4>1. s \in DOMAIN subscriptions /\ Loaded(s) = subscriptions[s].filter
          BY <3>1, LoadedIsOpen
        <4> QED
          BY <1>1, <1>8, <3>1, <4>1 DEF Qualifies, OfPhase, TodoOk, Listed
      <3> QED
        BY <3>1
    <2> HIDE DEF notify, written, count
    <2>5. pub' = [pub EXCEPT ![p] = new]
      BY <1>1, <2>1
    <2>6. /\ new \in Broadcasts /\ new.pc = b.pc /\ new.wrote = wrote
          /\ new.todo = b.todo \ {s}
      BY <1>1, <2>3 DEF Broadcasts
    <2> HIDE DEF new
    <2>7. TodoOk(new, e)
      BY <1>1, <2>6 DEF TodoOk
    <2>8. WroteOk(new)
      <3>1. \A z \in b.wrote : written /\ z[2] = s => z = y
        <4> SUFFICES ASSUME NEW z \in b.wrote, written, z[2] = s
                     PROVE  z = y
          OBVIOUS
        <4>1. OfPhase(z[1], subscriptions[s].filter)
          BY <1>1, <2>4 DEF WroteOk
        <4>2. z \in {"author", "kind", "fallback"} \X (1..serial)
          BY <1>1 DEF Broadcasts
        <4>3. z[1] = b.pc
          BY <2>2, <2>4, <4>1, <4>2 DEF OfPhase, Catches
        <4> QED
          BY <4>2, <4>3
      <3> QED
        BY <1>1, <2>4, <2>6, <3>1 DEF WroteOk
    <2> QED
      BY <1>0, <2>5, <2>6, <2>7, <2>8, PubMoves
  <1> QED
    BY <1>3, <1>4, <1>6, <1>7, <1>8 DEF PubStep

LEMMA RequestedStep ==
    ASSUME OwnershipInv, RequestedInv, [RelayNext]_vars
    PROVE  RequestedInv'
  <1>1. \A r \in Reqs : req[r].pc # "idle" => req'[r].pc # "idle"
    BY SerialsAreFresh
  <1>2. \A c, sid, f : Requested(c, sid, f) => Requested(c, sid, f)'
    BY <1>1 DEF Requested
  <1>3. CASE \A s \in DOMAIN subscriptions' :
                s \in DOMAIN subscriptions /\ subscriptions'[s] = subscriptions[s]
    BY <1>2, <1>3 DEF RequestedInv
  <1>4. ASSUME NEW r \in Reqs, AddListenerStart(r)
        PROVE  RequestedInv'
    <2>1. /\ DOMAIN subscriptions' = DOMAIN subscriptions \cup {serial + 1}
          /\ subscriptions'[serial + 1] = NewSub(r)
          /\ \A s \in DOMAIN subscriptions : s # serial + 1 => subscriptions'[s] = subscriptions[s]
      BY <1>4 DEF AddListenerStart, StoreSub, Put
    <2>2. /\ req[r].pc = "listen" /\ req[r].i \in 1..Len(ReqOf[r].filters)
          /\ DOMAIN ReqOf[r].filters = 1..Len(ReqOf[r].filters)
      BY <1>4, ReqAssumption DEF AddListenerStart, OwnershipInv, Types, RelayTypeOK
    <2>3. Requested(NewSub(r).ws, NewSub(r).id, NewSub(r).filter)
      BY <2>2 DEF Requested, NewSub, CurrentFilter
    <2> QED
      BY <1>2, <2>1, <2>3 DEF RequestedInv
  <1>5. CASE UNCHANGED vars
    BY <1>3, <1>5 DEF vars, dvars
  <1>6. ASSUME NEW r \in Reqs, ReqStep(r)
        PROVE  RequestedInv'
    BY <1>3, <1>4, <1>6 DEF ReqStep, ReqStart, RejectFilter, QueryFilter, SendEose,
         AddListenerDone, AddListenerLate, AddListenerIndex, dvars
  <1>7. ASSUME NEW p \in Pubs, PubStep(p)
        PROVE  RequestedInv'
    BY <1>3, <1>7 DEF PubStep, RefuseEvent, DuplicateEvent, AcceptEvent, BroadcastStart,
         BroadcastPhase, ReplyOk, Visit, dvars
  <1>8. ASSUME NEW c \in Conns, ConnStep(c)
        PROVE  RequestedInv'
    BY <1>3, <1>8 DEF ConnStep, Connect, Kill, RemoveClientStart, CloseStart, dvars
  <1>9. CASE LockStep
    BY <1>3, <1>9 DEF LockStep, RemoveDelete, RemoveUnindex, RemoveEnd, DeleteSub, Drop, dvars
  <1> QED
    BY <1>5, <1>6, <1>7, <1>8, <1>9 DEF RelayNext

\* Who asked for an event that is written to c.
Asked(c, sid, e) ==
    \E r \in Reqs : /\ req[r].pc # "idle" /\ ReqOf[r].ws = c /\ ReqOf[r].sid = sid
                    /\ \E i \in DOMAIN ReqOf[r].filters : Matches(ReqOf[r].filters[i], e)

LEMMA WriteAsked ==
    ASSUME IsOut, OnlyRequestedEvents, NEW c \in Conns, NEW msgs, Write(c, msgs),
           \A r \in Reqs : req[r].pc # "idle" => req'[r].pc # "idle",
           \A m \in msgs : m.typ = "EVENT" => Asked(c, m.sid, m.event)
    PROVE  IsOut' /\ OnlyRequestedEvents'
  <1>1. \A d \in Conns : \A m \in out'[d] : m \in out[d] \/ (d = c /\ m \in msgs)
    BY DEF Write, IsOut
  <1>2. \A d, sid, e : Asked(d, sid, e) => Asked(d, sid, e)'
    BY DEF Asked
  <1>3. IsOut'
    BY DEF Write, IsOut
  <1>4. \A d \in Conns : \A m \in out[d] : m.typ = "EVENT" => Asked(d, m.sid, m.event)
    BY DEF OnlyRequestedEvents, Asked
  <1>5. \A d \in Conns : \A m \in out'[d] : m.typ = "EVENT" => Asked(d, m.sid, m.event)'
    BY <1>1, <1>2, <1>4
  <1> QED
    BY <1>3, <1>5 DEF OnlyRequestedEvents, Asked

LEMMA OutStutter ==
    ASSUME IsOut, OnlyRequestedEvents, UNCHANGED out,
           \A r \in Reqs : req[r].pc # "idle" => req'[r].pc # "idle"
    PROVE  IsOut' /\ OnlyRequestedEvents'
  BY DEF IsOut, OnlyRequestedEvents

\* A visited listener that is told of the event has asked for it.
LEMMA VisitedMatches ==
    ASSUME OwnershipInv, IndexInv, PubInv, NEW p \in Pubs, NEW s \in pub[p].todo,
           Qualifies(p, s), Load(s).ws # Nil
    PROVE  /\ s \in DOMAIN subscriptions /\ Load(s) = subscriptions[s]
           /\ Matches(subscriptions[s].filter, PubOf[p].event)
  <1> DEFINE e == PubOf[p].event
             f == subscriptions[s].filter
  <1>1. s \in DOMAIN subscriptions /\ Load(s) = subscriptions[s] /\ Loaded(s) = f
    BY LoadedIsOpen
  <1>2. e.kind \in Kinds /\ FilterMatchesTimestampConstraintsAndTags(f, e)
    BY <1>1, PubAssumption, EventAssumption DEF Qualifies
  <1>3. pub[p].pc \in {"author", "kind", "fallback"} /\ TodoOk(pub[p], e)
    BY DEF PubInv, TodoOk
  <1>4. CASE pub[p].pc = "author"
    <2>1. Listed(f.authors, e.pubkey)
      BY <1>1, <1>3, <1>4 DEF TodoOk
    <2>2. s \in byKind[e.kind] \/ f.kinds = Nil
      BY <1>1, <1>4 DEF Qualifies
    <2>3. f.kinds = Nil \/ Listed(f.kinds, e.kind)
      BY <1>1, <1>2, <2>2 DEF IndexInv, Placed
    <2> QED
      BY <1>1, <1>2, <2>1, <2>3 DEF Matches
  <1>5. CASE pub[p].pc = "kind"
    BY <1>1, <1>2, <1>3, <1>5 DEF Qualifies, TodoOk, Matches
  <1>6. CASE pub[p].pc = "fallback"
    BY <1>1, <1>2, <1>3, <1>6 DEF TodoOk, Catches, Matches
  <1> QED
    BY <1>3, <1>4, <1>5, <1>6

LEMMA StoredStep ==
    ASSUME stored \subseteq Events, [RelayNext]_vars
    PROVE  stored' \subseteq Events
  <1>1. ASSUME NEW p \in Pubs, PubStep(p)
        PROVE  stored' \subseteq Events
    BY <1>1, PubAssumption DEF PubStep, RefuseEvent, DuplicateEvent, AcceptEvent, BroadcastStart,
         BroadcastPhase, ReplyOk, Visit
  <1>2. ASSUME NEW r \in Reqs, ReqStep(r)
        PROVE  UNCHANGED stored
    BY <1>2 DEF ReqStep, ReqStart, RejectFilter, QueryFilter, SendEose, AddListenerDone,
         AddListenerLate, AddListenerStart, AddListenerIndex
  <1> QED
    BY <1>1, <1>2 DEF RelayNext, ConnStep, Connect, Kill, RemoveClientStart, CloseStart, LockStep,
         RemoveDelete, RemoveUnindex, RemoveEnd, vars, svars

LEMMA OutStep ==
    ASSUME OwnershipInv, BroadcastInv, [RelayNext]_vars
    PROVE  IsOut' /\ OnlyRequestedEvents'
  <1>1. \A r \in Reqs : req[r].pc # "idle" => req'[r].pc # "idle"
    BY SerialsAreFresh
  <1> USE DEF BroadcastInv
  <1>2. ASSUME NEW r \in Reqs, ReqStep(r)
        PROVE  IsOut' /\ OnlyRequestedEvents'
    <2>1. CASE RejectFilter(r) \/ SendEose(r)
      <3>1. Write(ReqOf[r].ws, {ReqMsg("CLOSED", r)}) \/ Write(ReqOf[r].ws, {ReqMsg("EOSE", r)})
        BY <2>1 DEF RejectFilter, SendEose
      <3>2. ReqMsg("CLOSED", r).typ # "EVENT" /\ ReqMsg("EOSE", r).typ # "EVENT"
        BY DEF ReqMsg
      <3> QED
        BY <1>1, <3>1, <3>2, WriteAsked, ReqAssumption
    <2>2. CASE QueryFilter(r)
      <3>1. PICK sent \in SUBSET {e \in stored : Matches(CurrentFilter(r), e)} :
               Write(ReqOf[r].ws, {EventMsg(ReqOf[r].sid, e) : e \in sent})
        BY <2>2 DEF QueryFilter
      <3>2. req[r].pc = "filter" /\ req[r].i \in DOMAIN ReqOf[r].filters
        BY <2>2, ReqAssumption DEF QueryFilter, AtFilter, OwnershipInv, Types, RelayTypeOK
      <3>3. \A e \in sent : Asked(ReqOf[r].ws, ReqOf[r].sid, e)
        BY <3>2 DEF Asked, CurrentFilter
      <3>4. \A m \in {EventMsg(ReqOf[r].sid, e) : e \in sent} : Asked(ReqOf[r].ws, m.sid, m.event)
        BY <3>3 DEF EventMsg
      <3> QED
        BY <1>1, <3>1, <3>4, WriteAsked, ReqAssumption
    <2>3. CASE ReqStart(r) \/ AddListenerDone(r) \/ AddListenerLate(r) \/ AddListenerStart(r)
               \/ AddListenerIndex(r)
      BY <1>1, <2>3, OutStutter DEF ReqStart, AddListenerDone, AddListenerLate,
           AddListenerStart, AddListenerIndex
    <2> QED
      BY <1>2, <2>1, <2>2, <2>3 DEF ReqStep
  <1>3. ASSUME NEW p \in Pubs, PubStep(p)
        PROVE  IsOut' /\ OnlyRequestedEvents'
    <2> DEFINE e == PubOf[p].event
    <2>1. CASE ReplyOk(p)
      <3>1. PICK ok : Write(PubOf[p].ws, {OkMsg(p, ok)})
        BY <2>1 DEF ReplyOk
      <3>2. OkMsg(p, ok).typ # "EVENT"
        BY DEF OkMsg
      <3> QED
        BY <1>1, <3>1, <3>2, WriteAsked, PubAssumption
    <2>2. ASSUME NEW s \in pub[p].todo, Visit(p, s)
          PROVE  IsOut' /\ OnlyRequestedEvents'
      <3>1. CASE UNCHANGED out
        BY <1>1, <3>1, OutStutter
      <3>2. CASE Qualifies(p, s) /\ Load(s).ws # Nil /\ Write(Load(s).ws, {EventMsg(Load(s).id, e)})
        <4>1. /\ s \in DOMAIN subscriptions /\ Load(s) = subscriptions[s]
              /\ Matches(subscriptions[s].filter, e)
          BY <3>2, VisitedMatches
        <4>2. Load(s).ws \in Conns
          BY <4>1 DEF OwnershipInv, Types, Subs
        <4>3. Asked(Load(s).ws, Load(s).id, e)
          BY <4>1 DEF RequestedInv, Requested, Asked
        <4>4. EventMsg(Load(s).id, e).sid = Load(s).id /\ EventMsg(Load(s).id, e).event = e
          BY DEF EventMsg
        <4> QED
          BY <1>1, <3>2, <4>2, <4>3, <4>4, WriteAsked
      <3> QED
        BY <2>2, <3>1, <3>2 DEF Visit
    <2>3. CASE RefuseEvent(p) \/ DuplicateEvent(p) \/ AcceptEvent(p) \/ BroadcastStart(p)
               \/ BroadcastPhase(p)
      BY <1>1, <2>3, OutStutter DEF RefuseEvent, DuplicateEvent, AcceptEvent, BroadcastStart,
           BroadcastPhase
    <2> QED
      BY <1>3, <2>1, <2>2, <2>3 DEF PubStep
  <1>4. ASSUME NEW c \in Conns, ConnStep(c)
        PROVE  IsOut' /\ OnlyRequestedEvents'
    BY <1>1, <1>4, OutStutter DEF ConnStep, Connect, Kill, RemoveClientStart, CloseStart
  <1>5. CASE LockStep
    BY <1>1, <1>5, OutStutter DEF LockStep, RemoveDelete, RemoveUnindex, RemoveEnd
  <1>6. CASE UNCHANGED vars
    BY <1>1, <1>6, OutStutter DEF vars, svars
  <1> QED
    BY <1>2, <1>3, <1>4, <1>5, <1>6 DEF RelayNext

LEMMA BroadcastStep ==
    ASSUME OwnershipInv, BroadcastInv, [RelayNext]_vars
    PROVE  BroadcastInv'
  <1>1. PubInv'
    <2>1. CASE UNCHANGED pub
      BY <2>1, BroadcastStutter DEF BroadcastInv
    <2>2. ASSUME NEW r \in Reqs, ReqStep(r)
          PROVE  UNCHANGED pub
      BY <2>2 DEF ReqStep, ReqStart, RejectFilter, QueryFilter, SendEose, AddListenerDone,
           AddListenerLate, AddListenerStart, AddListenerIndex
    <2>3. UNCHANGED pub \/ \E p \in Pubs : PubStep(p)
      BY <2>2 DEF RelayNext, ConnStep, Connect, Kill, RemoveClientStart, CloseStart, LockStep,
           RemoveDelete, RemoveUnindex, RemoveEnd, vars, svars
    <2> QED
      BY <2>1, <2>3, PubStepKeeps DEF BroadcastInv
  <1> QED
    BY <1>1, IndexStep, StoredStep, RequestedStep, OutStep DEF BroadcastInv

LEMMA BroadcastInit == RelayInit => BroadcastInv
  <1> SUFFICES ASSUME RelayInit
               PROVE  BroadcastInv
    OBVIOUS
  <1> USE DEF RelayInit, DispatcherInit
  <1>1. IndexInv
    BY DEF IndexInv, IndexTypes, Placed
  <1>2. PubInv
    <2>1. PubTypes
      BY DEF PubTypes, Broadcasts
    <2> QED
      BY <2>1 DEF PubInv, TodoOk, WroteOk
  <1>3. stored \subseteq Events /\ IsOut /\ OnlyRequestedEvents /\ RequestedInv
    BY DEF IsOut, OnlyRequestedEvents, RequestedInv
  <1> QED
    BY <1>1, <1>2, <1>3 DEF BroadcastInv

\* An EVENT only goes to a connection that has asked for it, under the id it
\* asked with, however broadcasts and removals of listeners race, and for
\* filters with repetitions too.
THEOREM RelayOnlyRequested == RelaySafety => []OnlyRequestedEvents
  <1>1. BroadcastInv => OnlyRequestedEvents
    BY DEF BroadcastInv
  <1>2. OwnershipInv /\ BroadcastInv /\ [RelayNext]_vars => OwnershipInv' /\ BroadcastInv'
    BY OwnershipStep, BroadcastStep
  <1> QED
    BY <1>1, <1>2, OwnershipInit, BroadcastInit, PTL DEF RelaySafety

-----------------------------------------------------------------------------
(* What an open subscription gets *)

\* A spec names the request it was made for.
SpecInv ==
    \A c \in DOMAIN clients : \A spec \in clients[c] :
        /\ spec.req \in Reqs /\ ReqOf[spec.req].ws = c /\ ReqOf[spec.req].sid = spec.sid
        /\ subscriptions[spec.ssid].id = spec.sid

Alive(r) == conn[ReqOf[r].ws] = "open" /\ ~cancelled[r]

\* The filters whose query is over and whose listener, if they get one, is
\* registered.
Passed(r, i) == i < req[r].i /\ req[r].pc # "closed"

ListensFor(r, f) ==
    \E spec \in clients[ReqOf[r].ws] : spec.req = r /\ subscriptions[spec.ssid].filter = f

HasListener ==
    \A r \in Reqs : \A i \in DOMAIN ReqOf[r].filters :
        Alive(r) /\ Passed(r, i) /\ ReqOf[r].filters[i].ids = Nil => ListensFor(r, ReqOf[r].filters[i])

\* The broadcast p has still to come to the indexed listener s.
Coming(p, s) ==
    LET f == subscriptions[s].filter
        here == s \in pub[p].todo
    IN  \/ pub[p].pc = "begin"
        \/ f.authors # Nil /\ pub[p].pc = "author" /\ here /\ (f.kinds # Nil => pub[p].hasKind)
        \/ /\ f.authors = Nil /\ f.kinds # Nil /\ pub[p].hasKind
           /\ pub[p].pc = "author" \/ (pub[p].pc = "kind" /\ here)
        \/ Catches(f) /\ (pub[p].pc \in {"author", "kind"} \/ (pub[p].pc = "fallback" /\ here))

\* What r is to be sent by its filter f, unless the connection is gone.
Wants(r, f, e) ==
    ~f.limitZero /\ f.ids = Nil /\ Matches(f, e) /\ <<ReqOf[r].ws, e>> \notin Prevented

Got(r, e) == e \in excused[r] \/ EventMsg(ReqOf[r].sid, e) \in out[ReqOf[r].ws]

\* Between the query and the registration, what is stored was sent or missed.
WindowInv ==
    \A r \in Reqs : \A e \in stored :
        InWindow(r) /\ Alive(r) /\ Wants(r, CurrentFilter(r), e) => Got(r, e)

\* After the registration, what is stored was sent, missed, or is on its way.
DeliveryInv ==
    \A c \in DOMAIN clients : \A spec \in clients[c] : \A e \in stored :
        Alive(spec.req) /\ Wants(spec.req, subscriptions[spec.ssid].filter, e) =>
            \/ Got(spec.req, e)
            \/ \E p \in Pubs : PubOf[p].event = e /\ Coming(p, spec.ssid)

\* Requests come on connections that are there, and EOSE comes last.
ReqPcInv ==
    \A r \in Reqs : /\ conn[ReqOf[r].ws] = "new" => req[r].pc = "idle"
                    /\ req[r].pc = "idle" => req[r].i = 1
                    /\ req[r].pc = "done" => req[r].i > Len(ReqOf[r].filters)

\* A listener is added for the filter its request is at.
LockReqInv == lock.op = "add" => lock.ws = ReqOf[lock.req].ws
                                 /\ lock.sub.filter = CurrentFilter(lock.req)

ListenInv ==
    /\ cancelled \in [Reqs -> BOOLEAN] /\ excused = [r \in Reqs |-> excused[r]]
    /\ SpecInv /\ HasListener /\ WindowInv /\ DeliveryInv /\ ReqPcInv /\ LockReqInv

\* What was written stays written, what was missed stays missed.
LEMMA GotStays ==
    ASSUME IsOut, excused = [r \in Reqs |-> excused[r]], [RelayNext]_vars
    PROVE  /\ excused' = [q \in Reqs |-> excused'[q]]
           /\ \A r \in Reqs : \A e : Got(r, e) => Got(r, e)'
  <1>1. \A c, msgs : Write(c, msgs) => \A d \in Conns : out[d] \subseteq out'[d]
    BY DEF Write, IsOut
  <1>2. /\ \A d \in Conns : out[d] \subseteq out'[d]
        /\ \A q \in Reqs : excused[q] \subseteq excused'[q]
        /\ excused' = [q \in Reqs |-> excused'[q]]
    <2>1. ASSUME NEW q \in Reqs, ReqStep(q)
          PROVE  <1>2!1 /\ <1>2!2 /\ <1>2!3
      <3>1. CASE QueryFilter(q)
        <4>1. PICK sent, found : /\ Write(ReqOf[q].ws, {EventMsg(ReqOf[q].sid, x) : x \in sent})
                                 /\ excused' = [excused EXCEPT ![q] = @ \cup (found \ sent)]
          BY <3>1 DEF QueryFilter
        <4> QED
          BY <1>1, <4>1
      <3>2. CASE RejectFilter(q) \/ SendEose(q)
        BY <1>1, <3>2 DEF RejectFilter, SendEose
      <3>3. CASE ReqStart(q) \/ AddListenerDone(q) \/ AddListenerLate(q) \/ AddListenerStart(q)
                 \/ AddListenerIndex(q)
        BY <3>3 DEF ReqStart, AddListenerDone, AddListenerLate, AddListenerStart, AddListenerIndex
      <3> QED
        BY <2>1, <3>1, <3>2, <3>3 DEF ReqStep
    <2>2. ASSUME NEW p \in Pubs, PubStep(p)
          PROVE  <1>2!1 /\ <1>2!2 /\ <1>2!3
      <3>1. CASE AcceptEvent(p)
        BY <3>1 DEF AcceptEvent
      <3>2. CASE ReplyOk(p)
        BY <1>1, <3>2 DEF ReplyOk
      <3>3. ASSUME NEW s \in pub[p].todo, Visit(p, s)
            PROVE  <1>2!1 /\ <1>2!2 /\ <1>2!3
        BY <1>1, <3>3 DEF Visit
      <3>4. CASE RefuseEvent(p) \/ DuplicateEvent(p) \/ BroadcastStart(p) \/ BroadcastPhase(p)
        BY <3>4 DEF RefuseEvent, DuplicateEvent, BroadcastStart, BroadcastPhase
      <3> QED
        BY <2>2, <3>1, <3>2, <3>3, <3>4 DEF PubStep
    <2> QED
      BY <2>1, <2>2 DEF RelayNext, ConnStep, Connect, Kill, RemoveClientStart, CloseStart, LockStep,
        RemoveDelete, RemoveUnindex, RemoveEnd, vars, svars
  <1>3. \A r \in Reqs : \A e : Got(r, e) => Got(r, e)'
    BY <1>2, ReqAssumption DEF Got
  <1> QED
    BY <1>2, <1>3

\* A connection that broke does not come back, and a cancelled request is
\* cancelled for good.
LEMMA AliveBefore ==
    ASSUME OwnershipInv, cancelled \in [Reqs -> BOOLEAN], [RelayNext]_vars
    PROVE  /\ cancelled' \in [Reqs -> BOOLEAN]
           /\ \A r \in Reqs : Alive(r)' => conn[ReqOf[r].ws] = "new" \/ Alive(r)
  <1>1. conn \in [Conns -> {"new", "open", "dying", "gone"}] /\ \A r \in Reqs : ReqOf[r].ws \in Conns
    BY ReqAssumption DEF OwnershipInv, Types, RelayTypeOK
  <1>2. ASSUME NEW c \in Conns, ConnStep(c)
        PROVE  /\ cancelled' \in [Reqs -> BOOLEAN] /\ \A r \in Reqs : cancelled[r] => cancelled'[r]
               /\ \A d \in Conns : conn'[d] = "open" => conn[d] \in {"new", "open"}
    BY <1>1, <1>2 DEF ConnStep, Connect, Kill, RemoveClientStart, CloseStart
  <1>3. ASSUME LockStep
        PROVE  /\ cancelled' \in [Reqs -> BOOLEAN] /\ \A r \in Reqs : cancelled[r] => cancelled'[r]
               /\ UNCHANGED conn
    BY <1>3 DEF LockStep, RemoveDelete, RemoveUnindex, RemoveEnd
  <1>4. ASSUME NEW q \in Reqs, ReqStep(q)
        PROVE  /\ cancelled' \in [Reqs -> BOOLEAN] /\ \A r \in Reqs : cancelled[r] => cancelled'[r]
               /\ UNCHANGED conn
    BY <1>4 DEF ReqStep, ReqStart, RejectFilter, QueryFilter, SendEose, AddListenerDone,
         AddListenerLate, AddListenerStart, AddListenerIndex
  <1>5. ASSUME NEW p \in Pubs, PubStep(p)
        PROVE  UNCHANGED <<conn, cancelled>>
    BY <1>5 DEF PubStep, RefuseEvent, DuplicateEvent, AcceptEvent, BroadcastStart, BroadcastPhase,
         ReplyOk, Visit
  <1>6. ASSUME UNCHANGED vars
        PROVE  UNCHANGED <<conn, cancelled>>
    BY <1>6 DEF vars, svars
  <1>7. /\ cancelled' \in [Reqs -> BOOLEAN]
        /\ \A r \in Reqs : cancelled[r] => cancelled'[r]
        /\ \A d \in Conns : conn'[d] = "open" => conn[d] \in {"new", "open"}
    <2>1. CASE UNCHANGED <<conn, cancelled>>
      BY <2>1
    <2> QED
      BY <1>1, <1>2, <1>3, <1>4, <1>5, <1>6, <2>1 DEF RelayNext
  <1>8. ASSUME NEW r \in Reqs, Alive(r)'
        PROVE  conn[ReqOf[r].ws] = "new" \/ Alive(r)
    <2>1. conn'[ReqOf[r].ws] = "open" /\ ~cancelled'[r]
      BY <1>8 DEF Alive
    <2>2. conn[ReqOf[r].ws] \in {"new", "open"} /\ ~cancelled[r]
      BY <1>1, <1>7, <2>1
    <2> QED
      BY <2>2 DEF Alive
  <1> QED
    BY <1>7, <1>8

\* The specs of a step are those from before, of the same listener, and the
\* one that is registered.
LEMMA SpecsBefore ==
    ASSUME OwnershipInv, OwnershipInv', [RelayNext]_vars,
           NEW c \in DOMAIN clients', NEW spec \in clients'[c]
    PROVE  \/ /\ c \in DOMAIN clients /\ spec \in clients[c]
              /\ spec.ssid \in DOMAIN subscriptions /\ spec.ssid \in DOMAIN subscriptions'
              /\ subscriptions'[spec.ssid] = subscriptions[spec.ssid]
           \/ \E r \in Reqs : /\ AddListenerIndex(r) /\ c = lock.ws
                              /\ spec = Spec(lock.ssid, ReqOf[r].sid, r)
  <1>1. ASSUME c \in DOMAIN clients, spec \in clients[c]
        PROVE  /\ spec.ssid \in DOMAIN subscriptions /\ spec.ssid \in DOMAIN subscriptions'
               /\ subscriptions'[spec.ssid] = subscriptions[spec.ssid]
    <2>1. spec.ssid \in DOMAIN subscriptions'
      BY DEF OwnershipInv, Owns
    <2>2. spec.ssid \in DOMAIN subscriptions /\ spec.ssid \in 1..serial
      BY <1>1 DEF OwnershipInv, Owns, Types
    <2> QED
      BY <2>1, <2>2, SerialsAreFresh
  <1>2. CASE c \in DOMAIN clients /\ spec \in clients[c]
    BY <1>1, <1>2
  <1>3. ASSUME NEW r \in Reqs, AddListenerIndex(r)
        PROVE  \/ c \in DOMAIN clients /\ spec \in clients[c]
               \/ c = lock.ws /\ spec = Spec(lock.ssid, ReqOf[r].sid, r)
    BY <1>3 DEF AddListenerIndex
  <1>4. ASSUME NEW r \in Reqs, ReqStep(r), ~AddListenerIndex(r)
        PROVE  UNCHANGED clients
    BY <1>4 DEF ReqStep, ReqStart, RejectFilter, QueryFilter, SendEose, AddListenerDone,
         AddListenerLate, AddListenerStart
  <1>5. ASSUME NEW p \in Pubs, PubStep(p)
        PROVE  UNCHANGED clients
    BY <1>5 DEF PubStep, RefuseEvent, DuplicateEvent, AcceptEvent, BroadcastStart, BroadcastPhase,
         ReplyOk, Visit
  <1>6. ASSUME NEW d \in Conns, ConnStep(d)
        PROVE  c \in DOMAIN clients /\ spec \in clients[c]
    BY <1>6 DEF ConnStep, Connect, Kill, RemoveClientStart, CloseStart, Put
  <1>7. CASE LockStep
    BY <1>2, <1>7 DEF LockStep, RemoveDelete, RemoveUnindex, RemoveEnd, Drop
  <1>8. CASE UNCHANGED vars
    BY <1>2, <1>8 DEF vars, svars
  <1> QED
    BY <1>2, <1>3, <1>4, <1>5, <1>6, <1>7, <1>8 DEF RelayNext

\* The listener of a request that stays alive stays.
LEMMA ListenerStays ==
    ASSUME OwnershipInv, OwnershipInv', ListenInv, [RelayNext]_vars,
           NEW c \in DOMAIN clients, NEW spec \in clients[c], Alive(spec.req), Alive(spec.req)'
    PROVE  /\ c \in DOMAIN clients' /\ spec \in clients'[c]
           /\ subscriptions'[spec.ssid] = subscriptions[spec.ssid]
  <1>1. /\ spec.req \in Reqs /\ ReqOf[spec.req].ws = c /\ conn[c] = "open" /\ conn'[c] = "open"
        /\ ~cancelled[spec.req] /\ ~cancelled'[spec.req] /\ c \in Conns
    BY DEF ListenInv, SpecInv, Alive, OwnershipInv, Types, RelayTypeOK
  <1>2. /\ c \in DOMAIN clients' /\ spec \in clients'[c]
    <2>1. CASE UNCHANGED clients
      BY <2>1
    <2>2. ASSUME NEW r \in Reqs, ReqStep(r)
          PROVE  c \in DOMAIN clients' /\ spec \in clients'[c]
      BY <2>2 DEF ReqStep, ReqStart, RejectFilter, QueryFilter, SendEose, AddListenerDone,
           AddListenerLate, AddListenerStart, AddListenerIndex
    <2>3. ASSUME NEW p \in Pubs, PubStep(p)
          PROVE  UNCHANGED clients
      BY <2>3 DEF PubStep, RefuseEvent, DuplicateEvent, AcceptEvent, BroadcastStart, BroadcastPhase,
           ReplyOk, Visit
    <2>4. ASSUME NEW d \in Conns, ConnStep(d)
          PROVE  c \in DOMAIN clients' /\ spec \in clients'[c]
      BY <1>1, <2>4 DEF ConnStep, Connect, Kill, RemoveClientStart, CloseStart, Put
    <2>5. CASE RemoveDelete
      <3>1. PICK gone \in lock.doomed :
              /\ cancelled' = IF lock.op = "close"
                              THEN [cancelled EXCEPT ![gone.req] = TRUE] ELSE cancelled
              /\ clients' = [clients EXCEPT ![lock.ws] = @ \ {gone}]
              /\ UNCHANGED conn
        BY <2>5 DEF RemoveDelete
      <3>2. /\ lock.op \in {"remove", "close"} /\ lock.ws \in DOMAIN clients
            /\ gone \in clients[lock.ws] /\ (lock.op = "remove" => conn[lock.ws] = "gone")
        BY <2>5 DEF RemoveDelete, OwnershipInv, LockInv
      <3>3. ASSUME spec = gone, c = lock.ws
            PROVE  FALSE
        BY <1>1, <3>1, <3>2, <3>3 DEF ListenInv
      <3> QED
        BY <3>1, <3>2, <3>3
    <2>6. CASE RemoveUnindex \/ RemoveEnd
      BY <1>1, <2>6 DEF RemoveUnindex, RemoveEnd, Drop, OwnershipInv, LockInv
    <2>7. CASE UNCHANGED vars
      BY <2>7 DEF vars, svars
    <2> QED
      BY <2>1, <2>2, <2>3, <2>4, <2>5, <2>6, <2>7 DEF RelayNext, LockStep
  <1>3. spec.ssid \in DOMAIN subscriptions' /\ spec.ssid \in 1..serial
    BY <1>2 DEF OwnershipInv, Owns, Types
  <1> QED
    BY <1>2, <1>3, SerialsAreFresh

LEMMA ReqPcStep ==
    ASSUME OwnershipInv, ReqPcInv, LockReqInv, [RelayNext]_vars
    PROVE  ReqPcInv' /\ LockReqInv'
  <1>1. /\ req \in [Reqs -> [pc : {"idle", "filter", "listen", "index", "done", "closed"},
                             i : Nat \ {0}]]
        /\ conn \in [Conns -> {"new", "open", "dying", "gone"}]
    BY DEF OwnershipInv, Types, RelayTypeOK
  <1>2. \A r \in Reqs : ReqOf[r].ws \in Conns
    BY ReqAssumption
  <1>3. CASE UNCHANGED <<req, conn, lock>>
    BY <1>3 DEF ReqPcInv, LockReqInv, CurrentFilter
  <1>4. ASSUME NEW c \in Conns, ConnStep(c)
        PROVE  ReqPcInv' /\ LockReqInv'
    <2>1. UNCHANGED req /\ \A d \in Conns : conn'[d] = "new" => conn[d] = "new"
      BY <1>1, <1>4 DEF ConnStep, Connect, Kill, RemoveClientStart, CloseStart
    <2>2. UNCHANGED lock \/ lock'.op # "add"
      BY <1>4 DEF ConnStep, Connect, Kill, RemoveClientStart, CloseStart, Free
    <2> QED
      BY <1>2, <2>1, <2>2 DEF ReqPcInv, LockReqInv, CurrentFilter
  <1>5. ASSUME LockStep
        PROVE  ReqPcInv' /\ LockReqInv'
    <2>1. UNCHANGED <<req, conn>>
      BY <1>5 DEF LockStep, RemoveDelete, RemoveUnindex, RemoveEnd
    <2>2. lock'.op # "add"
      <3>1. lock \in Locks
        BY DEF OwnershipInv, Types, RelayTypeOK
      <3>2. CASE RemoveDelete
        BY <3>1, <3>2 DEF RemoveDelete, Locks
      <3>3. CASE RemoveUnindex \/ RemoveEnd
        <4>1. lock.op # "add" /\ (lock' = Free \/ lock' = [lock EXCEPT !.ssid = 0, !.sub = Nil])
          BY <3>3 DEF RemoveUnindex, RemoveEnd
        <4>2. Free.op # "add" /\ [lock EXCEPT !.ssid = 0, !.sub = Nil].op = lock.op
          BY <3>1 DEF Free, Locks
        <4> QED
          BY <4>1, <4>2
      <3> QED
        BY <1>5, <3>2, <3>3 DEF LockStep
    <2> QED
      BY <2>1, <2>2 DEF ReqPcInv, LockReqInv
  \* A goroutine that does not hold the mutex moves.
  <1>6. ASSUME NEW r \in Reqs, UNCHANGED <<conn, lock>>, req[r].pc # "index",
               req[r].pc # "idle" \/ conn[ReqOf[r].ws] = "open",
               NEW pc \in {"filter", "listen", "done", "closed"}, NEW i \in Nat,
               pc = "done" => i > Len(ReqOf[r].filters),
               \A q \in Reqs : req'[q] = IF q = r THEN [pc |-> pc, i |-> i] ELSE req[q]
        PROVE  ReqPcInv' /\ LockReqInv'
    <2>1. ReqPcInv'
      BY <1>6 DEF ReqPcInv
    <2>2. lock.op = "add" => lock.req \in Reqs /\ lock.req # r
      BY <1>6 DEF OwnershipInv, LockInv, Types, RelayTypeOK
    <2>3. LockReqInv'
      BY <1>6, <2>2 DEF LockReqInv, CurrentFilter
    <2> QED
      BY <2>1, <2>3
  <1>7. ASSUME NEW r \in Reqs, ReqStep(r)
        PROVE  ReqPcInv' /\ LockReqInv'
    <2> DEFINE i == req[r].i
    <2>1. req[r] = [pc |-> req[r].pc, i |-> i] /\ i \in Nat /\ i + 1 \in Nat
      BY <1>1
    <2>2. CASE ReqStart(r)
      <3>1. \A q \in Reqs : req'[q] = IF q = r THEN [pc |-> "filter", i |-> i] ELSE req[q]
        BY <1>1, <2>2 DEF ReqStart, Goto
      <3> QED
        BY <1>6, <2>1, <2>2, <3>1 DEF ReqStart
    <2>3. CASE RejectFilter(r)
      <3>1. \A q \in Reqs : req'[q] = IF q = r THEN [pc |-> "closed", i |-> i] ELSE req[q]
        BY <1>1, <2>3 DEF RejectFilter, Goto
      <3> QED
        BY <1>6, <2>1, <2>3, <3>1 DEF RejectFilter, AtFilter
    <2>4. CASE QueryFilter(r) /\ Goto(r, "listen")
      <3>1. \A q \in Reqs : req'[q] = IF q = r THEN [pc |-> "listen", i |-> i] ELSE req[q]
        BY <1>1, <2>4 DEF Goto
      <3> QED
        BY <1>6, <2>1, <2>4, <3>1 DEF QueryFilter, AtFilter
    <2>5. CASE (QueryFilter(r) \/ AddListenerDone(r) \/ AddListenerLate(r)) /\ NextFilter(r)
      <3>1. \A q \in Reqs : req'[q] = IF q = r THEN [pc |-> "filter", i |-> i + 1] ELSE req[q]
        BY <1>1, <2>5 DEF NextFilter
      <3>2. UNCHANGED <<conn, lock>> /\ req[r].pc \in {"filter", "listen"}
        BY <2>5 DEF QueryFilter, AddListenerDone, AddListenerLate, AtFilter
      <3> QED
        BY <1>6, <2>1, <3>1, <3>2
    <2>6. CASE SendEose(r)
      <3>1. \A q \in Reqs : req'[q] = IF q = r THEN [pc |-> "done", i |-> i] ELSE req[q]
        BY <1>1, <2>6 DEF SendEose, Goto
      <3> QED
        BY <1>6, <2>1, <2>6, <3>1 DEF SendEose
    <2>7. CASE AddListenerStart(r)
      <3>1. \A q \in Reqs : req'[q] = IF q = r THEN [pc |-> "index", i |-> i] ELSE req[q]
        BY <1>1, <2>7 DEF AddListenerStart, Goto
      <3>2. /\ req[r].pc = "listen" /\ lock'.req = r /\ lock'.ws = ReqOf[r].ws
            /\ lock'.sub.filter = CurrentFilter(r) /\ UNCHANGED conn
        BY <2>7 DEF AddListenerStart, Free, NewSub
      <3> QED
        BY <3>1, <3>2 DEF ReqPcInv, LockReqInv, CurrentFilter
    <2>8. CASE AddListenerIndex(r)
      <3>1. \A q \in Reqs : req'[q] = IF q = r THEN [pc |-> "filter", i |-> i + 1] ELSE req[q]
        BY <1>1, <2>8 DEF AddListenerIndex, NextFilter
      <3>2. req[r].pc = "index" /\ lock'.op # "add" /\ UNCHANGED conn
        BY <2>8 DEF AddListenerIndex, Free, OwnershipInv, Types, RelayTypeOK
      <3> QED
        BY <3>1, <3>2 DEF ReqPcInv, LockReqInv
    <2>9. QueryFilter(r) => Goto(r, "listen") \/ NextFilter(r)
      BY DEF QueryFilter
    <2> QED
      BY <1>7, <2>2, <2>3, <2>4, <2>5, <2>6, <2>7, <2>8, <2>9
      DEF ReqStep, AddListenerDone, AddListenerLate
  <1>8. ASSUME NEW p \in Pubs, PubStep(p)
        PROVE  UNCHANGED <<req, conn, lock>>
    BY <1>8 DEF PubStep, RefuseEvent, DuplicateEvent, AcceptEvent, BroadcastStart, BroadcastPhase,
         ReplyOk, Visit
  <1>9. CASE UNCHANGED vars
    BY <1>3, <1>9 DEF vars, svars
  <1> QED
    BY <1>3, <1>4, <1>5, <1>7, <1>8, <1>9 DEF RelayNext

\* What a spec that has just been registered is.
LEMMA NewSpec ==
    ASSUME OwnershipInv, LockReqInv, NEW r \in Reqs, AddListenerIndex(r)
    PROVE  LET spec == Spec(lock.ssid, ReqOf[r].sid, r)
           IN  /\ spec.req = r /\ lock.ws = ReqOf[r].ws /\ spec.sid = ReqOf[r].sid
               /\ spec.ssid = lock.ssid /\ spec \in clients'[lock.ws]
               /\ subscriptions'[spec.ssid].id = spec.sid
               /\ subscriptions'[spec.ssid].filter = CurrentFilter(r)
               /\ UNCHANGED <<conn, cancelled, stored>> /\ InWindow(r)
  <1>1. /\ lock.op = "add" /\ lock.req = r /\ UNCHANGED <<subscriptions, conn, cancelled, stored>>
        /\ clients' = [clients EXCEPT ![lock.ws] = @ \cup {Spec(lock.ssid, ReqOf[r].sid, r)}]
    BY DEF AddListenerIndex
  <1>2. /\ lock.ws \in DOMAIN clients /\ subscriptions[lock.ssid] = lock.sub
        /\ lock.sub.id = ReqOf[r].sid /\ req[r].pc = "index"
    BY <1>1 DEF OwnershipInv, LockInv, Types, RelayTypeOK
  <1> QED
    BY <1>1, <1>2 DEF Spec, LockReqInv, InWindow

LEMMA SpecStep ==
    ASSUME OwnershipInv, OwnershipInv', SpecInv, LockReqInv, [RelayNext]_vars
    PROVE  SpecInv'
  <1> SUFFICES ASSUME NEW c \in DOMAIN clients', NEW spec \in clients'[c]
               PROVE  /\ spec.req \in Reqs /\ ReqOf[spec.req].ws = c /\ ReqOf[spec.req].sid = spec.sid
                      /\ subscriptions'[spec.ssid].id = spec.sid
    BY DEF SpecInv
  <1>1. CASE /\ c \in DOMAIN clients /\ spec \in clients[c]
             /\ subscriptions'[spec.ssid] = subscriptions[spec.ssid]
    BY <1>1 DEF SpecInv
  <1>2. ASSUME NEW r \in Reqs, AddListenerIndex(r), c = lock.ws,
               spec = Spec(lock.ssid, ReqOf[r].sid, r)
        PROVE  /\ spec.req \in Reqs /\ ReqOf[spec.req].ws = c /\ ReqOf[spec.req].sid = spec.sid
               /\ subscriptions'[spec.ssid].id = spec.sid
    BY <1>2, NewSpec
  <1> QED
    BY <1>1, <1>2, SpecsBefore

\* A filter is passed without a listener only if the connection is gone or the
\* filter has ids.
LEMMA Passing ==
    ASSUME OwnershipInv, ListenInv, [RelayNext]_vars, NEW r \in Reqs,
           NEW i \in DOMAIN ReqOf[r].filters, Passed(r, i)', ~Passed(r, i), Alive(r),
           ReqOf[r].filters[i].ids = Nil
    PROVE  AddListenerIndex(r) /\ ReqOf[r].filters[i] = CurrentFilter(r)
  <1>1. /\ req \in [Reqs -> [pc : {"idle", "filter", "listen", "index", "done", "closed"},
                             i : Nat \ {0}]]
        /\ i \in Nat
    BY ReqAssumption DEF OwnershipInv, Types, RelayTypeOK
  <1>2. ASSUME ~ReqStep(r)
        PROVE  FALSE
    <2>1. ASSUME NEW q \in Reqs, ReqStep(q), q # r
          PROVE  req'[r] = req[r]
      BY <1>1, <2>1 DEF ReqStep, ReqStart, RejectFilter, QueryFilter, SendEose, AddListenerDone,
           AddListenerLate, AddListenerStart, AddListenerIndex, Goto, NextFilter
    <2>2. ASSUME NEW p \in Pubs, PubStep(p)
          PROVE  UNCHANGED req
      BY <2>2 DEF PubStep, RefuseEvent, DuplicateEvent, AcceptEvent, BroadcastStart, BroadcastPhase,
           ReplyOk, Visit
    <2>3. req'[r] = req[r]
      BY <1>2, <2>1, <2>2 DEF RelayNext, ConnStep, Connect, Kill, RemoveClientStart, CloseStart,
           LockStep, RemoveDelete, RemoveUnindex, RemoveEnd, vars, svars
    <2> QED
      BY <2>3 DEF Passed
  <1>3. CASE ReqStart(r) \/ RejectFilter(r) \/ SendEose(r) \/ AddListenerStart(r)
    BY <1>1, <1>3 DEF ReqStart, RejectFilter, SendEose, AddListenerStart, Goto, Passed, AtFilter
  <1>4. CASE QueryFilter(r)
    <2>1. CASE Goto(r, "listen")
      BY <1>1, <1>4, <2>1 DEF QueryFilter, AtFilter, Goto, Passed
    <2>2. CASE NextFilter(r) /\ CurrentFilter(r).ids # Nil
      <3>1. req[r].pc = "filter" /\ req'[r] = [pc |-> "filter", i |-> req[r].i + 1]
        BY <1>1, <1>4, <2>2 DEF QueryFilter, AtFilter, NextFilter
      <3>2. i = req[r].i
        BY <1>1, <3>1 DEF Passed
      <3> QED
        BY <2>2, <3>2 DEF CurrentFilter
    <2> QED
      BY <1>4, <2>1, <2>2 DEF QueryFilter
  <1>5. CASE AddListenerDone(r) \/ AddListenerLate(r)
    BY <1>5, ReqAssumption DEF AddListenerDone, AddListenerLate, Alive, OwnershipInv, ConnInv
  <1>6. CASE AddListenerIndex(r)
    <2>1. req[r].pc = "index" /\ req'[r] = [pc |-> "filter", i |-> req[r].i + 1]
      BY <1>1, <1>6 DEF AddListenerIndex, NextFilter, OwnershipInv, Types, RelayTypeOK
    <2>2. i = req[r].i
      BY <1>1, <2>1 DEF Passed
    <2> QED
      BY <1>6, <2>2 DEF CurrentFilter
  <1> QED
    BY <1>2, <1>3, <1>4, <1>5, <1>6 DEF ReqStep

LEMMA HasListenerStep ==
    ASSUME OwnershipInv, OwnershipInv', ListenInv, [RelayNext]_vars
    PROVE  HasListener'
  <1> SUFFICES ASSUME NEW r \in Reqs, NEW i \in DOMAIN ReqOf[r].filters, Alive(r)', Passed(r, i)',
                      ReqOf[r].filters[i].ids = Nil
               PROVE  ListensFor(r, ReqOf[r].filters[i])'
    BY DEF HasListener
  <1> DEFINE f == ReqOf[r].filters[i]
             c == ReqOf[r].ws
  <1>1. CASE conn[c] = "new"
    <2>1. req[r].pc = "idle" /\ req[r].i = 1 /\ c \in Conns /\ i \in Nat /\ i >= 1
      BY <1>1, ReqAssumption DEF ListenInv, ReqPcInv
    <2>2. conn'[c] = "open"
      BY DEF Alive
    <2>3. req'[r] = req[r]
      <3>1. ASSUME NEW q \in Reqs, ReqStep(q)
            PROVE  UNCHANGED conn
        BY <3>1 DEF ReqStep, ReqStart, RejectFilter, QueryFilter, SendEose, AddListenerDone,
             AddListenerLate, AddListenerStart, AddListenerIndex
      <3>2. ASSUME NEW p \in Pubs, PubStep(p)
            PROVE  UNCHANGED req
        BY <3>2 DEF PubStep, RefuseEvent, DuplicateEvent, AcceptEvent, BroadcastStart,
             BroadcastPhase, ReplyOk, Visit
      <3> QED
        BY <1>1, <2>2, <3>1, <3>2 DEF RelayNext, ConnStep, Connect, Kill, RemoveClientStart,
             CloseStart, LockStep, RemoveDelete, RemoveUnindex, RemoveEnd, vars, svars
    <2> QED
      BY <2>1, <2>3 DEF Passed
  <1>2. CASE conn[c] # "new"
    <2>1. Alive(r)
      BY <1>2, AliveBefore DEF ListenInv
    <2>2. CASE Passed(r, i)
      <3>1. c \in DOMAIN clients
        BY <2>1, ReqAssumption DEF Alive, OwnershipInv, ConnInv
      <3>2. PICK spec \in clients[c] : spec.req = r /\ subscriptions[spec.ssid].filter = f
        BY <2>1, <2>2 DEF ListenInv, HasListener, ListensFor
      <3>3. spec \in clients'[c] /\ subscriptions'[spec.ssid] = subscriptions[spec.ssid]
        BY <2>1, <3>1, <3>2, ListenerStays
      <3> QED
        BY <3>2, <3>3 DEF ListensFor
    <2>3. CASE ~Passed(r, i)
      <3>1. AddListenerIndex(r) /\ f = CurrentFilter(r)
        BY <2>1, <2>3, Passing
      <3>2. LET spec == Spec(lock.ssid, ReqOf[r].sid, r)
            IN  /\ spec.req = r /\ lock.ws = c /\ spec \in clients'[lock.ws]
                /\ subscriptions'[spec.ssid].filter = CurrentFilter(r)
        BY <3>1, NewSpec DEF ListenInv
      <3> QED
        BY <3>1, <3>2 DEF ListensFor
    <2> QED
      BY <2>2, <2>3
  <1> QED
    BY <1>1, <1>2

\* What the database gains.
LEMMA StoredGains ==
    ASSUME [RelayNext]_vars, NEW e \in stored', e \notin stored
    PROVE  \E p \in Pubs :
              /\ AcceptEvent(p) /\ PubOf[p].event = e /\ ~Ephemeral(e)
              /\ UNCHANGED <<req, conn, cancelled, clients, subscriptions>>
              /\ excused' = [r \in Reqs |-> IF InWindow(r) THEN excused[r] \cup {e} ELSE excused[r]]
  <1>1. ASSUME NEW p \in Pubs, PubStep(p)
        PROVE  AcceptEvent(p)
    BY <1>1 DEF PubStep, RefuseEvent, DuplicateEvent, BroadcastStart, BroadcastPhase, ReplyOk, Visit
  <1>2. ASSUME NEW r \in Reqs, ReqStep(r)
        PROVE  FALSE
    BY <1>2 DEF ReqStep, ReqStart, RejectFilter, QueryFilter, SendEose, AddListenerDone,
         AddListenerLate, AddListenerStart, AddListenerIndex
  <1>3. \E p \in Pubs : AcceptEvent(p)
    BY <1>1, <1>2 DEF RelayNext, ConnStep, Connect, Kill, RemoveClientStart, CloseStart, LockStep,
         RemoveDelete, RemoveUnindex, RemoveEnd, vars, svars
  <1> QED
    BY <1>3 DEF AcceptEvent, dvars

\* A request that enters the window has just queried its filter.
LEMMA EntersWindow ==
    ASSUME OwnershipInv, [RelayNext]_vars, NEW r \in Reqs, InWindow(r)'
    PROVE  \/ InWindow(r) /\ req'[r].i = req[r].i
           \/ QueryFilter(r) /\ Goto(r, "listen") /\ req'[r].i = req[r].i
  <1>1. req \in [Reqs -> [pc : {"idle", "filter", "listen", "index", "done", "closed"},
                          i : Nat \ {0}]]
    BY DEF OwnershipInv, Types, RelayTypeOK
  <1>2. CASE req'[r] = req[r]
    BY <1>2 DEF InWindow
  <1>3. ASSUME NEW q \in Reqs, ReqStep(q), q # r
        PROVE  req'[r] = req[r]
    BY <1>1, <1>3 DEF ReqStep, ReqStart, RejectFilter, QueryFilter, SendEose, AddListenerDone,
         AddListenerLate, AddListenerStart, AddListenerIndex, Goto, NextFilter
  <1>4. ASSUME NEW p \in Pubs, PubStep(p)
        PROVE  UNCHANGED req
    BY <1>4 DEF PubStep, RefuseEvent, DuplicateEvent, AcceptEvent, BroadcastStart, BroadcastPhase,
         ReplyOk, Visit
  <1>5. CASE ReqStep(r)
    <2>1. CASE AddListenerStart(r)
      BY <1>1, <2>1 DEF AddListenerStart, Goto, InWindow
    <2>2. CASE QueryFilter(r)
      <3>1. CASE Goto(r, "listen")
        BY <1>1, <2>2, <3>1 DEF Goto
      <3>2. CASE NextFilter(r)
        BY <1>1, <3>2 DEF NextFilter, InWindow
      <3> QED
        BY <2>2, <3>1, <3>2 DEF QueryFilter
    <2>3. CASE \/ ReqStart(r) \/ RejectFilter(r) \/ SendEose(r) \/ AddListenerDone(r)
               \/ AddListenerLate(r) \/ AddListenerIndex(r)
      BY <1>1, <2>3 DEF ReqStart, RejectFilter, SendEose, AddListenerDone, AddListenerLate,
           AddListenerIndex, Goto, NextFilter, InWindow
    <2> QED
      BY <1>5, <2>1, <2>2, <2>3 DEF ReqStep
  <1>6. req'[r] = req[r] \/ ReqStep(r)
    BY <1>3, <1>4 DEF RelayNext, ConnStep, Connect, Kill, RemoveClientStart, CloseStart,
         LockStep, RemoveDelete, RemoveUnindex, RemoveEnd, vars, svars
  <1> QED
    BY <1>2, <1>5, <1>6

LEMMA WindowStep ==
    ASSUME OwnershipInv, BroadcastInv, ListenInv, [RelayNext]_vars
    PROVE  WindowInv'
  <1> SUFFICES ASSUME NEW r \in Reqs, NEW e \in stored', InWindow(r)', Alive(r)',
                      Wants(r, ReqOf[r].filters[req'[r].i], e)
               PROVE  Got(r, e)'
    BY DEF WindowInv, CurrentFilter, Wants
  <1>1. req[r].pc # "idle" => Alive(r)
    BY AliveBefore DEF ListenInv, ReqPcInv
  <1>2. CASE e \notin stored
    <2>1. PICK p \in Pubs :
            /\ UNCHANGED req
            /\ excused' = [q \in Reqs |-> IF InWindow(q) THEN excused[q] \cup {e} ELSE excused[q]]
      BY <1>2, StoredGains
    <2>2. InWindow(r)
      BY <2>1 DEF InWindow
    <2> QED
      BY <2>1, <2>2 DEF Got
  <1>3. CASE e \in stored /\ InWindow(r) /\ req'[r].i = req[r].i
    <2>1. Got(r, e)
      BY <1>1, <1>3 DEF ListenInv, WindowInv, InWindow, CurrentFilter
    <2> QED
      BY <2>1, GotStays DEF BroadcastInv, ListenInv
  <1>4. CASE e \in stored /\ QueryFilter(r) /\ Goto(r, "listen") /\ req'[r].i = req[r].i
    <2> DEFINE f == CurrentFilter(r)
               c == ReqOf[r].ws
    <2>1. Wants(r, f, e) /\ c \in Conns
      BY <1>4, ReqAssumption DEF CurrentFilter
    <2>2. PICK sent : /\ Write(c, {EventMsg(ReqOf[r].sid, x) : x \in sent})
                      /\ excused' = [excused EXCEPT ![r] = @ \cup
                            ({x \in stored : Matches(f, x) /\ (f.ids = Nil \/ x \in f.ids)} \ sent)]
      BY <1>4, <2>1 DEF QueryFilter, Wants
    <2>3. conn[c] = "open"
      BY <1>1, <1>4 DEF QueryFilter, AtFilter, Alive
    <2>4. e \in sent \/ e \in excused'[r]
      BY <1>4, <2>1, <2>2 DEF Wants, ListenInv
    <2>5. e \in sent => EventMsg(ReqOf[r].sid, e) \in out'[c]
      BY <2>1, <2>2, <2>3 DEF Write, BroadcastInv, IsOut
    <2> QED
      BY <2>4, <2>5 DEF Got
  <1> QED
    BY <1>2, <1>3, <1>4, EntersWindow

\* A broadcast that has still to come to a listener goes on to come to it until
\* it has written to it.
LEMMA ComingStays ==
    ASSUME OwnershipInv, OwnershipInv', BroadcastInv, ListenInv, [RelayNext]_vars,
           NEW c \in DOMAIN clients, NEW spec \in clients[c], NEW p \in Pubs, Coming(p, spec.ssid),
           Alive(spec.req), subscriptions'[spec.ssid] = subscriptions[spec.ssid],
           Wants(spec.req, subscriptions[spec.ssid].filter, PubOf[p].event)
    PROVE  Coming(p, spec.ssid)' \/ Got(spec.req, PubOf[p].event)'
  <1> DEFINE s == spec.ssid
             sub == subscriptions[s]
             f == sub.filter
             e == PubOf[p].event
             b == pub[p]
  <1>1. /\ s \in DOMAIN subscriptions /\ ~BeingAdded(s) /\ sub.ws = c /\ sub.id = spec.sid
        /\ spec.req \in Reqs /\ ReqOf[spec.req].ws = c /\ ReqOf[spec.req].sid = spec.sid
        /\ conn[c] = "open" /\ c \in Conns
    BY DEF OwnershipInv, Owns, ListenInv, SpecInv, Alive, Types, RelayTypeOK
  <1>2. /\ Matches(f, e) /\ <<c, e>> \notin Prevented
        /\ e.kind \in Kinds /\ e.pubkey \in Authors
    BY <1>1, PubAssumption, EventAssumption DEF Wants
  <1>3. /\ f.authors # Nil => s \in byAuthor[e.pubkey]
        /\ f.kinds # Nil => s \in byKind[e.kind]
        /\ Catches(f) => s \in fallback
    BY <1>1, <1>2 DEF Matches, BroadcastInv, IndexInv, Placed
  <1>4. pub \in [Pubs -> Broadcasts]
    BY DEF BroadcastInv, PubInv, PubTypes
  <1>5. CASE pub'[p] = b
    BY <1>5 DEF Coming
  <1>6. ASSUME NEW q \in Pubs, PubStep(q), q # p
        PROVE  pub'[p] = b
    BY <1>4, <1>6 DEF PubStep, RefuseEvent, DuplicateEvent, AcceptEvent, BroadcastStart, BroadcastPhase,
         ReplyOk, Visit, PubGoto
  <1>7. ASSUME NEW r \in Reqs, ReqStep(r)
        PROVE  UNCHANGED pub
    BY <1>7 DEF ReqStep, ReqStart, RejectFilter, QueryFilter, SendEose, AddListenerDone,
         AddListenerLate, AddListenerStart, AddListenerIndex
  <1>8. CASE RefuseEvent(p) \/ DuplicateEvent(p) \/ AcceptEvent(p) \/ ReplyOk(p)
    BY <1>8 DEF RefuseEvent, DuplicateEvent, AcceptEvent, ReplyOk, Coming
  <1>9. CASE BroadcastStart(p)
    <2>1. pub'[p].pc = "author" /\ pub'[p].todo = byAuthor[e.pubkey]
          /\ pub'[p].hasKind = (byKind[e.kind] # {})
      BY <1>4, <1>9 DEF BroadcastStart, Broadcasts
    <2> QED
      BY <1>3, <2>1 DEF Coming, Catches
  <1>10. CASE BroadcastPhase(p)
    <2>1. b.todo = {} /\ b.pc \in {"author", "kind", "fallback"} /\ pub'[p].hasKind = b.hasKind
      BY <1>4, <1>10 DEF BroadcastPhase, Broadcasts
    <2>2. CASE b.pc = "author"
      <3>1. pub'[p].pc = "kind" /\ pub'[p].todo = IF b.hasKind THEN byKind[e.kind] ELSE {}
        BY <1>4, <1>10, <2>2 DEF BroadcastPhase, Broadcasts
      <3> QED
        BY <1>3, <2>1, <2>2, <3>1 DEF Coming, Catches
    <2>3. CASE b.pc = "kind"
      <3>1. pub'[p].pc = "fallback" /\ pub'[p].todo = fallback
        BY <1>4, <1>10, <2>3 DEF BroadcastPhase, Broadcasts
      <3> QED
        BY <1>3, <2>1, <2>3, <3>1 DEF Coming, Catches
    <2>4. CASE b.pc = "fallback"
      BY <2>1, <2>4 DEF Coming
    <2> QED
      BY <2>1, <2>2, <2>3, <2>4
  <1>11. ASSUME NEW t \in b.todo, Visit(p, t)
         PROVE  Coming(p, s)' \/ Got(spec.req, e)'
    <2>1. pub'[p].pc = b.pc /\ pub'[p].todo = b.todo \ {t} /\ pub'[p].hasKind = b.hasKind
      BY <1>4, <1>11 DEF Visit, Broadcasts
    <2>2. CASE t # s \/ Coming(p, s)'
      BY <2>1, <2>2 DEF Coming
    <2>3. CASE t = s /\ ~Coming(p, s)'
      <3>1. /\ Load(s) = sub /\ Loaded(s) = f
        BY <1>1 DEF Load, Loaded
      <3>2. \/ f.authors # Nil /\ b.pc = "author" /\ (f.kinds # Nil => b.hasKind)
            \/ f.authors = Nil /\ f.kinds # Nil /\ b.pc = "kind"
            \/ Catches(f) /\ b.pc = "fallback"
        <4>1. b.pc # "begin"
          BY <1>11 DEF BroadcastInv, PubInv, TodoOk
        <4> QED
          BY <2>1, <2>3, <4>1 DEF Coming
      <3>3. FilterMatchesTimestampConstraintsAndTags(f, e)
        BY <1>2 DEF Matches
      <3>4. Qualifies(p, s)
        BY <1>3, <3>1, <3>2, <3>3 DEF Qualifies, Catches
      <3>5. c # Nil /\ Write(c, {EventMsg(spec.sid, e)})
        BY <1>1, <1>2, <1>11, <2>3, <3>1, <3>4, ConnAssumption DEF Visit
      <3>6. EventMsg(spec.sid, e) \in out'[c]
        BY <1>1, <3>5 DEF Write, BroadcastInv, IsOut
      <3> QED
        BY <1>1, <3>6 DEF Got
    <2> QED
      BY <2>2, <2>3
  <1> QED
    <2>1. pub'[p] = b \/ PubStep(p)
      BY <1>6, <1>7 DEF RelayNext, ConnStep, Connect, Kill, RemoveClientStart, CloseStart,
         LockStep, RemoveDelete, RemoveUnindex, RemoveEnd, vars, svars
    <2> QED
      BY <2>1, <1>5, <1>8, <1>9, <1>10, <1>11 DEF PubStep

LEMMA DeliveryStep ==
    ASSUME OwnershipInv, OwnershipInv', BroadcastInv, ListenInv, [RelayNext]_vars
    PROVE  DeliveryInv'
  <1> SUFFICES ASSUME NEW c \in DOMAIN clients', NEW spec \in clients'[c], NEW e \in stored',
                      Alive(spec.req)', Wants(spec.req, subscriptions'[spec.ssid].filter, e)
               PROVE  \/ Got(spec.req, e)'
                      \/ \E p \in Pubs : PubOf[p].event = e /\ Coming(p, spec.ssid)'
    BY DEF DeliveryInv, Wants
  <1>1. CASE /\ c \in DOMAIN clients /\ spec \in clients[c]
             /\ subscriptions'[spec.ssid] = subscriptions[spec.ssid]
    <2>1. /\ spec.req \in Reqs /\ ReqOf[spec.req].ws = c /\ c \in Conns
      BY <1>1 DEF ListenInv, SpecInv, OwnershipInv, Types, RelayTypeOK
    <2>2. Alive(spec.req)
      BY <1>1, <2>1, AliveBefore DEF ListenInv, OwnershipInv, ConnInv
    <2>3. CASE e \notin stored
      <3>1. PICK p \in Pubs : AcceptEvent(p) /\ PubOf[p].event = e /\ ~Ephemeral(e)
        BY <2>3, StoredGains
      <3>2. pub'[p].pc = "begin"
        BY <3>1 DEF AcceptEvent, PubGoto, BroadcastInv, PubInv, PubTypes, Broadcasts
      <3> QED
        BY <3>1, <3>2 DEF Coming
    <2>4. CASE e \in stored
      <3>1. CASE Got(spec.req, e)
        BY <2>1, <3>1, GotStays DEF BroadcastInv, ListenInv
      <3>2. ASSUME NEW p \in Pubs, PubOf[p].event = e, Coming(p, spec.ssid)
            PROVE  Coming(p, spec.ssid)' \/ Got(spec.req, e)'
        BY <1>1, <2>2, <3>2, ComingStays
      <3> QED
        BY <1>1, <2>2, <2>4, <3>1, <3>2 DEF ListenInv, DeliveryInv
    <2> QED
      BY <2>3, <2>4
  <1>2. ASSUME NEW r \in Reqs, AddListenerIndex(r), c = lock.ws,
               spec = Spec(lock.ssid, ReqOf[r].sid, r)
        PROVE  Got(spec.req, e)'
    <2>1. /\ spec.req = r /\ UNCHANGED <<conn, cancelled, stored>> /\ InWindow(r)
          /\ subscriptions'[spec.ssid].filter = CurrentFilter(r)
      BY <1>2, NewSpec DEF ListenInv
    <2>2. Alive(r)
      BY <2>1 DEF Alive
    <2>3. Got(r, e)
      BY <2>1, <2>2 DEF ListenInv, WindowInv
    <2> QED
      BY <2>1, <2>3, GotStays DEF BroadcastInv, ListenInv
  <1> QED
    BY <1>1, <1>2, SpecsBefore

LEMMA ListenStep ==
    ASSUME OwnershipInv, OwnershipInv', BroadcastInv, ListenInv, [RelayNext]_vars
    PROVE  ListenInv'
  <1>1. /\ cancelled' \in [Reqs -> BOOLEAN]
        /\ SpecInv' /\ HasListener' /\ WindowInv' /\ DeliveryInv' /\ ReqPcInv' /\ LockReqInv'
    BY AliveBefore, SpecStep, HasListenerStep, WindowStep, DeliveryStep, ReqPcStep DEF ListenInv
  <1>2. excused' = [r \in Reqs |-> excused'[r]]
    BY GotStays DEF BroadcastInv, ListenInv
  <1> QED
    BY <1>1, <1>2 DEF ListenInv

LEMMA ListenInit == RelayInit => ListenInv
  <1> SUFFICES ASSUME RelayInit
               PROVE  ListenInv
    OBVIOUS
  <1>1. /\ \A r \in Reqs : req[r] = [pc |-> "idle", i |-> 1]
        /\ DOMAIN clients = {} /\ stored = {} /\ lock.op = "free"
        /\ cancelled \in [Reqs -> BOOLEAN] /\ excused = [r \in Reqs |-> excused[r]]
    BY DEF RelayInit, Free
  <1>2. HasListener
    <2>1. \A r \in Reqs : \A i \in DOMAIN ReqOf[r].filters : ~Passed(r, i)
      BY <1>1, ReqAssumption DEF Passed
    <2> QED
      BY <2>1 DEF HasListener
  <1> QED
    BY <1>1, <1>2 DEF ListenInv, SpecInv, WindowInv, DeliveryInv, ReqPcInv, LockReqInv

\* What the invariants give when everything has come to rest.
LEMMA NothingMissed ==
    ASSUME OwnershipInv, BroadcastInv, ListenInv
    PROVE  EachEventOnce
  <1>1. NotifiedOnce
    BY DEF BroadcastInv, PubInv, WroteOk, NotifiedOnce
  <1>2. ASSUME NEW r \in Reqs, NEW i \in DOMAIN ReqOf[r].filters, NEW p \in Pubs,
               req[r].pc = "done", conn[ReqOf[r].ws] = "open", ~cancelled[r],
               ~ReqOf[r].filters[i].limitZero, ReqOf[r].filters[i].ids = Nil,
               Matches(ReqOf[r].filters[i], PubOf[p].event),
               <<ReqOf[r].ws, PubOf[p].event>> \notin Prevented, PubOf[p].event \in stored,
               \A q \in Pubs : PubOf[q].event = PubOf[p].event => pub[q].pc \in {"idle", "done"}
        PROVE  Got(r, PubOf[p].event)
    <2> DEFINE f == ReqOf[r].filters[i]
               c == ReqOf[r].ws
               e == PubOf[p].event
    <2>1. Alive(r) /\ Wants(r, f, e) /\ c \in DOMAIN clients
      BY <1>2, ReqAssumption DEF Alive, Wants, OwnershipInv, ConnInv
    <2>2. Passed(r, i)
      <3>1. i \in 1..Len(ReqOf[r].filters) /\ req[r].i \in Nat /\ Len(ReqOf[r].filters) \in Nat
        BY ReqAssumption DEF OwnershipInv, Types, RelayTypeOK
      <3> QED
        BY <1>2, <3>1 DEF Passed, ListenInv, ReqPcInv
    <2>3. PICK spec \in clients[c] : spec.req = r /\ subscriptions[spec.ssid].filter = f
      BY <1>2, <2>1, <2>2 DEF ListenInv, HasListener, ListensFor
    <2>4. Got(r, e) \/ \E q \in Pubs : PubOf[q].event = e /\ Coming(q, spec.ssid)
      BY <1>2, <2>1, <2>3 DEF ListenInv, DeliveryInv
    <2> QED
      BY <1>2, <2>4 DEF Coming
  <1>3. NoEventMissed
    BY <1>2 DEF NoEventMissed, Got
  <1> QED
    BY <1>1, <1>3 DEF EachEventOnce

\* An open subscription gets every stored event it asked for, unless it fell
\* between its query and its listener, and no broadcast twice, whatever the
\* number of connections, requests and publications and however they race.
THEOREM RelayDeliversOnce == RelaySafety => []EachEventOnce
  <1>1. OwnershipInv /\ BroadcastInv /\ ListenInv /\ [RelayNext]_vars
        => OwnershipInv' /\ BroadcastInv' /\ ListenInv'
    BY OwnershipStep, BroadcastStep, ListenStep
  <1>2. OwnershipInv /\ BroadcastInv /\ ListenInv => EachEventOnce
    BY NothingMissed
  <1> QED
    BY <1>1, <1>2, OwnershipInit, BroadcastInit, ListenInit, PTL DEF RelaySafety
=============================================================================
