----------------------------- MODULE RelayServer -----------------------------
(***************************************************************************)
(* The relay server (relay/handlers.go, responding.go, listener.go,        *)
(* adding.go): connections come and go, every message of a connection is   *)
(* handled by a goroutine of its own, listeners are registered and removed *)
(* under clientsMutex, and events are broadcast to them without it.        *)
(*                                                                         *)
(* Steps.  A REQ goroutine answers its filters one by one and registers a  *)
(* listener after each.  The holder of clientsMutex changes the map of     *)
(* subscriptions and the indexes in two steps, between which a broadcast   *)
(* may look.  A broadcast takes the set of candidates of each of its three *)
(* loops when the loop starts and visits them one at a time.               *)
(***************************************************************************)
EXTENDS Dispatcher, FiniteSets

CONSTANTS
    Reqs, ReqOf,       \* REQ messages, each with its ws, sid and filters
    Pubs, PubOf,       \* EVENT messages, each with its ws and event
    EphemeralKinds,    \* kinds that are broadcast and not stored
    Prevented          \* <<ws, event>> pairs the PreventBroadcast hook refuses

ASSUME ReqAssumption ==
    \A r \in Reqs : /\ ReqOf[r].ws \in Conns
                    /\ ReqOf[r].sid \in SubIds
                    /\ ReqOf[r].filters \in Seq(Filters)

ASSUME PubAssumption == \A p \in Pubs : PubOf[p].ws \in Conns /\ PubOf[p].event \in Events

ASSUME ConnAssumption == Nil \notin Conns /\ Nil \notin Reqs

VARIABLES
    conn,       \* connection -> new | open | dying | gone
    clients,    \* connection -> its listenerSpecs, for the connections in the map
    lock,       \* what the holder of clientsMutex is doing
    req,        \* REQ goroutine -> where it is and which filter it is at
    cancelled,  \* REQ goroutine -> is its context cancelled
    stored,     \* events in the database
    pub,        \* EVENT goroutine -> where it is in its broadcast
    out,        \* connection -> messages written to it
    excused     \* history: REQ -> stored events its query may have missed

svars == <<conn, clients, lock, req, cancelled, stored, pub, out, excused>>
vars == <<dvars, svars>>

Free == [op |-> "free", ws |-> Nil, req |-> Nil, ssid |-> 0, sub |-> Nil,
         doomed |-> {}]

Spec(ssid, sid, r) == [ssid |-> ssid, sid |-> sid, req |-> r]

\* WriteJSON on a closed connection fails and nobody looks at the error.
Write(c, msgs) == out' = [out EXCEPT ![c] = IF conn[c] = "open" THEN @ \cup msgs ELSE @]

EventMsg(sid, e) == [typ |-> "EVENT", sid |-> sid, event |-> e]
ReqMsg(typ, r) == [typ |-> typ, sid |-> ReqOf[r].sid, req |-> r]
OkMsg(p, ok) == [typ |-> "OK", pub |-> p, ok |-> ok]

-----------------------------------------------------------------------------
(* Connections *)

\* HandleWebsocket
Connect(c) ==
    /\ conn[c] = "new" /\ lock = Free
    /\ conn' = [conn EXCEPT ![c] = "open"]
    /\ clients' = Put(clients, c, {})
    /\ UNCHANGED <<dvars, lock, req, cancelled, stored, pub, out, excused>>

\* kill: the read loop or the ping loop ended. The contexts are cancelled and
\* the connection is closed before the mutex is asked for.
Kill(c) ==
    /\ conn[c] = "open"
    /\ conn' = [conn EXCEPT ![c] = "dying"]
    /\ cancelled' = [r \in Reqs |-> cancelled[r] \/ ReqOf[r].ws = c]
    /\ UNCHANGED <<dvars, clients, lock, req, stored, pub, out, excused>>

\* removeClientAndListeners gets the mutex.
RemoveClientStart(c) ==
    /\ conn[c] = "dying" /\ lock = Free
    /\ conn' = [conn EXCEPT ![c] = "gone"]
    /\ lock' = [Free EXCEPT !.op = "remove", !.ws = c, !.doomed = clients[c]]
    /\ UNCHANGED <<dvars, clients, req, cancelled, stored, pub, out, excused>>

\* A CLOSE message: removeListenerId gets the mutex. Without a listener of
\* that id it changes nothing.
CloseStart(c, sid) ==
    /\ conn[c] # "new" /\ lock = Free /\ c \in DOMAIN clients
    /\ \E spec \in clients[c] : spec.sid = sid
    /\ lock' = [Free EXCEPT !.op = "close", !.ws = c,
                            !.doomed = {spec \in clients[c] : spec.sid = sid}]
    /\ UNCHANGED <<dvars, conn, clients, req, cancelled, stored, pub, out, excused>>

\* removeSubscription, first half; removeListenerId has just cancelled the
\* context of the request. The specs are walked in the order of the slice,
\* which is that of the serial numbers.
RemoveDelete ==
    /\ lock.op \in {"remove", "close"} /\ lock.ssid = 0
    /\ \E spec \in lock.doomed :
          /\ \A other \in lock.doomed : spec.ssid <= other.ssid
          /\ cancelled' = IF lock.op = "close"
                          THEN [cancelled EXCEPT ![spec.req] = TRUE] ELSE cancelled
          /\ IF spec.ssid \in DOMAIN subscriptions
             THEN /\ lock' = [lock EXCEPT !.ssid = spec.ssid, !.doomed = @ \ {spec},
                                          !.sub = subscriptions[spec.ssid]]
                  /\ DeleteSub(spec.ssid)
             ELSE /\ lock' = [lock EXCEPT !.doomed = @ \ {spec}]
                  /\ UNCHANGED <<serial, subscriptions>>
          /\ clients' = [clients EXCEPT ![lock.ws] = @ \ {spec}]
    /\ UNCHANGED <<byAuthor, byKind, fallback, conn, req, stored, pub, out, excused>>

\* Mutant: removeSubscription walks only the authors of the filter.
RemoveUnindexAuthors ==
    /\ lock.op \in {"remove", "close"} /\ lock.ssid # 0
    /\ byAuthor' = IndexRemove(byAuthor, lock.sub.filter.authors, lock.ssid)
    /\ lock' = [lock EXCEPT !.ssid = 0, !.sub = Nil]
    /\ UNCHANGED <<serial, subscriptions, byKind, fallback, conn, clients, req, cancelled,
                   stored, pub, out, excused>>

\* removeSubscription, second half.
RemoveUnindex ==
    /\ lock.op \in {"remove", "close"} /\ lock.ssid # 0
    /\ Unindex(lock.sub.filter, lock.ssid)
    /\ lock' = [lock EXCEPT !.ssid = 0, !.sub = Nil]
    /\ UNCHANGED <<serial, subscriptions, conn, clients, req, cancelled, stored, pub, out, excused>>

\* Mutant: the mutex is released by removeClientAndListeners only.
RemoveEndNoUnlock ==
    /\ lock.op \in {"remove", "close"} /\ lock.ssid = 0 /\ lock.doomed = {}
    /\ clients' = IF lock.op = "close" THEN clients ELSE Drop(clients, lock.ws)
    /\ lock' = IF lock.op = "close" THEN lock ELSE Free
    /\ UNCHANGED <<dvars, conn, req, cancelled, stored, pub, out, excused>>

\* removeListenerId keeps the connection in the map, removeClientAndListeners
\* takes it out.
RemoveEnd ==
    /\ lock.op \in {"remove", "close"} /\ lock.ssid = 0 /\ lock.doomed = {}
    /\ clients' = IF lock.op = "close" THEN clients ELSE Drop(clients, lock.ws)
    /\ lock' = Free
    /\ UNCHANGED <<dvars, conn, req, cancelled, stored, pub, out, excused>>

-----------------------------------------------------------------------------
(* REQ *)

CurrentFilter(r) == ReqOf[r].filters[req[r].i]
NewSub(r) == [id |-> ReqOf[r].sid, ws |-> ReqOf[r].ws, filter |-> CurrentFilter(r)]
AtFilter(r, pc) == req[r].pc = pc /\ req[r].i <= Len(ReqOf[r].filters)
Goto(r, pc) == req' = [req EXCEPT ![r].pc = pc]
NextFilter(r) == req' = [req EXCEPT ![r] = [pc |-> "filter", i |-> @.i + 1]]

ReqStart(r) ==
    /\ req[r].pc = "idle" /\ conn[ReqOf[r].ws] = "open"
    /\ Goto(r, "filter")
    /\ UNCHANGED <<dvars, conn, clients, lock, cancelled, stored, pub, out, excused>>

\* handleRequest when the OnRequest hook refuses the filter: CLOSED, and the
\* goroutine returns.
RejectFilter(r) ==
    /\ AtFilter(r, "filter")
    /\ Write(ReqOf[r].ws, {ReqMsg("CLOSED", r)})
    /\ cancelled' = [cancelled EXCEPT ![r] = TRUE]
    /\ Goto(r, "closed")
    /\ UNCHANGED <<dvars, conn, clients, lock, stored, pub, excused>>

\* handleRequest when the filter is accepted: the stored events are written,
\* all of them unless the query or a write fails half-way. A filter with ids
\* gets no listener.
QueryFilter(r) ==
    /\ AtFilter(r, "filter")
    /\ LET f == CurrentFilter(r)
           found == IF f.limitZero THEN {}
                    ELSE {e \in stored : Matches(f, e) /\ (f.ids = Nil \/ e \in f.ids)}
       IN  \E sent \in SUBSET found :
             /\ Write(ReqOf[r].ws, {EventMsg(ReqOf[r].sid, e) : e \in sent})
             /\ excused' = [excused EXCEPT ![r] = @ \cup (found \ sent)]
             /\ IF f.ids = Nil THEN Goto(r, "listen") ELSE NextFilter(r)
    /\ UNCHANGED <<dvars, conn, clients, lock, cancelled, stored, pub>>

\* addListener waits for the mutex or for the end of the connection.
AddListenerDone(r) ==
    /\ req[r].pc = "listen" /\ conn[ReqOf[r].ws] # "open"
    /\ NextFilter(r)
    /\ UNCHANGED <<dvars, conn, clients, lock, cancelled, stored, pub, out, excused>>

\* addListener has the mutex but the connection has left the map.
AddListenerLate(r) ==
    /\ req[r].pc = "listen" /\ lock = Free /\ ReqOf[r].ws \notin DOMAIN clients
    /\ NextFilter(r)
    /\ UNCHANGED <<dvars, conn, clients, lock, cancelled, stored, pub, out, excused>>

AddListenerStart(r) ==
    /\ req[r].pc = "listen" /\ lock = Free /\ ReqOf[r].ws \in DOMAIN clients
    /\ StoreSub(NewSub(r))
    /\ lock' = [Free EXCEPT !.op = "add", !.ws = ReqOf[r].ws, !.req = r, !.ssid = serial + 1,
                            !.sub = NewSub(r)]
    /\ Goto(r, "index")
    /\ UNCHANGED <<byAuthor, byKind, fallback, conn, clients, cancelled, stored, pub, out, excused>>

AddListenerIndex(r) ==
    /\ lock.op = "add" /\ lock.req = r
    /\ IndexSub(lock.sub.filter, lock.ssid)
    /\ clients' = [clients EXCEPT ![lock.ws] = @ \cup {Spec(lock.ssid, ReqOf[r].sid, r)}]
    /\ lock' = Free
    /\ NextFilter(r)
    /\ UNCHANGED <<serial, subscriptions, conn, cancelled, stored, pub, out, excused>>

\* Every filter was handled: EOSE.
SendEose(r) ==
    /\ req[r].pc = "filter" /\ req[r].i > Len(ReqOf[r].filters)
    /\ Write(ReqOf[r].ws, {ReqMsg("EOSE", r)})
    /\ Goto(r, "done")
    /\ UNCHANGED <<dvars, conn, clients, lock, cancelled, stored, pub, excused>>

-----------------------------------------------------------------------------
(* EVENT *)

Ephemeral(e) == e.kind \in EphemeralKinds
PubGoto(p, pc, ok) == pub' = [pub EXCEPT ![p].pc = pc, ![p].ok = ok]

\* The event is refused: a wrong id or signature, a protected event of someone
\* else, the OnEvent hook, or an error of the database.
RefuseEvent(p) ==
    /\ pub[p].pc = "idle" /\ conn[PubOf[p].ws] = "open"
    /\ PubGoto(p, "reply", FALSE)
    /\ UNCHANGED <<dvars, conn, clients, lock, req, cancelled, stored, out, excused>>

\* Mutant: the handler of a duplicate returns without an OK.
DuplicateEventIgnored(p) ==
    /\ pub[p].pc = "idle" /\ conn[PubOf[p].ws] = "open"
    /\ PubOf[p].event \in stored
    /\ PubGoto(p, "ignored", TRUE)
    /\ UNCHANGED <<dvars, conn, clients, lock, req, cancelled, stored, out, excused>>

\* StoreEvent answers ErrDupEvent: accepted, and not broadcast again.
DuplicateEvent(p) ==
    /\ pub[p].pc = "idle" /\ conn[PubOf[p].ws] = "open"
    /\ PubOf[p].event \in stored
    /\ PubGoto(p, "reply", TRUE)
    /\ UNCHANGED <<dvars, conn, clients, lock, req, cancelled, stored, out, excused>>

\* A REQ that has queried its filter and has not registered its listener yet
\* sees the event in neither.
InWindow(r) == req[r].pc \in {"listen", "index"}

AcceptEvent(p) ==
    /\ pub[p].pc = "idle" /\ conn[PubOf[p].ws] = "open"
    /\ PubOf[p].event \notin stored
    /\ IF Ephemeral(PubOf[p].event)
       THEN UNCHANGED <<stored, excused>>
       ELSE /\ stored' = stored \cup {PubOf[p].event}
            /\ excused' = [r \in Reqs |-> IF InWindow(r) THEN excused[r] \cup {PubOf[p].event}
                                                         ELSE excused[r]]
    /\ PubGoto(p, "begin", TRUE)
    /\ UNCHANGED <<dvars, conn, clients, lock, req, cancelled, out>>

\* notifyListeners: candidates looks the two sets up...
BroadcastStart(p) ==
    /\ pub[p].pc = "begin"
    /\ pub' = [pub EXCEPT ![p].pc = "author",
                          ![p].hasKind = byKind[PubOf[p].event.kind] # {},
                          ![p].todo = byAuthor[PubOf[p].event.pubkey]]
    /\ UNCHANGED <<dvars, conn, clients, lock, req, cancelled, stored, out, excused>>

\* ...and walks three lists.
BroadcastPhase(p) ==
    /\ pub[p].pc \in {"author", "kind", "fallback"} /\ pub[p].todo = {}
    /\ pub' = [pub EXCEPT
          ![p].pc = CASE @ = "author" -> "kind" [] @ = "kind" -> "fallback" [] OTHER -> "reply",
          ![p].todo = CASE pub[p].pc = "author" ->
                             IF pub[p].hasKind THEN byKind[PubOf[p].event.kind] ELSE {}
                        [] pub[p].pc = "kind" -> fallback
                        [] OTHER -> {}]
    /\ UNCHANGED <<dvars, conn, clients, lock, req, cancelled, stored, out, excused>>

\* Mutant: the author loop leaves the filters with kinds to the kind loop.
QualifiesNoKinds(p, s) ==
    /\ CASE pub[p].pc = "author" -> Loaded(s).kinds = Nil
         [] pub[p].pc = "kind" -> Loaded(s).authors = Nil
         [] OTHER -> TRUE
    /\ FilterMatchesTimestampConstraintsAndTags(Loaded(s), PubOf[p].event)

\* Mutant: the author loop does not look at the kinds of the filter.
QualifiesAnyKind(p, s) ==
    /\ pub[p].pc = "kind" => Loaded(s).authors = Nil
    /\ FilterMatchesTimestampConstraintsAndTags(Loaded(s), PubOf[p].event)

Qualifies(p, s) ==
    /\ CASE pub[p].pc = "author" -> \/ pub[p].hasKind /\ s \in byKind[PubOf[p].event.kind]
                                    \/ Loaded(s).kinds = Nil
         [] pub[p].pc = "kind" -> Loaded(s).authors = Nil
         [] pub[p].pc = "fallback" -> TRUE
    /\ FilterMatchesTimestampConstraintsAndTags(Loaded(s), PubOf[p].event)

\* One turn of a loop. The subscription is loaded when it is visited; one that
\* has just been removed loads as the zero subscription, whose connection is
\* nil: nothing is written, and it is counted.
Visit(p, s) ==
    LET e == PubOf[p].event
        sub == Load(s)
        notify == Qualifies(p, s) /\ <<sub.ws, e>> \notin Prevented
    IN  /\ s \in pub[p].todo
        /\ pub' = [pub EXCEPT
              ![p].todo = @ \ {s},
              ![p].count = IF notify THEN @ + 1 ELSE @,
              ![p].wrote = IF notify /\ sub.ws # Nil THEN @ \cup {<<pub[p].pc, s>>} ELSE @]
        /\ IF notify /\ sub.ws # Nil THEN Write(sub.ws, {EventMsg(sub.id, e)}) ELSE UNCHANGED out
        /\ UNCHANGED <<dvars, conn, clients, lock, req, cancelled, stored, excused>>

\* The OK message. An ephemeral event nobody was listening for is refused.
ReplyOk(p) ==
    /\ pub[p].pc = "reply"
    /\ Write(PubOf[p].ws,
             {OkMsg(p, pub[p].ok /\ (Ephemeral(PubOf[p].event) => pub[p].count > 0))})
    /\ pub' = [pub EXCEPT ![p].pc = "done"]
    /\ UNCHANGED <<dvars, conn, clients, lock, req, cancelled, stored, excused>>

-----------------------------------------------------------------------------

RelayInit ==
    /\ DispatcherInit
    /\ conn = [c \in Conns |-> "new"]
    /\ clients = [c \in {} |-> {}]
    /\ lock = Free
    /\ req = [r \in Reqs |-> [pc |-> "idle", i |-> 1]]
    /\ cancelled = [r \in Reqs |-> FALSE]
    /\ stored = {}
    /\ pub = [p \in Pubs |-> [pc |-> "idle", ok |-> FALSE, hasKind |-> FALSE, todo |-> {},
                              count |-> 0, wrote |-> {}]]
    /\ out = [c \in Conns |-> {}]
    /\ excused = [r \in Reqs |-> {}]

ReqStep(r) ==
    \/ ReqStart(r) \/ RejectFilter(r) \/ QueryFilter(r) \/ SendEose(r)
    \/ AddListenerDone(r) \/ AddListenerLate(r) \/ AddListenerStart(r) \/ AddListenerIndex(r)

PubStep(p) ==
    \/ RefuseEvent(p) \/ DuplicateEvent(p) \/ AcceptEvent(p) \/ BroadcastStart(p)
    \/ BroadcastPhase(p) \/ ReplyOk(p)
    \/ \E s \in pub[p].todo : Visit(p, s)

ConnStep(c) ==
    \/ Connect(c) \/ Kill(c) \/ RemoveClientStart(c)
    \/ \E sid \in SubIds : CloseStart(c, sid)

LockStep == RemoveDelete \/ RemoveUnindex \/ RemoveEnd

RelayNext ==
    \/ \E r \in Reqs : ReqStep(r)
    \/ \E p \in Pubs : PubStep(p)
    \/ \E c \in Conns : ConnStep(c)
    \/ LockStep

RelaySafety == RelayInit /\ [][RelayNext]_vars

\* Goroutines that can run do run. The mutex is a channel, which serves its
\* waiters in order of arrival, so a goroutine that keeps asking gets it. The
\* environment (messages, disconnections) is not obliged to do anything.
ReqGoesOn(r) == RejectFilter(r) \/ QueryFilter(r) \/ SendEose(r) \/ AddListenerIndex(r)
ReqGetsLock(r) == AddListenerDone(r) \/ AddListenerLate(r) \/ AddListenerStart(r)
PubGoesOn(p) ==
    \/ BroadcastStart(p) \/ BroadcastPhase(p) \/ ReplyOk(p)
    \/ \E s \in pub[p].todo : Visit(p, s)

RelaySpec ==
    /\ RelaySafety
    /\ WF_vars(LockStep)
    /\ \A r \in Reqs : WF_vars(ReqGoesOn(r)) /\ SF_vars(ReqGetsLock(r))
    /\ \A p \in Pubs : WF_vars(PubGoesOn(p))
    /\ \A c \in Conns : SF_vars(RemoveClientStart(c))

-----------------------------------------------------------------------------
(* The dispatcher as the broadcasts see it *)

\* A subscription counts from the moment it is indexed to the moment it is
\* taken out of the indexes.
Indexed ==
    CASE lock.op = "add" -> Drop(subscriptions, lock.ssid)
      [] lock.op # "add" /\ lock.ssid # 0 -> Put(subscriptions, lock.ssid, lock.sub)
      [] OTHER -> subscriptions

IndexedSerial == IF lock.op = "add" THEN serial - 1 ELSE serial

D == INSTANCE Dispatcher WITH subscriptions <- Indexed, serial <- IndexedSerial

-----------------------------------------------------------------------------
(* Properties *)

Specs == [ssid : Ssids, sid : SubIds, req : Reqs]

Locks == [op : {"free", "add", "remove", "close"}, ws : Conns \cup {Nil}, req : Reqs \cup {Nil},
          ssid : Ssids \cup {0}, sub : Subs \cup {Nil}, doomed : SUBSET Specs]

\* The state of the relay around the index holds values of its type, and the
\* goroutine that adds a listener is the one that holds the mutex.
RelayTypeOK ==
    /\ conn \in [Conns -> {"new", "open", "dying", "gone"}]
    /\ DOMAIN clients \subseteq Conns
    /\ \A c \in DOMAIN clients : clients[c] \subseteq Specs
    /\ lock \in Locks
    /\ req \in [Reqs -> [pc : {"idle", "filter", "listen", "index", "done", "closed"},
                         i : Nat \ {0}]]
    /\ \A r \in Reqs : /\ req[r].pc \in {"listen", "index"} => req[r].i <= Len(ReqOf[r].filters)
                       /\ req[r].pc = "index" <=> lock.op = "add" /\ lock.req = r

\* While nobody holds clientsMutex, the dispatcher has a subscription for
\* exactly the specs of the connections in the map, each owned once and with
\* the connection and the id of its owner: a listener never outlives its
\* connection, however REQ, CLOSE and the disconnection race.
OwnedWhenUnlocked ==
    lock = Free =>
        /\ \A s \in DOMAIN subscriptions :
              subscriptions[s].ws \in DOMAIN clients /\ \E spec \in clients[subscriptions[s].ws] :
                  spec.ssid = s /\ spec.sid = subscriptions[s].id
        /\ \A c \in DOMAIN clients : \A spec \in clients[c] :
              /\ spec.ssid \in DOMAIN subscriptions
              /\ subscriptions[spec.ssid].ws = c
              /\ \A other \in clients[c] : other.ssid = spec.ssid => other = spec

\* While nobody holds clientsMutex, the indexes say of the open listeners, and
\* of no other, what their filters say.
IndexExactWhenUnlocked == lock = Free => IndexExact

\* The mutex and the order of the steps under it make the dispatcher a
\* sequential data structure again: whatever REQ, CLOSE and disconnections do at
\* the same time, the indexes go through the steps of DispatcherSpec.
DispatcherIsSequential == D!DispatcherSpec

\* An EVENT reaches a connection only under a subscription id that the
\* connection has sent in a REQ with a filter the event matches, also when
\* the broadcast races with the removal of the listener.
OnlyRequestedEvents ==
    \A c \in Conns : \A m \in out[c] :
        m.typ = "EVENT" =>
            \E r \in Reqs : /\ req[r].pc # "idle" /\ ReqOf[r].ws = c /\ ReqOf[r].sid = m.sid
                            /\ \E i \in DOMAIN ReqOf[r].filters : Matches(ReqOf[r].filters[i], m.event)

\* A broadcast writes to a listener at most once, although the listener may be
\* in the lists of two of the loops and the lists change under them.
NotifiedOnce ==
    \A p \in Pubs : \A y, z \in pub[p].wrote : y[2] = z[2] => y = z

\* After EOSE, as long as the subscription is open, a stored event that matches
\* one of its filters has been sent or is being broadcast, from the database or
\* live, unless the query failed or the event was saved between the query and
\* the registration of the listener.
NoEventMissed ==
    \A r \in Reqs : \A i \in DOMAIN ReqOf[r].filters : \A p \in Pubs :
        LET f == ReqOf[r].filters[i]
            c == ReqOf[r].ws
            e == PubOf[p].event
        IN  (/\ req[r].pc = "done" /\ conn[c] = "open" /\ ~cancelled[r]
             /\ ~f.limitZero /\ f.ids = Nil /\ Matches(f, e) /\ <<c, e>> \notin Prevented
             /\ e \in stored /\ \A q \in Pubs : PubOf[q].event = e => pub[q].pc \in {"idle", "done"})
            => e \in excused[r] \/ EventMsg(ReqOf[r].sid, e) \in out[c]

\* An open subscription gets every event it asked for, and no broadcast twice.
EachEventOnce == NoEventMissed /\ NotifiedOnce

\* Whoever the mutex goes to, the listeners of a connection that broke are
\* removed in the end.
ListenersRemoved ==
    \A c \in Conns : conn[c] = "dying" ~>
        (c \notin DOMAIN clients /\ \A s \in DOMAIN subscriptions : subscriptions[s].ws # c)

\* Every REQ that was taken up ends with EOSE or CLOSED, and every EVENT that
\* was taken up with an OK.
MessagesAnswered ==
    /\ \A r \in Reqs : req[r].pc = "filter" ~> req[r].pc \in {"done", "closed"}
    /\ \A p \in Pubs : pub[p].pc # "idle" ~> pub[p].pc = "done"

(* What a comment of the code says, and the code does not do *)

\* The REQ handler: "fail everything if any filter is rejected".
RejectedReqHasNoListener ==
    \A r \in Reqs : req[r].pc = "closed" /\ lock = Free =>
        \A c \in DOMAIN clients : \A spec \in clients[c] : spec.req # r
=============================================================================
