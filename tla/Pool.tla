------------------------------- MODULE Pool -------------------------------
(***************************************************************************)
(* The connections of the client's pool (pool.go): EnsureRelay under the   *)
(* lock of the URL, the goroutine that forgets a connection that died,     *)
(* AddToPenaltyBox and the goroutine of StartPenaltyBox, which take no     *)
(* lock.  The maps are xsync maps: one operation on one of them is a step. *)
(***************************************************************************)
EXTENDS Naturals, FiniteSets

CONSTANTS
    Urls,         \* normalised URLs
    LockOf,       \* URL -> the mutex of namedLock its hash selects
    EnsureCalls,  \* calls of EnsureRelay at a time
    ManualSeconds,\* duration given to AddToPenaltyBox
    MaxConns,     \* bound: connections that are dialled
    MaxManual,    \* bound: calls of AddToPenaltyBox
    MaxFailures   \* bound: failed dials

ASSUME PoolBounds ==
    /\ {ManualSeconds, MaxConns, MaxManual, MaxFailures} \subseteq Nat
    /\ Urls \subseteq DOMAIN LockOf /\ "free" \notin EnsureCalls

VARIABLES
    plMap,     \* pool.Relays: URL -> the number of a connection, Absent or Nil
    plConns,   \* the connections dialled so far: [url, up, cleaner]
    plBox,     \* pool.penaltyBox: URL -> [failures, left]
    plLocks,   \* mutex -> the call that holds it, or free
    plCall,    \* call of EnsureRelay -> [pc, url, found, got]
    plSleeper, \* the goroutine of the box: [on, asleep, sleep, next, pending, reading, value]
    plManual,  \* AddToPenaltyBox: [pc, url, calls]
    plRaced,   \* history: URLs whose entry was taken away from a live connection
    plFailed   \* bound: dials that failed

plVars == <<plMap, plConns, plBox, plLocks, plCall, plSleeper, plManual, plRaced, plFailed>>

Absent == 0
Nil == MaxConns + 1
IdleCall == [pc |-> "idle", url |-> "none", found |-> Absent, got |-> 0]
Up(n) == n \in DOMAIN plConns /\ plConns[n].up
SetCall(c, r) == plCall' = [plCall EXCEPT ![c] = r]
Unlock(c) == plLocks' = [plLocks EXCEPT ![LockOf[plCall[c].url]] = "free"]

\* An entry that points to a live connection goes away.
Takes(url) == plRaced' = IF plMap[url] \in DOMAIN plConns /\ Up(plMap[url]) THEN plRaced \cup {url} ELSE plRaced

-----------------------------------------------------------------------------
(* EnsureRelay *)

\* Mutant: the lock of the URL is not waited for.
EnsureLockNot(c, url) ==
    /\ plCall[c].pc = "idle"
    /\ plLocks' = [plLocks EXCEPT ![LockOf[url]] = c]
    /\ SetCall(c, [IdleCall EXCEPT !.pc = "load", !.url = url])
    /\ UNCHANGED <<plMap, plConns, plBox, plSleeper, plManual, plRaced, plFailed>>

EnsureLock(c, url) ==
    /\ plCall[c].pc = "idle" /\ plLocks[LockOf[url]] = "free"
    /\ plLocks' = [plLocks EXCEPT ![LockOf[url]] = c]
    /\ SetCall(c, [IdleCall EXCEPT !.pc = "load", !.url = url])
    /\ UNCHANGED <<plMap, plConns, plBox, plSleeper, plManual, plRaced, plFailed>>

EnsureLoad(c) ==
    /\ plCall[c].pc = "load"
    /\ SetCall(c, [plCall[c] EXCEPT !.found = plMap[plCall[c].url], !.pc = "look"])
    /\ UNCHANGED <<plMap, plConns, plBox, plLocks, plSleeper, plManual, plRaced, plFailed>>

\* A nil is looked up in the box, a connection is used if it is up.
EnsureLook(c) ==
    LET r == plCall[c] IN
    /\ r.pc = "look"
    /\ IF r.found = Nil /\ plSleeper.on /\ plBox[r.url].left > 0
          THEN SetCall(c, IdleCall) /\ Unlock(c)
       ELSE IF r.found \in DOMAIN plConns /\ Up(r.found)
          THEN SetCall(c, IdleCall) /\ Unlock(c)
       ELSE SetCall(c, [r EXCEPT !.pc = "dial"]) /\ UNCHANGED plLocks
    /\ UNCHANGED <<plMap, plConns, plBox, plSleeper, plManual, plRaced, plFailed>>

DialOk(c) ==
    LET n == Cardinality(DOMAIN plConns) + 1 IN
    /\ plCall[c].pc = "dial" /\ n <= MaxConns
    /\ plConns' = [k \in 1..n |-> IF k = n THEN [url |-> plCall[c].url, up |-> TRUE, cleaner |-> "none"]
                                  ELSE plConns[k]]
    /\ SetCall(c, [plCall[c] EXCEPT !.pc = "store", !.got = n])
    /\ UNCHANGED <<plMap, plBox, plLocks, plSleeper, plManual, plRaced, plFailed>>

\* penaltyBox.Compute, if there is a box: one failure more, 30 seconds and a
\* power of two.
DialFails(c) ==
    LET url == plCall[c].url IN
    /\ plCall[c].pc = "dial" /\ plFailed < MaxFailures
    /\ plFailed' = plFailed + 1
    /\ IF plSleeper.on
          THEN /\ plBox' = [plBox EXCEPT ![url] = [failures |-> @.failures + 1, left |-> 30 + 2 ^ (@.failures + 1)]]
               /\ SetCall(c, [plCall[c] EXCEPT !.pc = "storeNil"]) /\ UNCHANGED plLocks
          ELSE SetCall(c, IdleCall) /\ Unlock(c) /\ UNCHANGED plBox
    /\ UNCHANGED <<plMap, plConns, plSleeper, plManual, plRaced>>

StoreNil(c) ==
    /\ plCall[c].pc = "storeNil"
    /\ plMap' = [plMap EXCEPT ![plCall[c].url] = Nil]
    /\ Takes(plCall[c].url)
    /\ SetCall(c, IdleCall) /\ Unlock(c)
    /\ UNCHANGED <<plConns, plBox, plSleeper, plManual, plFailed>>

\* Relays.Store, and the goroutine that waits for the end of the connection.
StoreConn(c) ==
    LET r == plCall[c] IN
    /\ r.pc = "store"
    /\ plMap' = [plMap EXCEPT ![r.url] = r.got]
    /\ Takes(r.url)
    /\ plConns' = [plConns EXCEPT ![r.got].cleaner = "waits"]
    /\ SetCall(c, IdleCall) /\ Unlock(c)
    /\ UNCHANGED <<plBox, plSleeper, plManual, plFailed>>

-----------------------------------------------------------------------------
(* The end of a connection *)

ConnDies(n) ==
    /\ Up(n)
    /\ plConns' = [plConns EXCEPT ![n].up = FALSE]
    /\ UNCHANGED <<plMap, plBox, plLocks, plCall, plSleeper, plManual, plRaced, plFailed>>

\* current == r?
CleanerLooks(n) ==
    /\ n \in DOMAIN plConns /\ ~plConns[n].up /\ plConns[n].cleaner = "waits"
    /\ plConns' = [plConns EXCEPT ![n].cleaner = IF plMap[plConns[n].url] = n THEN "deletes" ELSE "ended"]
    /\ UNCHANGED <<plMap, plBox, plLocks, plCall, plSleeper, plManual, plRaced, plFailed>>

\* Relays.Delete, whatever the entry is by now.
CleanerDeletes(n) ==
    LET url == plConns[n].url IN
    /\ n \in DOMAIN plConns /\ plConns[n].cleaner = "deletes"
    /\ plMap' = [plMap EXCEPT ![url] = Absent]
    /\ Takes(url)
    /\ plConns' = [plConns EXCEPT ![n].cleaner = "ended"]
    /\ UNCHANGED <<plBox, plLocks, plCall, plSleeper, plManual, plFailed>>

-----------------------------------------------------------------------------
(* The penalty box *)

\* AddToPenaltyBox: the box first...
ManualAdd(url) ==
    /\ plSleeper.on /\ plManual.pc = "idle" /\ plManual.calls < MaxManual
    /\ plBox' = [plBox EXCEPT ![url] = [failures |-> 0, left |-> ManualSeconds]]
    /\ plManual' = [pc |-> "mark", url |-> url, calls |-> plManual.calls + 1]
    /\ UNCHANGED <<plMap, plConns, plLocks, plCall, plSleeper, plRaced, plFailed>>

\* ...then the map, without the lock of the URL.
ManualMark ==
    /\ plManual.pc = "mark"
    /\ plMap' = [plMap EXCEPT ![plManual.url] = Nil]
    /\ Takes(plManual.url)
    /\ plManual' = [plManual EXCEPT !.pc = "idle"]
    /\ UNCHANGED <<plConns, plBox, plLocks, plCall, plSleeper, plFailed>>

\* time.After(sleep) fires; what is in the box is walked.
SleeperWakes ==
    /\ plSleeper.on /\ plSleeper.pending = {} /\ plSleeper.reading = "none" /\ plSleeper.asleep
    /\ plSleeper' = [plSleeper EXCEPT !.asleep = FALSE, !.next = 300,
                                      !.pending = {u \in Urls : plBox[u] # [failures |-> 0, left |-> 0]}]
    /\ UNCHANGED <<plMap, plConns, plBox, plLocks, plCall, plManual, plRaced, plFailed>>

\* Range gives the entry of a URL...
SleeperReads(u) ==
    /\ ~plSleeper.asleep /\ plSleeper.reading = "none" /\ u \in plSleeper.pending
    /\ plSleeper' = [plSleeper EXCEPT !.pending = @ \ {u}, !.reading = u, !.value = plBox[u]]
    /\ UNCHANGED <<plMap, plConns, plBox, plLocks, plCall, plManual, plRaced, plFailed>>

\* ...from which the whole sleep is taken off, over what the entry is by now.
SleeperStores ==
    LET s == plSleeper
        left == IF s.value.left <= s.sleep THEN 0 ELSE s.value.left - s.sleep IN
    /\ s.reading # "none"
    /\ plBox' = [plBox EXCEPT ![s.reading] = [failures |-> s.value.failures, left |-> left]]
    /\ plSleeper' = [s EXCEPT !.reading = "none", !.value = [failures |-> 0, left |-> 0],
                              !.next = IF left > 0 /\ left < @ THEN left ELSE @]
    /\ UNCHANGED <<plMap, plConns, plLocks, plCall, plManual, plRaced, plFailed>>

SleeperSleeps ==
    /\ ~plSleeper.asleep /\ plSleeper.reading = "none" /\ plSleeper.pending = {}
    /\ plSleeper' = [plSleeper EXCEPT !.asleep = TRUE, !.sleep = plSleeper.next]
    /\ UNCHANGED <<plMap, plConns, plBox, plLocks, plCall, plManual, plRaced, plFailed>>

-----------------------------------------------------------------------------

\* A pool works without StartPenaltyBox too.
PoolInit ==
    /\ plMap = [u \in Urls |-> Absent] /\ plConns = [n \in {} |-> 0]
    /\ plBox = [u \in Urls |-> [failures |-> 0, left |-> 0]]
    /\ plLocks = [l \in {LockOf[u] : u \in Urls} |-> "free"]
    /\ plCall = [c \in EnsureCalls |-> IdleCall]
    /\ plSleeper \in [on : BOOLEAN, sleep : {30}, next : {30}, pending : {{}}, reading : {"none"},
                       asleep : {TRUE}, value : {[failures |-> 0, left |-> 0]}]
    /\ plManual = [pc |-> "idle", url |-> "none", calls |-> 0]
    /\ plRaced = {} /\ plFailed = 0

EnsureStep(c) ==
    EnsureLoad(c) \/ EnsureLook(c) \/ DialOk(c) \/ DialFails(c) \/ StoreNil(c) \/ StoreConn(c)

SleeperStep ==
    SleeperWakes \/ (\E u \in Urls : SleeperReads(u)) \/ SleeperStores \/ SleeperSleeps

PoolNext ==
    \/ \E c \in EnsureCalls : (\E u \in Urls : EnsureLock(c, u)) \/ EnsureStep(c)
    \/ \E n \in DOMAIN plConns : ConnDies(n) \/ CleanerLooks(n) \/ CleanerDeletes(n)
    \/ (\E u \in Urls : ManualAdd(u)) \/ ManualMark
    \/ SleeperStep

PoolSpec == PoolInit /\ [][PoolNext]_plVars

-----------------------------------------------------------------------------
(* Properties *)

\* Live connections to a URL that the pool knows of or is about to.
Live(u) == {n \in DOMAIN plConns : plConns[n].url = u /\ plConns[n].up}

\* However many calls of EnsureRelay meet, there is one live connection to a
\* URL, and the map has it: unless AddToPenaltyBox or the goroutine of an
\* earlier connection, which take no lock, removed its entry before.
OneConnection ==
    \A u \in Urls \ plRaced :
        /\ Cardinality(Live(u)) <= 1
        /\ \A n \in Live(u) : plMap[u] = n \/ \E c \in EnsureCalls : plCall[c].pc = "store" /\ plCall[c].got = n

(* What a comment of the code says, and the code does not do *)

\* Pool "ensures they are reopened when necessary and not duplicated".
NotDuplicated == \A u \in Urls : Cardinality(Live(u)) <= 1
=============================================================================
