----------------------------- MODULE RelayStorage -----------------------------
(***************************************************************************)
(* What the relay does with its store (relay/adding.go, deleting.go,       *)
(* expiration.go): goroutines that handle EVENTs save and replace events,  *)
(* deletion requests delete them, and the expiration manager deletes those *)
(* whose time has come.  The store is the one EventStore promises; one of  *)
(* its operations may fail (the bound of the model).                       *)
(***************************************************************************)
EXTENDS EventStore, Sequences

CONSTANTS
    Pubs,           \* goroutines that handle an EVENT
    PubEvent,       \* goroutine -> its event
    Tags,           \* deletion request -> its tags
    Expiration,     \* event -> its expiration, -1 if it has none
    Old,            \* events in the store when the relay starts
    MaxQueryLimit,  \* the limit that UseEventstore gives to queries
    MaxNow,         \* bound: the last second
    None

Deletion == 5
Deletions == {e \in Events : Kind[e] = Deletion}

ASSUME StorageAssumption ==
    /\ PubEvent \in [Pubs -> Events] /\ IsFiniteSet(Pubs)
    /\ Expiration \in [Events -> Int]
    /\ Old \subseteq Events
    /\ MaxQueryLimit \in Nat /\ MaxNow \in Nat
    /\ None \notin Events

\* "e" with an id, "a" with an address, "bad" for an "e" tag that is no id, and
\* "other" for what is skipped.
ASSUME TagAssumption ==
    /\ DOMAIN Tags = Deletions
    /\ \A d \in Deletions : Tags[d] \in Seq([typ : {"e", "a", "bad", "other"}, e : Events])

VARIABLES
    pub,      \* goroutine -> its place, tag, target and whether it deleted something
    answer,   \* goroutine -> none | ok | blocked | error
    heap,     \* event -> its entries in the heap of the expiration manager
    em,       \* the goroutine of the expiration manager
    scanned,  \* initialScanDone
    enabled,  \* rl.expirationManager # nil
    now,
    missed,   \* history: events that the scan left out
    failed    \* history: an operation of the store failed

emVars == <<heap, em, scanned, enabled, missed>>
vars == <<stored, pub, answer, emVars, now, failed>>

Sleeping == [pc |-> "sleep", now |-> 0, id |-> None]
Handling == [pc |-> "start", tag |-> 1, target |-> None, deleted |-> FALSE]

\* em.mu is held from the first to the last step of checkExpiredEvents.
MuFree == em.pc \in {"sleep", "check", "gone"}

IsDeletion(p) == PubEvent[p] \in Deletions
Goto(p, pc) == pub' = [pub EXCEPT ![p].pc = pc]
Answer(p, a) ==
    /\ pub' = [pub EXCEPT ![p].pc = "done"]
    /\ answer' = [answer EXCEPT ![p] = a]
NextTag(p, deleted) ==
    pub' = [pub EXCEPT ![p] = [pc |-> "tags", tag |-> pub[p].tag + 1, target |-> None,
                               deleted |-> pub[p].deleted \/ deleted]]

-----------------------------------------------------------------------------
(* handleNormal *)

\* OnEvent refuses the event.
Reject(p) ==
    /\ pub[p].pc = "start"
    /\ Answer(p, "blocked")
    /\ UNCHANGED <<stored, emVars, now, failed>>

\* The event is saved, or replaces the version that is there, or is older than
\* it, which handleNormal does not notice.
StoreEvent(p) ==
    LET e == PubEvent[p] IN
    /\ pub[p].pc = "start"
    /\ IF IsRegular(Kind[e]) THEN e \notin stored /\ SaveEvent(e) ELSE ReplaceEvent(e)
    /\ Goto(p, "saved")
    /\ UNCHANGED <<answer, emVars, now, failed>>

\* ErrDupEvent is no error; a deletion request is carried out again.
StoreDuplicate(p) ==
    /\ pub[p].pc = "start"
    /\ IsRegular(Kind[PubEvent[p]]) /\ PubEvent[p] \in stored
    /\ IF IsDeletion(p) THEN Goto(p, "tags") /\ UNCHANGED answer ELSE Answer(p, "ok")
    /\ UNCHANGED <<stored, emVars, now, failed>>

\* Mutant: only events that are regular are tracked.
TrackEventRegular(p) ==
    LET e == PubEvent[p] IN
    /\ pub[p].pc = "saved"
    /\ IF enabled /\ Expiration[e] > 0 /\ IsRegular(Kind[e])
       THEN MuFree /\ heap' = [heap EXCEPT ![e] = @ + 1]
       ELSE UNCHANGED heap
    /\ IF IsDeletion(p) THEN Goto(p, "tags") /\ UNCHANGED answer ELSE Answer(p, "ok")
    /\ UNCHANGED <<stored, em, scanned, enabled, missed, now, failed>>

\* OnEventSaved and trackEvent.
TrackEvent(p) ==
    LET e == PubEvent[p] IN
    /\ pub[p].pc = "saved"
    /\ IF enabled /\ Expiration[e] > 0
       THEN MuFree /\ heap' = [heap EXCEPT ![e] = @ + 1]
       ELSE UNCHANGED heap
    /\ IF IsDeletion(p) THEN Goto(p, "tags") /\ UNCHANGED answer ELSE Answer(p, "ok")
    /\ UNCHANGED <<stored, em, scanned, enabled, missed, now, failed>>

-----------------------------------------------------------------------------
(* handleDeleteRequest *)

Tag(p) == Tags[PubEvent[p]][pub[p].tag]
AtTag(p) == pub[p].pc = "tags" /\ pub[p].tag <= Len(Tags[PubEvent[p]])

\* The filter of an "a" tag: the versions at the address of e that are not newer
\* than the request.
AddressFilter(e, d) ==
    [Open EXCEPT !.kinds = {Kind[e]}, !.authors = {Author[e]}, !.ds = {GetD(e)},
                 !.until = CreatedAt[d]]

\* Request -> tag -> the events that the tag names, by their id or address.
Named == [d \in Deletions |-> [i \in DOMAIN Tags[d] |->
    IF Tags[d][i].typ = "e" THEN {Tags[d][i].e}
    ELSE {x \in Events : Matches(AddressFilter(Tags[d][i].e, d), x)}]]

Found(p) == Named[PubEvent[p]][pub[p].tag] \cap stored

\* What the query may yield first.
IsFirst(x, S) == x \in S /\ \A y \in S : CreatedAt[y] <= CreatedAt[x]

SkipTag(p) ==
    /\ AtTag(p) /\ Tag(p).typ = "other"
    /\ NextTag(p, FALSE)
    /\ UNCHANGED <<stored, answer, emVars, now, failed>>

BadTag(p) ==
    /\ AtTag(p) /\ Tag(p).typ = "bad"
    /\ Answer(p, "error")
    /\ UNCHANGED <<stored, emVars, now, failed>>

NoTarget(p) ==
    /\ AtTag(p) /\ Tag(p).typ \in {"e", "a"} /\ Found(p) = {}
    /\ NextTag(p, FALSE)
    /\ UNCHANGED <<stored, answer, emVars, now, failed>>

\* Mutant: the author of the target is not compared.
OwnTargetUnchecked(p, x) ==
    /\ AtTag(p) /\ Tag(p).typ \in {"e", "a"} /\ IsFirst(x, Found(p))
    /\ pub' = [pub EXCEPT ![p] = [pc |-> "delete", tag |-> pub[p].tag, target |-> x,
                                  deleted |-> pub[p].deleted]]
    /\ UNCHANGED <<stored, answer, emVars, now, failed>>

OwnTarget(p, x) ==
    /\ AtTag(p) /\ Tag(p).typ \in {"e", "a"} /\ IsFirst(x, Found(p))
    /\ Author[x] = Author[PubEvent[p]]
    /\ pub' = [pub EXCEPT ![p] = [pc |-> "delete", tag |-> pub[p].tag, target |-> x,
                                  deleted |-> pub[p].deleted]]
    /\ UNCHANGED <<stored, answer, emVars, now, failed>>

\* A target of another author ends the request.
ForeignTarget(p, x) ==
    /\ AtTag(p) /\ Tag(p).typ \in {"e", "a"} /\ IsFirst(x, Found(p))
    /\ Author[x] # Author[PubEvent[p]]
    /\ Answer(p, "blocked")
    /\ UNCHANGED <<stored, emVars, now, failed>>

DeleteTarget(p) ==
    /\ pub[p].pc = "delete"
    /\ DeleteEvent(pub[p].target)
    /\ Goto(p, "untrack")
    /\ UNCHANGED <<answer, emVars, now, failed>>

\* removeEvent takes the first entry of the event out of the heap, if it is there.
Removed(e) == IF heap[e] = 0 THEN heap ELSE [heap EXCEPT ![e] = @ - 1]

UntrackTarget(p) ==
    /\ pub[p].pc = "untrack"
    /\ IF enabled THEN MuFree /\ heap' = Removed(pub[p].target) ELSE UNCHANGED heap
    /\ NextTag(p, TRUE)
    /\ UNCHANGED <<stored, answer, em, scanned, enabled, missed, now, failed>>

\* The store fails to save, to query for a tag or to delete, which ends the handler.
StoreFails(p) ==
    /\ ~failed
    /\ \/ pub[p].pc \in {"start", "delete"}
       \/ AtTag(p) /\ Tag(p).typ \in {"e", "a"}
    /\ Answer(p, "error")
    /\ failed' = TRUE
    /\ UNCHANGED <<stored, emVars, now>>

FinishDeletion(p) ==
    /\ pub[p].pc = "tags" /\ ~AtTag(p)
    /\ Answer(p, IF pub[p].deleted THEN "ok" ELSE "blocked")
    /\ UNCHANGED <<stored, emVars, now, failed>>

-----------------------------------------------------------------------------
(* The expiration manager *)

\* The query of the scan yields the newest events up to its limit.
ScannedSet ==
    {e \in stored : Cardinality({x \in stored : CreatedAt[x] > CreatedAt[e] \/
                                 (CreatedAt[x] = CreatedAt[e] /\ x > e)}) < MaxQueryLimit}

\* The first tick scans the store.
InitialScan ==
    /\ em.pc = "sleep" /\ enabled /\ ~scanned
    /\ heap' = [e \in Events |-> IF e \in ScannedSet /\ Expiration[e] # -1 THEN heap[e] + 1 ELSE heap[e]]
    /\ missed' = stored \ ScannedSet
    /\ scanned' = TRUE
    /\ em' = [em EXCEPT !.pc = "check"]
    /\ UNCHANGED <<stored, pub, answer, enabled, now, failed>>

\* Every tick checks: em.mu is taken and the clock is read.
CheckStart ==
    /\ em.pc = "check" \/ (em.pc = "sleep" /\ enabled /\ scanned)
    /\ em' = [pc |-> "pop", now |-> now, id |-> None]
    /\ UNCHANGED <<stored, pub, answer, heap, scanned, enabled, missed, now, failed>>

InHeap == {e \in Events : heap[e] > 0}
Due(e) == em.now >= Expiration[e]

\* Entries leave the heap by the order of their deadlines.
Pop(e) ==
    /\ em.pc = "pop" /\ e \in InHeap /\ Due(e)
    /\ \A x \in InHeap : Expiration[e] <= Expiration[x]
    /\ heap' = [heap EXCEPT ![e] = @ - 1]
    /\ em' = [pc |-> "expire", now |-> em.now, id |-> e]
    /\ UNCHANGED <<stored, pub, answer, scanned, enabled, missed, now, failed>>

\* The event is deleted, and only then looked up for the callback, which finds
\* it when it was published again meanwhile and is not called otherwise.
ExpireEvent ==
    /\ em.pc = "expire"
    /\ DeleteEvent(em.id)
    /\ em' = [pc |-> "pop", now |-> em.now, id |-> None]
    /\ UNCHANGED <<pub, answer, heap, scanned, enabled, missed, now, failed>>

\* The entry is gone and the event is not tried again.
ExpireFails ==
    /\ em.pc = "expire" /\ ~failed
    /\ em' = [pc |-> "pop", now |-> em.now, id |-> None]
    /\ failed' = TRUE
    /\ UNCHANGED <<stored, pub, answer, heap, scanned, enabled, missed, now>>

\* Mutant: the manager keeps its mutex.
CheckEndHolding ==
    /\ em.pc = "pop" /\ ~\E e \in InHeap : Due(e)
    /\ em' = [em EXCEPT !.pc = IF enabled THEN "held" ELSE "gone"]
    /\ UNCHANGED <<stored, pub, answer, heap, scanned, enabled, missed, now, failed>>

CheckEnd ==
    /\ em.pc = "pop" /\ ~\E e \in InHeap : Due(e)
    /\ em' = IF enabled THEN Sleeping ELSE [Sleeping EXCEPT !.pc = "gone"]
    /\ UNCHANGED <<stored, pub, answer, heap, scanned, enabled, missed, now, failed>>

\* DisableExpirationManager
Disable ==
    /\ enabled
    /\ enabled' = FALSE
    /\ em' = IF em.pc = "sleep" THEN [Sleeping EXCEPT !.pc = "gone"] ELSE em
    /\ UNCHANGED <<stored, pub, answer, heap, scanned, missed, now, failed>>

Clock ==
    /\ now < MaxNow
    /\ now' = now + 1
    /\ UNCHANGED <<stored, pub, answer, emVars, failed>>

-----------------------------------------------------------------------------

Init ==
    /\ stored = Old
    /\ pub = [p \in Pubs |-> Handling]
    /\ answer = [p \in Pubs |-> "none"]
    /\ heap = [e \in Events |-> 0]
    /\ em = Sleeping
    /\ scanned = FALSE
    /\ enabled = TRUE
    /\ now = 0
    /\ missed = {}
    /\ failed = FALSE

Handle(p) ==
    \/ StoreEvent(p) \/ StoreDuplicate(p) \/ TrackEvent(p)
    \/ SkipTag(p) \/ BadTag(p) \/ NoTarget(p)
    \/ \E x \in Events : OwnTarget(p, x) \/ ForeignTarget(p, x)
    \/ DeleteTarget(p) \/ UntrackTarget(p)
    \/ FinishDeletion(p)

Manage ==
    \/ InitialScan \/ CheckStart \/ (\E e \in Events : Pop(e))
    \/ ExpireEvent \/ CheckEnd

Next ==
    \/ \E p \in Pubs : Handle(p) \/ Reject(p) \/ StoreFails(p)
    \/ Manage \/ ExpireFails \/ Disable \/ Clock

SafetySpec == Init /\ [][Next]_vars

\* Goroutines run, the ticker ticks and time passes; a waiter of em.mu gets it
\* in the end.
Fairness ==
    /\ \A p \in Pubs : SF_vars(Handle(p))
    /\ WF_vars(Manage)
    /\ WF_vars(Clock)

Spec == SafetySpec /\ Fairness

-----------------------------------------------------------------------------
(* Properties *)

\* Types of all variables.
TypeOK ==
    /\ StoreTypeOK
    /\ pub \in [Pubs -> [pc : {"start", "saved", "tags", "delete", "untrack", "done"}, tag : Nat \ {0},
                         target : Events \cup {None}, deleted : BOOLEAN]]
    /\ answer \in [Pubs -> {"none", "ok", "blocked", "error"}]
    /\ heap \in [Events -> Nat]
    /\ em \in [pc : {"sleep", "check", "pop", "expire", "gone"},
               now : 0..MaxNow, id : Events \cup {None}]
    /\ scanned \in BOOLEAN /\ enabled \in BOOLEAN /\ failed \in BOOLEAN
    /\ now \in 0..MaxNow
    /\ missed \subseteq Events

\* The deletion requests of its author that name an event.
DeletersOf == [e \in Events |-> {p \in Pubs : IsDeletion(p) /\ Author[PubEvent[p]] = Author[e] /\
    \E i \in DOMAIN Tags[PubEvent[p]] : e \in Named[PubEvent[p]][i]}]

Republished(e) == Cardinality({p \in Pubs : PubEvent[p] = e}) > (IF e \in Old THEN 0 ELSE 1)

BeingTracked(e) == \E p \in Pubs : pub[p].pc = "saved" /\ PubEvent[p] = e

\* Once the store was scanned the expiration manager knows of every event that
\* will expire, whatever was saved, replaced or deleted meanwhile.  It is not so
\* for events beyond the limit of the scan, nor for one that is published again
\* while a request deletes it: removeEvent may take the new entry.
ExpiringIsTracked ==
    scanned /\ enabled =>
      \A e \in stored \ missed : Expiration[e] > now /\ ~(Republished(e) /\ DeletersOf[e] # {}) =>
          heap[e] > 0 \/ BeingTracked(e)

\* An event leaves the store only because it has expired, because its author asked
\* for it, or because a newer version came.
LeavesFor(e) ==
    \/ Expiration[e] # -1 /\ Expiration[e] <= now
    \/ DeletersOf[e] # {}
    \/ \E x \in stored' : e \in Rivals(x) /\ IsOlder(e, x)

OnlyByRight == [][\A e \in stored \ stored' : LeavesFor(e)]_vars

\* An event whose time has come leaves the store, unless the manager was disabled,
\* the store failed, the scan left the event out, or its author asked to delete it too.
Expires ==
    \A e \in Events : Expiration[e] \in 1..MaxNow /\ DeletersOf[e] = {} =>
        (e \in stored ~> e \notin stored \/ ~enabled \/ failed \/ e \in missed)

\* Every EVENT is answered: no handler waits for the manager's mutex for ever.
HandlersReturn == \A p \in Pubs : <>(answer[p] # "none")

\* The manager, which holds its mutex while it calls the store, keeps up: what
\* expires goes, and no handler is left waiting.
ManagerKeepsUp == Expires /\ HandlersReturn
=============================================================================
