-------------------------- MODULE RelayStorageProofs --------------------------
(***************************************************************************)
(* No event leaves the relay's store without a reason, and none that will  *)
(* expire is forgotten, for any number of events, handlers and requests.   *)
(*                                                                         *)
(* A deletion and an expiration decide in one step and act in a later one, *)
(* with everything else in between.  RequestInv and ExpiryInv say what is  *)
(* still known of the decision when it is carried out, OnceInv why an      *)
(* event is gone for good when a request takes it out of the heap.         *)
(***************************************************************************)
EXTENDS RelayStorage, FiniteSetTheorems, TLAPS

\* A target was named by the request and is its author's.
RequestInv ==
    \A p \in Pubs :
        /\ pub[p].pc \in {"tags", "delete", "untrack"} => IsDeletion(p)
        /\ pub[p].pc \in {"delete", "untrack"} => pub[p].target \in Events
        /\ pub[p].pc \in {"delete", "untrack"} => p \in DeletersOf[pub[p].target]

\* What is in the heap expires, and what was taken from it has expired.
ExpiryInv ==
    /\ em.now <= now
    /\ \A e \in Events : heap[e] > 0 => Expiration[e] # -1
    /\ em.pc = "expire" => /\ em.id \in Events
                           /\ Expiration[em.id] # -1
                           /\ Expiration[em.id] <= em.now

IInv == TypeOK /\ RequestInv /\ ExpiryInv

-----------------------------------------------------------------------------

LEMMA InvInit == Init => IInv
  <1> USE StorageAssumption
  <1> SUFFICES ASSUME Init PROVE IInv
    OBVIOUS
  <1>1. TypeOK
    <2>1. pub \in [Pubs -> [pc : {"start", "saved", "tags", "delete", "untrack", "done"}, tag : Nat \ {0},
                            target : Events \cup {None}, deleted : BOOLEAN]]
      BY DEF Init, Handling
    <2>2. em \in [pc : {"sleep", "check", "pop", "expire", "gone"},
                  now : 0..MaxNow, id : Events \cup {None}]
      BY DEF Init, Sleeping
    <2>3. heap \in [Events -> Nat]
      BY DEF Init
    <2>5. answer \in [Pubs -> {"none", "ok", "blocked", "error"}]
      BY DEF Init
    <2>6. stored \subseteq Events /\ missed \subseteq Events
      BY DEF Init
    <2>4. scanned \in BOOLEAN /\ enabled \in BOOLEAN /\ failed \in BOOLEAN
      BY Zenon DEF Init
    <2>7. now \in 0..MaxNow
      BY DEF Init
    <2> QED
      BY <2>1, <2>2, <2>3, <2>4, <2>5, <2>6, <2>7 DEF TypeOK, StoreTypeOK
  <1>2. RequestInv
    BY DEF Init, RequestInv, Handling
  <1>3. ExpiryInv
    BY DEF Init, ExpiryInv, Sleeping
  <1> QED
    BY <1>1, <1>2, <1>3 DEF IInv

\* The steps of a handler leave its other fields and the other handlers alone.
LEMMA TypeStep == IInv /\ [Next]_vars => TypeOK'
  <1> SUFFICES ASSUME IInv, [Next]_vars PROVE TypeOK'
    OBVIOUS
  <1> USE StorageAssumption DEF IInv, TypeOK, StoreTypeOK
  <1>1. CASE UNCHANGED vars
    BY <1>1 DEF vars, emVars
  <1>2. ASSUME NEW p \in Pubs, Reject(p) \/ StoreFails(p) \/ BadTag(p) \/ FinishDeletion(p)
        PROVE TypeOK'
    <2>1. PICK a \in {"none", "ok", "blocked", "error"} : Answer(p, a)
      BY <1>2 DEF Reject, StoreFails, BadTag, FinishDeletion
    <2>2. failed' \in BOOLEAN
      BY <1>2 DEF Reject, StoreFails, BadTag, FinishDeletion
    <2>3. UNCHANGED <<stored, emVars, now>>
      BY <1>2 DEF Reject, StoreFails, BadTag, FinishDeletion
    <2>4. answer' \in [Pubs -> {"none", "ok", "blocked", "error"}]
      BY <2>1 DEF Answer
    <2>5. pub' \in [Pubs -> [pc : {"start", "saved", "tags", "delete", "untrack", "done"}, tag : Nat \ {0},
                             target : Events \cup {None}, deleted : BOOLEAN]]
      BY <2>1 DEF Answer
    <2> QED
      BY <2>2, <2>3, <2>4, <2>5 DEF emVars
  <1>3. ASSUME NEW p \in Pubs, StoreEvent(p) PROVE TypeOK'
    <2>1. stored' \subseteq Events
      BY <1>3 DEF StoreEvent, SaveEvent, ReplaceEvent
    <2> QED
      BY <1>3, <2>1 DEF StoreEvent, Goto, emVars
  <1>4. ASSUME NEW p \in Pubs, StoreDuplicate(p) PROVE TypeOK'
    <2>1. pub' \in [Pubs -> [pc : {"start", "saved", "tags", "delete", "untrack", "done"}, tag : Nat \ {0},
                             target : Events \cup {None}, deleted : BOOLEAN]]
      BY <1>4 DEF StoreDuplicate, Goto, Answer
    <2>2. answer' \in [Pubs -> {"none", "ok", "blocked", "error"}]
      BY <1>4 DEF StoreDuplicate, Answer
    <2>3. UNCHANGED <<stored, emVars, now, failed>>
      BY <1>4 DEF StoreDuplicate
    <2> QED
      BY <2>1, <2>2, <2>3 DEF emVars
  <1>5. ASSUME NEW p \in Pubs, TrackEvent(p) PROVE TypeOK'
    <2>1. heap' \in [Events -> Nat]
      BY <1>5 DEF TrackEvent
    <2> QED
      BY <1>5, <2>1 DEF TrackEvent, Goto, Answer
  <1>6. ASSUME NEW p \in Pubs, SkipTag(p) \/ NoTarget(p) PROVE TypeOK'
    <2>1. PICK b \in BOOLEAN : NextTag(p, b)
      BY <1>6 DEF SkipTag, NoTarget
    <2>2. pub[p].tag + 1 \in Nat \ {0} /\ (pub[p].deleted \/ b) \in BOOLEAN
      OBVIOUS
    <2>3. UNCHANGED <<stored, answer, emVars, now, failed>>
      BY <1>6 DEF SkipTag, NoTarget
    <2> QED
      BY <2>1, <2>2, <2>3 DEF NextTag, emVars
  <1>7. ASSUME NEW p \in Pubs, NEW x \in Events, OwnTarget(p, x) \/ ForeignTarget(p, x) PROVE TypeOK'
    <2>1. CASE OwnTarget(p, x)
      BY <2>1 DEF OwnTarget, emVars
    <2>2. CASE ForeignTarget(p, x)
      BY <2>2 DEF ForeignTarget, Answer, emVars
    <2> QED
      BY <1>7, <2>1, <2>2
  <1>8. ASSUME NEW p \in Pubs, DeleteTarget(p) PROVE TypeOK'
    BY <1>8 DEF DeleteTarget, DeleteEvent, Goto, emVars
  <1>9. ASSUME NEW p \in Pubs, UntrackTarget(p) PROVE TypeOK'
    <2>1. heap' \in [Events -> Nat]
      <3>1. pub[p].target \in Events
        BY <1>9 DEF UntrackTarget, RequestInv
      <3>2. Removed(pub[p].target) \in [Events -> Nat]
        BY <3>1 DEF Removed
      <3> QED
        BY <1>9, <3>2 DEF UntrackTarget
    <2> QED
      BY <1>9, <2>1 DEF UntrackTarget, NextTag
  <1>10. ASSUME InitialScan PROVE TypeOK'
    BY <1>10 DEF InitialScan
  <1>11. ASSUME CheckStart \/ CheckEnd \/ Disable PROVE TypeOK'
    <2>1. em' \in [pc : {"sleep", "check", "pop", "expire", "gone"},
                   now : 0..MaxNow, id : Events \cup {None}]
      <3>1. CASE CheckStart
        BY <3>1 DEF CheckStart
      <3>2. CASE CheckEnd
        BY <3>2 DEF CheckEnd, Sleeping
      <3>3. CASE Disable
        BY <3>3 DEF Disable, Sleeping
      <3> QED
        BY <1>11, <3>1, <3>2, <3>3
    <2> QED
      BY <1>11, <2>1 DEF CheckStart, CheckEnd, Disable
  <1>12. ASSUME NEW e \in Events, Pop(e) PROVE TypeOK'
    BY <1>12 DEF Pop, InHeap
  <1>13. ASSUME ExpireEvent \/ ExpireFails PROVE TypeOK'
    <2>1. stored' \subseteq Events /\ failed' \in BOOLEAN
      BY <1>13 DEF ExpireEvent, ExpireFails, DeleteEvent
    <2>2. em' = [pc |-> "pop", now |-> em.now, id |-> None]
      BY <1>13 DEF ExpireEvent, ExpireFails
    <2>3. UNCHANGED <<pub, answer, heap, scanned, enabled, missed, now>>
      BY <1>13 DEF ExpireEvent, ExpireFails
    <2> QED
      BY <2>1, <2>2, <2>3
  <1>14. ASSUME Clock PROVE TypeOK'
    BY <1>14 DEF Clock, emVars
  <1> QED
    BY <1>1, <1>2, <1>3, <1>4, <1>5, <1>6, <1>7, <1>8, <1>9, <1>10, <1>11, <1>12, <1>13, <1>14
       DEF Next, Handle, Manage

LEMMA RequestStep == IInv /\ [Next]_vars => RequestInv'
  <1> SUFFICES ASSUME IInv, [Next]_vars, NEW q \in Pubs
               PROVE  /\ pub'[q].pc \in {"tags", "delete", "untrack"} => IsDeletion(q)
                      /\ pub'[q].pc \in {"delete", "untrack"} => pub'[q].target \in Events
                      /\ pub'[q].pc \in {"delete", "untrack"} => q \in DeletersOf[pub'[q].target]
    BY DEF RequestInv, IsDeletion
  <1> USE StorageAssumption DEF IInv, TypeOK, RequestInv
  <1>1. CASE UNCHANGED pub
    BY <1>1
  <1>2. ASSUME NEW p \in Pubs, NEW a, Answer(p, a)
        PROVE  pub'[q] = pub[q] \/ pub'[q].pc = "done"
    BY <1>2 DEF Answer
  <1>3. ASSUME NEW p \in Pubs, StoreEvent(p) PROVE pub'[q] = pub[q] \/ pub'[q].pc = "saved"
    BY <1>3 DEF StoreEvent, Goto
  <1>4. ASSUME NEW p \in Pubs, Goto(p, "tags"), IsDeletion(p)
        PROVE  pub'[q] = pub[q] \/ (pub'[q].pc = "tags" /\ IsDeletion(q))
    BY <1>4 DEF Goto
  <1>5. ASSUME NEW p \in Pubs, NEW b \in BOOLEAN, NextTag(p, b), IsDeletion(p)
        PROVE  pub'[q] = pub[q] \/ (pub'[q].pc = "tags" /\ IsDeletion(q))
    BY <1>5 DEF NextTag
  <1>6. ASSUME NEW p \in Pubs, DeleteTarget(p)
        PROVE  \/ pub'[q] = pub[q]
               \/ /\ pub'[q].pc = "untrack" /\ pub'[q].target \in Events /\ IsDeletion(q)
                  /\ q \in DeletersOf[pub'[q].target]
    BY <1>6 DEF DeleteTarget, Goto
  <1>7. ASSUME NEW p \in Pubs, NEW x \in Events, OwnTarget(p, x)
        PROVE  \/ pub'[q] = pub[q]
               \/ /\ pub'[q].pc = "delete" /\ pub'[q].target = x /\ IsDeletion(q)
                  /\ q \in DeletersOf[x]
    <2>1. IsDeletion(p) /\ Author[x] = Author[PubEvent[p]]
      BY <1>7 DEF OwnTarget, AtTag
    <2>2. p \in DeletersOf[x]
      <3>1. PubEvent[p] \in Deletions /\ Tags[PubEvent[p]] \in Seq([typ : {"e", "a", "bad", "other"}, e : Events])
        BY <2>1, TagAssumption DEF IsDeletion
      <3>2. pub[p].tag <= Len(Tags[PubEvent[p]])
        BY <1>7 DEF OwnTarget, AtTag
      <3>3. pub[p].tag >= 1
        BY <1>7 DEF OwnTarget, AtTag
      <3>4. pub[p].tag \in DOMAIN Tags[PubEvent[p]]
        BY <3>1, <3>2, <3>3
      <3>5. x \in Named[PubEvent[p]][pub[p].tag]
        BY <1>7 DEF OwnTarget, IsFirst, Found
      <3> QED
        BY <2>1, <3>4, <3>5 DEF DeletersOf
    <2>3. pub' = [pub EXCEPT ![p] = [pc |-> "delete", tag |-> pub[p].tag, target |-> x,
                                     deleted |-> pub[p].deleted]]
      BY <1>7 DEF OwnTarget
    <2> QED
      BY <2>1, <2>2, <2>3
  <1>8. ASSUME NEW p \in Pubs, Handle(p) \/ Reject(p) \/ StoreFails(p)
        PROVE  \/ pub'[q] = pub[q]
               \/ pub'[q].pc \in {"done", "saved"}
               \/ pub'[q].pc = "tags" /\ IsDeletion(q)
               \/ /\ pub'[q].pc = "untrack" /\ pub'[q].target \in Events /\ IsDeletion(q)
                  /\ q \in DeletersOf[pub'[q].target]
               \/ \E x \in Events : /\ pub'[q].pc = "delete" /\ pub'[q].target = x /\ IsDeletion(q)
                                    /\ q \in DeletersOf[x]
    <2>1. CASE Reject(p) \/ StoreFails(p) \/ BadTag(p) \/ FinishDeletion(p)
                \/ \E x \in Events : ForeignTarget(p, x)
      BY <2>1, <1>2 DEF Reject, StoreFails, BadTag, FinishDeletion, ForeignTarget
    <2>2. CASE StoreEvent(p)
      BY <2>2, <1>3
    <2>3. CASE StoreDuplicate(p) \/ TrackEvent(p)
      BY <2>3, <1>2, <1>4 DEF StoreDuplicate, TrackEvent
    <2>4. CASE SkipTag(p) \/ NoTarget(p) \/ UntrackTarget(p)
      <3>1. IsDeletion(p)
        BY <2>4 DEF SkipTag, NoTarget, UntrackTarget, AtTag
      <3>2. NextTag(p, TRUE) \/ NextTag(p, FALSE)
        BY <2>4 DEF SkipTag, NoTarget, UntrackTarget
      <3> QED
        BY <3>1, <3>2, <1>5
    <2>5. CASE DeleteTarget(p)
      BY <2>5, <1>6
    <2>6. CASE \E x \in Events : OwnTarget(p, x)
      BY <2>6, <1>7
    <2> QED
      BY <1>8, <2>1, <2>2, <2>3, <2>4, <2>5, <2>6 DEF Handle
  <1>9. UNCHANGED pub \/ \E p \in Pubs : Handle(p) \/ Reject(p) \/ StoreFails(p)
    BY DEF Next, Manage, vars, InitialScan, CheckStart, Pop, ExpireEvent, CheckEnd, ExpireFails,
           Disable, Clock
  <1> QED
    BY <1>1, <1>8, <1>9

LEMMA ExpiryStep == IInv /\ [Next]_vars => ExpiryInv'
  <1> SUFFICES ASSUME IInv, [Next]_vars PROVE ExpiryInv'
    OBVIOUS
  <1> USE StorageAssumption DEF IInv, TypeOK, ExpiryInv
  <1>1. CASE UNCHANGED <<heap, em, now>>
    BY <1>1
  <1>2. ASSUME NEW p \in Pubs, TrackEvent(p) PROVE ExpiryInv'
    <2>1. \A e \in Events : heap'[e] > 0 => Expiration[e] # -1
      BY <1>2 DEF TrackEvent
    <2> QED
      BY <1>2, <2>1 DEF TrackEvent
  <1>3. ASSUME NEW p \in Pubs, UntrackTarget(p) PROVE ExpiryInv'
    <2>1. \A e \in Events : heap'[e] > 0 => heap[e] > 0
      <3>1. pub[p].target \in Events
        BY <1>3 DEF UntrackTarget, RequestInv
      <3>2. \A e \in Events : Removed(pub[p].target)[e] > 0 => heap[e] > 0
        BY <3>1 DEF Removed
      <3> QED
        BY <1>3, <3>2 DEF UntrackTarget
    <2> QED
      BY <1>3, <2>1 DEF UntrackTarget
  <1>4. ASSUME InitialScan PROVE ExpiryInv'
    BY <1>4 DEF InitialScan
  <1>5. ASSUME NEW e \in Events, Pop(e) PROVE ExpiryInv'
    <2>1. Expiration[e] # -1 /\ Expiration[e] <= em.now
      BY <1>5 DEF Pop, InHeap, Due
    <2>2. \A x \in Events : heap'[x] > 0 => heap[x] > 0
      BY <1>5 DEF Pop, InHeap
    <2> QED
      BY <1>5, <2>1, <2>2 DEF Pop
  <1>6. ASSUME CheckStart PROVE ExpiryInv'
    BY <1>6 DEF CheckStart
  <1>7. ASSUME CheckEnd PROVE ExpiryInv'
    BY <1>7 DEF CheckEnd, Sleeping
  <1>8. ASSUME Disable PROVE ExpiryInv'
    BY <1>8 DEF Disable, Sleeping
  <1>9. ASSUME ExpireEvent \/ ExpireFails PROVE ExpiryInv'
    BY <1>9 DEF ExpireEvent, ExpireFails
  <1>10. ASSUME Clock PROVE ExpiryInv'
    BY <1>10 DEF Clock, emVars
  <1>11. ASSUME NEW p \in Pubs, Handle(p) \/ Reject(p) \/ StoreFails(p)
         PROVE  UNCHANGED <<heap, em, now>> \/ TrackEvent(p) \/ UntrackTarget(p)
    BY <1>11 DEF Handle, Reject, StoreFails, StoreEvent, StoreDuplicate, SkipTag, BadTag, NoTarget,
                 OwnTarget, ForeignTarget, DeleteTarget, FinishDeletion, emVars
  <1> QED
    BY <1>1, <1>2, <1>3, <1>4, <1>5, <1>6, <1>7, <1>8, <1>9, <1>10, <1>11 DEF Next, Manage, vars, emVars

LEMMA InvStep == IInv /\ [Next]_vars => IInv'
  BY TypeStep, RequestStep, ExpiryStep DEF IInv

\* The variables keep their types: in particular a handler or the manager never
\* acts on a target it does not have, and no count of the heap goes below zero.
THEOREM StorageTypes == SafetySpec => []TypeOK
  <1>1. IInv => TypeOK
    BY DEF IInv
  <1> QED
    BY <1>1, InvInit, InvStep, PTL DEF SafetySpec

\* An event leaves the store only when it has expired, when its own author asked
\* for it, or when a newer version came in its place.
THEOREM EventsLeaveByRight == SafetySpec => OnlyByRight
  <1>1. IInv /\ [Next]_vars => [\A e \in stored \ stored' : LeavesFor(e)]_vars
    <2> SUFFICES ASSUME IInv, Next, NEW e \in stored, e \notin stored' PROVE LeavesFor(e)
      OBVIOUS
    <2> USE StorageAssumption DEF IInv, TypeOK, StoreTypeOK
    <2>1. ASSUME NEW p \in Pubs, StoreEvent(p) PROVE LeavesFor(e)
      <3> DEFINE x == PubEvent[p]
      <3>1. ReplaceEvent(x) /\ (\A r \in Rivals(x) \cap stored : IsOlder(r, x))
        BY <2>1 DEF StoreEvent, SaveEvent, ReplaceEvent
      <3>2. x \in stored' /\ e \in Rivals(x) /\ IsOlder(e, x)
        BY <3>1 DEF ReplaceEvent
      <3> QED
        BY <3>2 DEF LeavesFor
    <2>2. ASSUME NEW p \in Pubs, DeleteTarget(p) PROVE LeavesFor(e)
      <3>1. e = pub[p].target /\ pub[p].pc = "delete"
        BY <2>2 DEF DeleteTarget, DeleteEvent
      <3>2. p \in DeletersOf[e]
        BY <3>1 DEF RequestInv
      <3> QED
        BY <3>2 DEF LeavesFor
    <2>3. ASSUME ExpireEvent PROVE LeavesFor(e)
      <3>1. e = em.id /\ em.pc = "expire"
        BY <2>3 DEF ExpireEvent, DeleteEvent
      <3>2. Expiration[e] # -1 /\ Expiration[e] <= now
        BY <3>1 DEF ExpiryInv
      <3> QED
        BY <3>2 DEF LeavesFor
    <2>4. UNCHANGED stored \/ ExpireEvent \/ \E p \in Pubs : StoreEvent(p) \/ DeleteTarget(p)
      BY DEF Next, Handle, Manage, Reject, StoreFails, StoreDuplicate, TrackEvent, SkipTag, BadTag,
             NoTarget, OwnTarget, ForeignTarget, UntrackTarget, FinishDeletion, InitialScan,
             CheckStart, Pop, CheckEnd, ExpireFails, Disable, Clock
    <2> QED
      BY <2>1, <2>2, <2>3, <2>4
  <1> QED
    BY <1>1, InvInit, InvStep, PTL DEF SafetySpec, OnlyByRight

-----------------------------------------------------------------------------
(* What expires is tracked *)

\* A request that has found the event and has not finished with it.
Awaits(p, e) == pub[p].pc \in {"delete", "untrack"} /\ pub[p].target = e

\* An event that is not published again does not come back: who publishes it is
\* done with it when a request finds it, and it is gone when it is untracked.
OnceInv ==
    \A e \in Events : ~Republished(e) =>
        /\ e \in stored \/ (\E p \in Pubs : Awaits(p, e)) =>
              \A q \in Pubs : PubEvent[q] = e => pub[q].pc # "start"
        /\ \A p \in Pubs : pub[p].pc = "untrack" /\ pub[p].target = e => e \notin stored

\* Of an event that is not published again there is one publisher, or none if
\* the store had it at the start.
LEMMA OnePublisher ==
    ASSUME NEW e \in Events, ~Republished(e), NEW p \in Pubs, PubEvent[p] = e
    PROVE  e \notin Old /\ \A q \in Pubs : PubEvent[q] = e => q = p
  <1> DEFINE S == {q \in Pubs : PubEvent[q] = e}
  <1>1. IsFiniteSet(S) /\ Cardinality(S) \in Nat
    BY StorageAssumption, FS_Subset, FS_CardinalityType
  <1>2. ~(Cardinality(S) > (IF e \in Old THEN 0 ELSE 1))
    BY DEF Republished
  <1>3. p \in S
    OBVIOUS
  <1>4. ASSUME NEW q \in S, q # p PROVE FALSE
    <2>1. IsFiniteSet({p, q}) /\ Cardinality({p, q}) = 2
      <3>1. IsFiniteSet({p}) /\ Cardinality({p}) = 1 /\ {p, q} = {p} \cup {q} /\ q \notin {p}
        BY <1>4, FS_Singleton
      <3>2. IsFiniteSet({p} \cup {q}) /\ Cardinality({p} \cup {q}) = 2
        <4>1. Cardinality({p} \cup {q}) = Cardinality({p}) + 1 /\ IsFiniteSet({p} \cup {q})
          BY <3>1, FS_AddElement, Zenon
        <4> QED
          BY <3>1, <4>1
      <3> QED
        BY <3>1, <3>2
    <2>2. Cardinality({p, q}) <= Cardinality(S)
      BY <1>1, <1>3, FS_Subset
    <2> QED
      BY <1>1, <1>2, <2>1, <2>2
  <1>5. Cardinality(S) # 0
    BY <1>1, <1>3, FS_EmptySet
  <1> QED
    BY <1>1, <1>2, <1>4, <1>5

\* What a step does to the handlers and the store.
LEMMA HandlerSteps ==
    ASSUME IInv, [Next]_vars
    PROVE  /\ \A q \in Pubs :
                \/ pub'[q] = pub[q]
                \/ pub'[q].pc \in {"saved", "tags", "done"}
                \/ pub'[q].pc = "delete" /\ pub'[q].target \in stored /\ stored' = stored
                \/ /\ pub'[q].pc = "untrack" /\ pub[q].pc = "delete" /\ pub'[q].target = pub[q].target
                   /\ stored' = stored \ {pub[q].target}
           /\ \/ stored' \subseteq stored
              \/ \E p \in Pubs : /\ pub[p].pc = "start" /\ pub'[p].pc = "saved"
                                 /\ stored' \subseteq stored \cup {PubEvent[p]}
  <1> USE StorageAssumption DEF IInv, TypeOK, StoreTypeOK
  <1>1. ASSUME NEW p \in Pubs, NEW a, Answer(p, a)
        PROVE  \A q \in Pubs : pub'[q] = pub[q] \/ pub'[q].pc = "done"
    BY <1>1 DEF Answer
  <1>2. ASSUME NEW p \in Pubs, NEW pc \in {"saved", "tags"}, Goto(p, pc)
        PROVE  \A q \in Pubs : pub'[q] = pub[q] \/ pub'[q].pc = pc
    BY <1>2 DEF Goto
  <1>3. ASSUME NEW p \in Pubs, NEW b, NextTag(p, b)
        PROVE  \A q \in Pubs : pub'[q] = pub[q] \/ pub'[q].pc = "tags"
    BY <1>3 DEF NextTag
  <1>4. ASSUME NEW p \in Pubs, Reject(p) \/ StoreFails(p) \/ BadTag(p) \/ FinishDeletion(p)
                               \/ \E x \in Events : ForeignTarget(p, x)
        PROVE  stored' = stored /\ \A q \in Pubs : pub'[q] = pub[q] \/ pub'[q].pc = "done"
    BY <1>1, <1>4 DEF Reject, StoreFails, BadTag, FinishDeletion, ForeignTarget
  <1>5. ASSUME NEW p \in Pubs, StoreDuplicate(p) \/ TrackEvent(p)
        PROVE  stored' = stored /\ \A q \in Pubs : pub'[q] = pub[q] \/ pub'[q].pc \in {"tags", "done"}
    BY <1>1, <1>2, <1>5 DEF StoreDuplicate, TrackEvent
  <1>6. ASSUME NEW p \in Pubs, SkipTag(p) \/ NoTarget(p) \/ UntrackTarget(p)
        PROVE  stored' = stored /\ \A q \in Pubs : pub'[q] = pub[q] \/ pub'[q].pc = "tags"
    BY <1>3, <1>6 DEF SkipTag, NoTarget, UntrackTarget
  <1>7. ASSUME NEW p \in Pubs, StoreEvent(p)
        PROVE  /\ pub[p].pc = "start" /\ pub'[p].pc = "saved" /\ stored' \subseteq stored \cup {PubEvent[p]}
               /\ \A q \in Pubs : pub'[q] = pub[q] \/ pub'[q].pc = "saved"
    BY <1>7 DEF StoreEvent, SaveEvent, ReplaceEvent, Goto
  <1>8. ASSUME NEW p \in Pubs, NEW x \in Events, OwnTarget(p, x)
        PROVE  /\ stored' = stored
               /\ \A q \in Pubs : \/ pub'[q] = pub[q]
                                  \/ pub'[q].pc = "delete" /\ pub'[q].target \in stored
    <2>1. x \in stored
      BY <1>8 DEF OwnTarget, IsFirst, Found
    <2> QED
      BY <1>8, <2>1 DEF OwnTarget
  <1>9. ASSUME NEW p \in Pubs, DeleteTarget(p)
        PROVE  /\ stored' \subseteq stored
               /\ \A q \in Pubs : \/ pub'[q] = pub[q]
                                  \/ /\ pub'[q].pc = "untrack" /\ pub[q].pc = "delete"
                                     /\ pub'[q].target = pub[q].target /\ stored' = stored \ {pub[q].target}
    BY <1>9 DEF DeleteTarget, DeleteEvent, Goto
  <1>10. CASE Manage \/ ExpireFails \/ Disable \/ Clock \/ UNCHANGED vars
    <2>1. pub' = pub /\ stored' \subseteq stored
      BY <1>10 DEF Manage, InitialScan, CheckStart, Pop, ExpireEvent, DeleteEvent, CheckEnd, ExpireFails,
                   Disable, Clock, vars
    <2> QED
      BY <2>1
  <1>11. ASSUME NEW p \in Pubs, Handle(p) \/ Reject(p) \/ StoreFails(p)
         PROVE  \/ Reject(p) \/ StoreFails(p) \/ BadTag(p) \/ FinishDeletion(p)
                                \/ \E x \in Events : ForeignTarget(p, x)
                \/ StoreDuplicate(p) \/ TrackEvent(p)
                \/ SkipTag(p) \/ NoTarget(p) \/ UntrackTarget(p)
                \/ StoreEvent(p) \/ DeleteTarget(p)
                \/ \E x \in Events : OwnTarget(p, x)
    BY <1>11 DEF Handle
  <1>12. CASE \E p \in Pubs : Handle(p) \/ Reject(p) \/ StoreFails(p)
    <2> PICK p \in Pubs : Handle(p) \/ Reject(p) \/ StoreFails(p)
      BY <1>12
    <2>1. CASE StoreEvent(p)
      BY <1>7, <2>1
    <2>2. CASE DeleteTarget(p)
      BY <1>9, <2>2
    <2>3. CASE \E x \in Events : OwnTarget(p, x)
      BY <1>8, <2>3
    <2>4. CASE stored' = stored /\ \A q \in Pubs : pub'[q] = pub[q] \/ pub'[q].pc \in {"saved", "tags", "done"}
      BY <2>4
    <2> QED
      BY <1>4, <1>5, <1>6, <1>11, <2>1, <2>2, <2>3, <2>4
  <1> QED
    BY <1>10, <1>12 DEF Next

LEMMA OnceStep == IInv /\ OnceInv /\ [Next]_vars => OnceInv'
  <1> SUFFICES ASSUME IInv, OnceInv, [Next]_vars, NEW e \in Events, ~Republished(e)
               PROVE  /\ e \in stored' \/ (\E p \in Pubs : Awaits(p, e)') =>
                           \A q \in Pubs : PubEvent[q] = e => pub'[q].pc # "start"
                      /\ \A p \in Pubs : pub'[p].pc = "untrack" /\ pub'[p].target = e => e \notin stored'
    BY DEF OnceInv, Awaits, Republished
  <1>1. \A q \in Pubs : pub'[q].pc = "start" => pub[q].pc = "start"
    BY HandlerSteps
  <1>2. \A p \in Pubs : Awaits(p, e)' => Awaits(p, e) \/ e \in stored
    BY HandlerSteps DEF Awaits
  <1>3. CASE e \in stored \/ (\E p \in Pubs : Awaits(p, e))
    <2>1. \A q \in Pubs : PubEvent[q] = e => pub[q].pc # "start"
      BY <1>3 DEF OnceInv
    <2>2. e \in stored' => e \in stored
      BY <2>1, HandlerSteps
    <2>3. ASSUME NEW p \in Pubs, pub'[p].pc = "untrack", pub'[p].target = e PROVE e \notin stored'
      BY <2>2, <2>3, HandlerSteps DEF OnceInv
    <2> QED
      BY <1>1, <2>1, <2>3
  <1>4. CASE e \notin stored /\ ~\E p \in Pubs : Awaits(p, e)
    <2>1. \A p \in Pubs : ~Awaits(p, e)'
      BY <1>2, <1>4
    <2>2. ASSUME e \in stored', NEW q \in Pubs, PubEvent[q] = e PROVE pub'[q].pc # "start"
      <3>1. PICK p \in Pubs : PubEvent[p] = e /\ pub'[p].pc = "saved"
        BY <1>4, <2>2, HandlerSteps
      <3>2. q = p
        BY <2>2, <3>1, OnePublisher
      <3> QED
        BY <3>1, <3>2
    <2> QED
      BY <2>1, <2>2 DEF Awaits
  <1> QED
    BY <1>3, <1>4

LEMMA OnceStarts == Init => OnceInv
  <1> SUFFICES ASSUME Init, NEW e \in Events, ~Republished(e)
               PROVE  /\ e \in stored \/ (\E p \in Pubs : Awaits(p, e)) =>
                           \A q \in Pubs : PubEvent[q] = e => pub[q].pc # "start"
                      /\ \A p \in Pubs : pub[p].pc = "untrack" /\ pub[p].target = e => e \notin stored
    BY DEF OnceInv
  <1>1. \A p \in Pubs : pub[p].pc = "start"
    BY DEF Init, Handling
  <1>2. \A q \in Pubs : PubEvent[q] = e => e \notin stored
    BY OnePublisher DEF Init
  <1> QED
    BY <1>1, <1>2 DEF Awaits

\* What is not tracked any more has expired or was untracked for a request that
\* had deleted it.
LEMMA TrackedStep == IInv /\ OnceInv /\ ExpiringIsTracked /\ [Next]_vars => ExpiringIsTracked'
  <1> SUFFICES ASSUME IInv, OnceInv, ExpiringIsTracked, [Next]_vars, scanned', enabled',
                      NEW e \in stored', e \notin missed', Expiration[e] > now',
                      ~(Republished(e) /\ DeletersOf[e] # {})
               PROVE  heap'[e] > 0 \/ BeingTracked(e)'
    BY DEF ExpiringIsTracked, Republished, DeletersOf, IsDeletion
  <1> USE StorageAssumption DEF IInv, TypeOK, StoreTypeOK
  <1>0. e \in Events /\ Expiration[e] \in Int /\ Expiration[e] > 0 /\ heap[e] \in Nat /\ now' \in Nat
    BY TypeStep
  <1>1. now' = now \/ now' = now + 1 => now <= now'
    OBVIOUS
  <1>2. ASSUME UNCHANGED <<heap, scanned, enabled, missed>>, e \in stored, now <= now',
               \A q \in Pubs : pub[q].pc = "saved" => pub'[q].pc = "saved"
        PROVE  heap'[e] > 0 \/ BeingTracked(e)'
    BY <1>0, <1>2 DEF ExpiringIsTracked, BeingTracked
  <1>3. ASSUME NEW p \in Pubs, StoreEvent(p) PROVE heap'[e] > 0 \/ BeingTracked(e)'
    <2>1. /\ pub'[p].pc = "saved" /\ UNCHANGED <<heap, scanned, enabled, missed, now>>
          /\ \A q \in Pubs : pub[q].pc = "saved" => pub'[q].pc = "saved"
      BY <1>3 DEF StoreEvent, Goto, emVars
    <2>2. e \in stored \/ PubEvent[p] = e
      BY <1>3 DEF StoreEvent, SaveEvent, ReplaceEvent
    <2> QED
      BY <1>2, <1>1, <2>1, <2>2 DEF BeingTracked
  <1>4. ASSUME NEW p \in Pubs, TrackEvent(p) PROVE heap'[e] > 0 \/ BeingTracked(e)'
    <2>1. UNCHANGED <<stored, scanned, enabled, missed, now>> /\ \A q \in Pubs : q # p => pub'[q] = pub[q]
      BY <1>4 DEF TrackEvent, Goto, Answer
    <2>2. heap[e] > 0 \/ BeingTracked(e)
      BY <2>1 DEF ExpiringIsTracked
    <2>3. CASE PubEvent[p] = e
      BY <1>0, <1>4, <2>1, <2>3 DEF TrackEvent
    <2>4. CASE PubEvent[p] # e
      <3>1. heap'[e] = heap[e]
        BY <1>4, <2>4 DEF TrackEvent
      <3> QED
        BY <2>1, <2>2, <2>4, <3>1 DEF BeingTracked
    <2> QED
      BY <2>3, <2>4
  <1>5. ASSUME NEW p \in Pubs, UntrackTarget(p) PROVE heap'[e] > 0 \/ BeingTracked(e)'
    <2>1. /\ UNCHANGED <<stored, scanned, enabled, missed, now>> /\ pub[p].pc = "untrack"
          /\ \A q \in Pubs : pub[q].pc = "saved" => pub'[q] = pub[q]
      BY <1>5 DEF UntrackTarget, NextTag
    <2>2. pub[p].target # e
      BY <1>0, <2>1 DEF RequestInv, OnceInv
    <2>3. heap'[e] = heap[e]
      BY <1>0, <1>5, <2>2 DEF UntrackTarget, Removed, RequestInv
    <2> QED
      BY <2>1, <2>3 DEF ExpiringIsTracked, BeingTracked
  <1>6. ASSUME InitialScan PROVE heap'[e] > 0
    <2>1. e \in ScannedSet
      BY <1>6 DEF InitialScan
    <2> QED
      BY <1>0, <1>6, <2>1 DEF InitialScan
  <1>7. ASSUME NEW x \in Events, Pop(x) PROVE heap'[e] > 0 \/ BeingTracked(e)'
    <2>1. UNCHANGED <<stored, pub, scanned, enabled, missed, now>>
      BY <1>7 DEF Pop
    <2>2. x # e
      BY <1>0, <1>7, <2>1 DEF Pop, Due, ExpiryInv
    <2>3. heap'[e] = heap[e]
      BY <1>0, <1>7, <2>2 DEF Pop
    <2> QED
      BY <2>1, <2>3 DEF ExpiringIsTracked, BeingTracked
  <1>8. ASSUME ExpireEvent \/ ExpireFails \/ CheckStart \/ CheckEnd \/ Disable \/ Clock \/ UNCHANGED vars
        PROVE  heap'[e] > 0 \/ BeingTracked(e)'
    <2>1. UNCHANGED <<heap, pub, scanned, missed>> /\ e \in stored /\ (now' = now \/ now' = now + 1)
      BY <1>8 DEF ExpireEvent, DeleteEvent, ExpireFails, CheckStart, CheckEnd, Disable, Clock, vars, emVars
    <2>2. enabled' = enabled
      BY <1>8 DEF ExpireEvent, ExpireFails, CheckStart, CheckEnd, Disable, Clock, vars, emVars
    <2> QED
      BY <1>2, <1>1, <2>1, <2>2
  <1>9. ASSUME NEW p \in Pubs,
               \/ Reject(p) \/ StoreFails(p) \/ BadTag(p) \/ FinishDeletion(p) \/ StoreDuplicate(p)
               \/ SkipTag(p) \/ NoTarget(p) \/ DeleteTarget(p)
               \/ \E x \in Events : OwnTarget(p, x) \/ ForeignTarget(p, x)
        PROVE  heap'[e] > 0 \/ BeingTracked(e)'
    <2>1. UNCHANGED <<heap, scanned, enabled, missed, now>> /\ e \in stored
      BY <1>9 DEF Reject, StoreFails, BadTag, FinishDeletion, StoreDuplicate, SkipTag, NoTarget,
                  DeleteTarget, DeleteEvent, OwnTarget, ForeignTarget, emVars
    <2>2. pub[p].pc \in {"start", "tags", "delete"} /\ \A q \in Pubs : q # p => pub'[q] = pub[q]
      BY <1>9 DEF Reject, StoreFails, BadTag, FinishDeletion, StoreDuplicate, SkipTag, NoTarget,
                  DeleteTarget, OwnTarget, ForeignTarget, Answer, Goto, NextTag, AtTag
    <2> QED
      BY <1>2, <1>1, <2>1, <2>2
  <1> QED
    BY <1>3, <1>4, <1>5, <1>6, <1>7, <1>8, <1>9 DEF Next, Handle, Manage

\* Once the store was scanned every event that will expire has an entry in the
\* heap or a handler about to make one, in whatever order handlers save, replace
\* and delete events and the manager pops them: an entry is taken out only for
\* an event that has expired or is no longer in the store.
THEOREM StorageTracksExpiring == SafetySpec => []ExpiringIsTracked
  <1>1. Init => ExpiringIsTracked
    BY DEF Init, ExpiringIsTracked
  <1> QED
    BY <1>1, InvInit, InvStep, OnceStarts, OnceStep, TrackedStep, PTL DEF SafetySpec
=============================================================================
