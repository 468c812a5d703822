------------------------------ MODULE EventStore ------------------------------
(***************************************************************************)
(* What the interface of the event stores promises (eventstore/store.go):  *)
(* a set of events, saved, replaced and deleted one at a time.             *)
(***************************************************************************)
EXTENDS EventData

VARIABLE stored   \* the events in the store

StoreTypeOK == stored \subseteq Events

\* "SaveEvent just saves an event, no side-effects."
SaveEvent(e) == stored' = stored \cup {e}

\* "DeleteEvent deletes an event atomically by ID"
DeleteEvent(e) == stored' = stored \ {e}

\* "ReplaceEvent atomically replaces a replaceable or addressable event."  An
\* event that is not newer than the version in the store changes nothing.
ReplaceEvent(e) ==
    stored' = IF \A r \in Rivals(e) \cap stored : IsOlder(r, e)
              THEN (stored \ Rivals(e)) \cup {e}
              ELSE stored

\* Regular events are saved, all others replace.
StoreInit == stored = {}

StoreNext == \E e \in Events :
    \/ IsRegular(Kind[e]) /\ SaveEvent(e)
    \/ ~IsRegular(Kind[e]) /\ ReplaceEvent(e)
    \/ DeleteEvent(e)

StoreSpec == StoreInit /\ [][StoreNext]_stored

-----------------------------------------------------------------------------

\* The events that ReplaceEvent finds again: the code looks an addressable event
\* up by its "d" tag, and one that has none is not found.
Findable(e) == IsAddressable(Kind[e]) => D[e] # NoD

\* A store in which replaceable and addressable events are only replaced keeps
\* one version of each: none of two stored events is a rival of the other.
OneVersion ==
    \A x, y \in stored : x # y /\ ~IsRegular(Kind[x]) /\ Findable(x) /\ Findable(y)
                            => y \notin Rivals(x)
=============================================================================
