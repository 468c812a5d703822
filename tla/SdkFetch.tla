------------------------------ MODULE SdkFetch ------------------------------
(***************************************************************************)
(* How the SDK fetches a list, the sets or the profile of a user: from the *)
(* cache, else from the store, else, or if the store was not refreshed for *)
(* some days, from the network through a Dataloader.  Calls for one user   *)
(* and kind run side by side and share a cache that commits late and       *)
(* forgets, a store, and the date of the last fetch.  The errors of writes *)
(* to the store and to the KVStore are dropped: any of them may be lost,  *)
(* and with the NullStore that a System has by default all of them are.    *)
(***************************************************************************)
EXTENDS Integers, Sequences, FiniteSets
CONSTANTS
    SfCalls,
    SfStyles,      \* of "list", "sets" and "profile": which is fetched
    SfTime, SfD,   \* dates and "d" tags of the versions 1..Len(SfTime)
    SfStores,      \* what the store may hold at first
    RefreshAfter,  \* getLocalStoreRefreshDaysForKind
    SfMaxNow       \* bound: the last moment

ASSUME FetchAssumption ==
    /\ SfStyles \subseteq {"list", "sets", "profile"}
    /\ SfTime \in Seq(Int)
    /\ \A S \in SfStores : S \subseteq DOMAIN SfTime
    /\ DOMAIN SfD = DOMAIN SfTime

VARIABLES
    sfStyle, sfNow,
    sfCall,       \* per call: where it is, the value so far, what the network
                  \* gave, fromInternal and, for the properties, what the store had
    sfCache,      \* the cached values: none or one
    sfBuffer,     \* values given to the cache that it has not committed
    sfStore,      \* the versions in the store
    sfLost,       \* history: versions that were lost in a write, and the store has none as new
    sfLastFetch,  \* in the KVStore: none or one date
    sfMutex,      \* who holds genericListMutexes[lockIdx], if anybody
    sfJust        \* valueWasJustCached[lockIdx]

sfVars == <<sfStyle, sfNow, sfCall, sfCache, sfBuffer, sfStore, sfLost, sfLastFetch, sfMutex, sfJust>>

\* Lists and profiles are one event; of sets there is one for every "d" tag.
SfSlot(e) == IF sfStyle = "sets" THEN SfD[e] ELSE "one"

SdkFetchInit ==
    /\ sfStyle \in SfStyles /\ sfNow = 1
    /\ sfStore \in {S \in SfStores : \A e, f \in S : SfSlot(e) = SfSlot(f) => e = f}
    /\ sfCall = [c \in SfCalls |-> [pc |-> "out", v |-> {}, new |-> {}, internal |-> FALSE, found |-> {}]]
    /\ sfCache = {} /\ sfBuffer = <<>> /\ sfLost = {} /\ sfLastFetch = {} /\ sfMutex = {} /\ sfJust = FALSE

SfAt(c, pc) == sfCall[c].pc = pc
SfGoto(c, pc) == sfCall' = [sfCall EXCEPT ![c].pc = pc]

IsNewer(e, f) == SfTime[e] > SfTime[f] \/ (SfTime[e] = SfTime[f] /\ e < f)

\* ReplaceEvent of a store (EventStore) for each of the new versions; their order does not
\* matter, since there is one for a slot.
ReplacedAll(S, new) ==
    {f \in S : \A e \in new : SfSlot(f) = SfSlot(e) => ~IsNewer(e, f)}
    \cup {e \in new : \A f \in S : SfSlot(f) = SfSlot(e) => IsNewer(e, f)}

Covers(V, W) == \A f \in W : \E e \in V : SfSlot(e) = SfSlot(f) /\ SfTime[f] <= SfTime[e]

\* The new versions are replaced in the store, or saved to it, one by one; a write may fail.
StoreLoses(new) == sfLost' = {e \in sfLost \cup new : ~Covers(sfStore', {e})}
StoreReplaces(new) == (\E written \in SUBSET new : sfStore' = ReplacedAll(sfStore, written)) /\ StoreLoses(new)

\* SaveEvent does not look for other versions.
StoreSaves(new) == (\E written \in SUBSET new : sfStore' = sfStore \cup written) /\ StoreLoses(new)

\* The date of the end of an attempt goes to the KVStore.
NotesDate == sfLastFetch' \in {sfLastFetch, {sfNow}}

-----------------------------------------------------------------------------
(* From memory *)

\* The mutex is held for the look at the flag, and while it sleeps, and given
\* back before the fetch.  A profile has neither.
FetchEnter(c) ==
    /\ SfAt(c, "out")
    /\ sfStyle = "profile" \/ sfMutex = {}
    /\ IF sfStyle # "profile" /\ sfJust
       THEN sfMutex' = {c} /\ sfJust' = FALSE /\ SfGoto(c, "sleep")
       ELSE UNCHANGED <<sfMutex, sfJust>> /\ SfGoto(c, "look")
    /\ UNCHANGED <<sfStyle, sfNow, sfCache, sfBuffer, sfStore, sfLost, sfLastFetch>>

FetchWakes(c) ==
    /\ SfAt(c, "sleep") /\ SfGoto(c, "look") /\ sfMutex' = {}
    /\ UNCHANGED <<sfStyle, sfNow, sfCache, sfBuffer, sfStore, sfLost, sfLastFetch, sfJust>>

LookInCache(c) ==
    /\ SfAt(c, "look")
    /\ sfCall' = IF sfCache = {} THEN [sfCall EXCEPT ![c].pc = "query"]
                 ELSE [sfCall EXCEPT ![c].pc = "cached", ![c].v = UNION sfCache, ![c].internal = TRUE]
    /\ UNCHANGED <<sfStyle, sfNow, sfCache, sfBuffer, sfStore, sfLost, sfLastFetch, sfMutex, sfJust>>

\* The newest version for a list or a profile, all of them for sets.
Newest == {e \in sfStore : \A f \in sfStore : SfTime[f] <= SfTime[e]}

QueryStore(c) ==
    /\ SfAt(c, "query")
    /\ \E found \in IF sfStyle = "sets" \/ sfStore = {} THEN {sfStore} ELSE {{e} : e \in Newest} :
         sfCall' = [sfCall EXCEPT ![c].v = found, ![c].found = found, ![c].internal = found # {},
                                  ![c].pc = IF found = {} THEN "fetch" ELSE "check"]
    /\ UNCHANGED <<sfStyle, sfNow, sfCache, sfBuffer, sfStore, sfLost, sfLastFetch, sfMutex, sfJust>>

CheckLastFetch(c) ==
    /\ SfAt(c, "check")
    /\ SfGoto(c, IF \E t \in sfLastFetch : sfNow - t <= RefreshAfter THEN "cache" ELSE "refresh")
    /\ UNCHANGED <<sfStyle, sfNow, sfCache, sfBuffer, sfStore, sfLost, sfLastFetch, sfMutex, sfJust>>

-----------------------------------------------------------------------------
(* From the network *)

\* What a Load may return: nothing, or any version that some relay still has.
Loaded ==
    {{}} \cup IF sfStyle # "sets" THEN {{e} : e \in DOMAIN SfTime}
              ELSE {S \in SUBSET DOMAIN SfTime : S # {} /\ \A e, f \in S : SfD[e] = SfD[f] => e = f}

\* tryFetch...FromNetwork: what is found is published, that is, replaced in the
\* store; a profile is cached at once.
TryFetch(c) ==
    /\ sfCall[c].pc \in {"fetch", "refresh"}
    /\ \E new \in Loaded :
         /\ sfCall' = [sfCall EXCEPT ![c].new = new,
                                     ![c].pc = IF SfAt(c, "fetch") THEN "fetched" ELSE "refreshed"]
         /\ StoreReplaces(new)
         /\ sfBuffer' = IF sfStyle = "profile" /\ new # {} THEN Append(sfBuffer, new) ELSE sfBuffer
    /\ UNCHANGED <<sfStyle, sfNow, sfCache, sfLastFetch, sfMutex, sfJust>>

NewerThan(new, old) == \A e \in new, f \in old : SfTime[e] > SfTime[f]

\* Mutant: whatever came is taken.
RefreshedListAnyway(c) ==
    /\ SfAt(c, "refreshed") /\ sfStyle # "sets"
    /\ sfCall' = [sfCall EXCEPT ![c].v = IF sfCall[c].new = {} THEN @ ELSE sfCall[c].new, ![c].pc = "mark"]
    /\ StoreReplaces(sfCall[c].new)
    /\ UNCHANGED <<sfStyle, sfNow, sfCache, sfBuffer, sfLastFetch, sfMutex, sfJust>>

\* A list or a profile becomes the new one if that is newer; sets trust what
\* comes, and take it without a look whether anything came.
RefreshedList(c) ==
    /\ SfAt(c, "refreshed") /\ sfStyle # "sets"
    /\ LET better == sfCall[c].new # {} /\ NewerThan(sfCall[c].new, sfCall[c].v)
       IN  /\ sfCall' = [sfCall EXCEPT ![c].v = IF better THEN sfCall[c].new ELSE @, ![c].pc = "mark"]
           /\ StoreReplaces(IF better THEN sfCall[c].new ELSE {})
    /\ UNCHANGED <<sfStyle, sfNow, sfCache, sfBuffer, sfLastFetch, sfMutex, sfJust>>

RefreshedSets(c) ==
    /\ SfAt(c, "refreshed") /\ sfStyle = "sets"
    /\ sfCall' = IF sfCall[c].new = {} THEN [sfCall EXCEPT ![c].pc = "panic"]
                 ELSE [sfCall EXCEPT ![c].v = sfCall[c].new, ![c].pc = "mark"]
    /\ StoreReplaces(sfCall[c].new)
    /\ UNCHANGED <<sfStyle, sfNow, sfCache, sfBuffer, sfLastFetch, sfMutex, sfJust>>

MarkFetched(c) ==
    /\ SfAt(c, "mark")
    /\ NotesDate /\ SfGoto(c, "cache")
    /\ UNCHANGED <<sfStyle, sfNow, sfCache, sfBuffer, sfStore, sfLost, sfMutex, sfJust>>

\* Nothing was stored: a list notes the date and then saves what came, a profile
\* saves first, and sets replace first.
FetchedNew(c) ==
    /\ SfAt(c, "fetched")
    /\ sfCall' = [sfCall EXCEPT ![c].v = sfCall[c].new,
                                ![c].pc = CASE sfCall[c].new = {} -> "cache"
                                            [] sfCall[c].new # {} /\ sfStyle = "list" -> "save"
                                            [] OTHER -> "mark"]
    /\ IF sfCall[c].new # {} /\ sfStyle = "list" THEN NotesDate ELSE UNCHANGED sfLastFetch
    /\ \/ sfStyle = "list" /\ UNCHANGED <<sfStore, sfLost>>
       \/ sfStyle = "profile" /\ StoreSaves(sfCall[c].new)
       \/ sfStyle = "sets" /\ StoreReplaces(sfCall[c].new)
    /\ UNCHANGED <<sfStyle, sfNow, sfCache, sfBuffer, sfMutex, sfJust>>

SaveNewList(c) ==
    /\ SfAt(c, "save") /\ SfGoto(c, "cache")
    /\ StoreSaves(sfCall[c].new)
    /\ UNCHANGED <<sfStyle, sfNow, sfCache, sfBuffer, sfLastFetch, sfMutex, sfJust>>

\* Cached even if nothing was found.
SaveToCache(c) ==
    /\ SfAt(c, "cache") /\ SfGoto(c, "back")
    /\ sfBuffer' = Append(sfBuffer, sfCall[c].v)
    /\ sfJust' = (sfStyle # "profile" \/ sfJust)
    /\ UNCHANGED <<sfStyle, sfNow, sfCache, sfStore, sfLost, sfLastFetch, sfMutex>>

\* ristretto: a value is committed later or dropped, and leaves after its time
\* or for another.
CacheCommits ==
    /\ sfBuffer # <<>> /\ sfBuffer' = Tail(sfBuffer)
    /\ sfCache' \in {sfCache, {Head(sfBuffer)}}
    /\ UNCHANGED <<sfStyle, sfNow, sfCall, sfStore, sfLost, sfLastFetch, sfMutex, sfJust>>

CacheForgets ==
    /\ sfCache # {} /\ sfCache' = {}
    /\ UNCHANGED <<sfStyle, sfNow, sfCall, sfBuffer, sfStore, sfLost, sfLastFetch, sfMutex, sfJust>>

SfTick ==
    /\ sfNow < SfMaxNow /\ sfNow' = sfNow + 1
    /\ UNCHANGED <<sfStyle, sfCall, sfCache, sfBuffer, sfStore, sfLost, sfLastFetch, sfMutex, sfJust>>

SdkFetchNext ==
    \/ \E c \in SfCalls :
         \/ FetchEnter(c) \/ FetchWakes(c) \/ LookInCache(c) \/ QueryStore(c) \/ CheckLastFetch(c)
         \/ TryFetch(c) \/ RefreshedList(c) \/ RefreshedSets(c) \/ MarkFetched(c) \/ FetchedNew(c)
         \/ SaveNewList(c) \/ SaveToCache(c)
    \/ CacheCommits \/ CacheForgets \/ SfTick

-----------------------------------------------------------------------------
(* Properties *)

\* A list or a profile that is returned after a look at the store is not older
\* than what the store had then, nor than what the network gave; and of what is
\* returned, from the cache too, the store has each version or a newer one, but
\* for the versions that it lost in writes that failed and nobody noticed.
FetchKeepsNewest ==
    \A c \in SfCalls :
        /\ SfAt(c, "back") =>
              /\ sfStyle # "sets" => Covers(sfCall[c].v, sfCall[c].found)
              /\ Covers(sfCall[c].v, sfCall[c].new)
        /\ sfCall[c].pc \in {"cached", "back"} => Covers(sfStore, sfCall[c].v \ sfLost)

\* Not so in the code: the store keeps up with what is returned (list.go:76, 97 and 124 drop the
\* errors of the store, and the NullStore has none and keeps nothing).
StoreKeepsUp == \A c \in SfCalls : SfAt(c, "back") => Covers(sfStore, sfCall[c].v)

\* What list.go says of a second call of the same kind: it finds the value of
\* the first in the cache.  It does not: the mutex is free during the fetch.
FetchesOnce == Cardinality({c \in SfCalls : sfCall[c].pc \in {"fetch", "refresh"}}) <= 1

\* What set.go says of a refresh that finds nothing: the stored sets are kept.
RefreshNeverPanics == \A c \in SfCalls : ~SfAt(c, "panic")
=============================================================================
