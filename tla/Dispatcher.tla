----------------------------- MODULE Dispatcher -----------------------------
(***************************************************************************)
(* The subscription index of the relay server (relay/listener.go): every   *)
(* open listener has a serial number (ssid), and three indexes over those  *)
(* numbers let an incoming event find the listeners it has to be sent to   *)
(* without scanning all of them.                                           *)
(*                                                                         *)
(* This module is the sequential data structure, as the fuzz test of the   *)
(* repository drives it; RelayServer composes it with the connections, the *)
(* request handlers and the mutex that protects it.                        *)
(***************************************************************************)
EXTENDS Naturals, Sequences

CONSTANTS
    Conns,      \* websocket connections
    SubIds,     \* subscription ids chosen by the clients
    Authors,    \* public keys
    Kinds,      \* event kinds
    Filters,    \* the filters clients may ask for
    Events,     \* the events that may be broadcast
    Nil,        \* a slice that is nil in the code
    MaxSerial   \* bound: listeners created over the life of the relay

ASSUME SerialAssumption == MaxSerial \in Nat

\* `authors` and `kinds` keep the order and the repetitions of the client's
\* message: nothing between the JSON parser and the index removes them.
ListOf(S) == Seq(S) \cup {Nil}

ASSUME FilterAssumption ==
    \A f \in Filters :
        /\ f.authors \in ListOf(Authors)
        /\ f.kinds \in ListOf(Kinds)

ASSUME EventAssumption == \A e \in Events : e.pubkey \in Authors /\ e.kind \in Kinds

ASSUME NilAssumption == Nil \notin Seq(Authors) \cup Seq(Kinds)

\* type subscription
Subs == [id : SubIds, ws : Conns, filter : Filters]

VARIABLES
    serial,         \* the last serial number given out
    subscriptions,  \* ssid -> subscription, for the listeners that are open
    byAuthor,       \* author -> ssids (an absent map key is the empty set)
    byKind,         \* kind -> ssids
    fallback        \* the ssids of filters with neither authors nor kinds

dvars == <<serial, subscriptions, byAuthor, byKind, fallback>>

Ssids == 1..MaxSerial

Listed(list, k) == list # Nil /\ \E i \in DOMAIN list : list[i] = k

-----------------------------------------------------------------------------
(* Matching *)

FilterMatchesTimestampConstraintsAndTags(f, e) ==
    /\ f.since = 0 \/ e.createdAt >= f.since
    /\ f.until = 0 \/ e.createdAt <= f.until
    /\ \A t \in DOMAIN f.tags : \E v \in f.tags[t] : <<t, v>> \in e.tags

\* What the client asked for: Filter.Matches, for a filter without ids.
Matches(f, e) ==
    /\ f.kinds = Nil \/ Listed(f.kinds, e.kind)
    /\ f.authors = Nil \/ Listed(f.authors, e.pubkey)
    /\ FilterMatchesTimestampConstraintsAndTags(f, e)

-----------------------------------------------------------------------------
(* Index maintenance *)

IndexAdd(idx, list, ssid) ==
    [k \in DOMAIN idx |-> IF Listed(list, k) THEN idx[k] \cup {ssid} ELSE idx[k]]

\* removeSubscription walks the filter's list and returns at the first entry
\* whose set is not in the map. A set leaves the map when it becomes empty, so
\* the second occurrence of an entry is missing if ssid was the last member.
MissingAt(idx, list, ssid, i) ==
    \/ idx[list[i]] = {}
    \/ idx[list[i]] = {ssid} /\ \E j \in 1..(i - 1) : list[j] = list[i]

WalkReaches(idx, list, ssid, i) == \A j \in 1..i : ~MissingAt(idx, list, ssid, j)

WalkCompletes(idx, list, ssid) ==
    list = Nil \/ \A i \in DOMAIN list : ~MissingAt(idx, list, ssid, i)

IndexRemove(idx, list, ssid) ==
    [k \in DOMAIN idx |->
        IF list # Nil /\ \E i \in DOMAIN list : list[i] = k /\ WalkReaches(idx, list, ssid, i)
        THEN idx[k] \ {ssid} ELSE idx[k]]

Put(m, k, v) == [x \in DOMAIN m \cup {k} |-> IF x = k THEN v ELSE m[x]]
Drop(m, k) == [x \in DOMAIN m \ {k} |-> m[x]]

-----------------------------------------------------------------------------
(* Operations *)

\* addSubscription takes the next serial number and stores the subscription...
StoreSub(sub) ==
    /\ serial < MaxSerial
    /\ serial' = serial + 1
    /\ subscriptions' = Put(subscriptions, serial + 1, sub)

\* ...and then indexes it.
IndexSub(f, ssid) ==
    /\ byAuthor' = IndexAdd(byAuthor, f.authors, ssid)
    /\ byKind' = IndexAdd(byKind, f.kinds, ssid)
    /\ fallback' = IF f.authors = Nil /\ f.kinds = Nil THEN fallback \cup {ssid} ELSE fallback

AddSubscription(sub) == StoreSub(sub) /\ IndexSub(sub.filter, serial + 1)

\* removeSubscription takes the subscription out of the map of subscriptions...
DeleteSub(ssid) ==
    /\ subscriptions' = Drop(subscriptions, ssid)
    /\ UNCHANGED serial

\* ...and then out of the indexes; an early return in the walk of the authors
\* leaves the kinds alone.
Unindex(f, ssid) ==
    LET authorsDone == WalkCompletes(byAuthor, f.authors, ssid)
    IN  /\ byAuthor' = IndexRemove(byAuthor, f.authors, ssid)
        /\ byKind' = IF authorsDone THEN IndexRemove(byKind, f.kinds, ssid) ELSE byKind
        /\ fallback' = IF f.authors = Nil /\ f.kinds = Nil
                       THEN fallback \ {ssid} ELSE fallback

RemoveSubscription(ssid) ==
    /\ ssid \in DOMAIN subscriptions
    /\ DeleteSub(ssid)
    /\ Unindex(subscriptions[ssid].filter, ssid)

DispatcherInit ==
    /\ serial = 0
    /\ subscriptions = [s \in {} |-> Nil]
    /\ byAuthor = [a \in Authors |-> {}]
    /\ byKind = [k \in Kinds |-> {}]
    /\ fallback = {}

DispatcherNext ==
    \/ \E sub \in Subs : AddSubscription(sub)
    \/ \E ssid \in DOMAIN subscriptions : RemoveSubscription(ssid)

DispatcherSpec == DispatcherInit /\ [][DispatcherNext]_dvars

-----------------------------------------------------------------------------
(* candidates(event) *)

\* xsync's Load of an absent key gives the zero subscription: no connection,
\* and a filter that constrains nothing.
ZeroFilter == [authors |-> Nil, kinds |-> Nil, since |-> 0, until |-> 0, tags |-> <<>>]

ZeroSub == [id |-> Nil, ws |-> Nil, filter |-> ZeroFilter]

Load(ssid) == IF ssid \in DOMAIN subscriptions THEN subscriptions[ssid] ELSE ZeroSub
Loaded(ssid) == Load(ssid).filter

\* The three loops of candidates. Each element is one call of yield. The cases
\* "only authors indexed" and "only kinds indexed" of the code are the ones in
\* which the other set is empty.
Yields(e) ==
    LET authorSubs == byAuthor[e.pubkey]
        kindSubs == byKind[e.kind]
        ok(ssid) == FilterMatchesTimestampConstraintsAndTags(Loaded(ssid), e)
    IN  {<<"author", s>> : s \in {s \in authorSubs :
            (s \in kindSubs \/ Loaded(s).kinds = Nil) /\ ok(s)}}
        \cup {<<"kind", s>> : s \in {s \in kindSubs : Loaded(s).authors = Nil /\ ok(s)}}
        \cup {<<"fallback", s>> : s \in {s \in fallback : ok(s)}}

-----------------------------------------------------------------------------
(* Properties *)

\* Every piece of the index holds values of its type.
DispatcherTypeOK ==
    /\ serial \in 0..MaxSerial
    /\ DOMAIN subscriptions \subseteq 1..serial
    /\ \A s \in DOMAIN subscriptions : subscriptions[s] \in Subs
    /\ byAuthor \in [Authors -> SUBSET Ssids]
    /\ byKind \in [Kinds -> SUBSET Ssids]
    /\ fallback \subseteq Ssids

\* No filter lists the same author or the same kind twice.
NoRepeats(list) == list # Nil => \A i, j \in DOMAIN list : list[i] = list[j] => i = j
DistinctFilters == \A f \in Filters : NoRepeats(f.authors) /\ NoRepeats(f.kinds)

\* The index says of every open listener, and of no other, exactly what its
\* filter says: nothing is left behind by removeSubscription, whatever the
\* order in which listeners with overlapping filters come and go.
IndexExact ==
    /\ \A a \in Authors :
          byAuthor[a] = {s \in DOMAIN subscriptions : Listed(subscriptions[s].filter.authors, a)}
    /\ \A k \in Kinds :
          byKind[k] = {s \in DOMAIN subscriptions : Listed(subscriptions[s].filter.kinds, k)}
    /\ fallback = {s \in DOMAIN subscriptions :
                      subscriptions[s].filter.authors = Nil /\ subscriptions[s].filter.kinds = Nil}

\* candidates yields every open listener whose filter matches the event, once,
\* and no other: no event is missed, duplicated or sent to a closed listener.
CandidatesExact ==
    \A e \in Events :
        /\ {y[2] : y \in Yields(e)} = {s \in DOMAIN subscriptions : Matches(subscriptions[s].filter, e)}
        /\ \A y, z \in Yields(e) : y[2] = z[2] => y = z

\* The same as the fuzz test states it after it has closed every listener:
\* no open listener, no candidate.
EmptyWhenClosed == DOMAIN subscriptions = {} => \A e \in Events : Yields(e) = {}
=============================================================================
