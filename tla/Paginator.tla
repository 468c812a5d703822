----------------------------- MODULE Paginator -----------------------------
(***************************************************************************)
(* PaginatorWithInterval (paginator.go): FetchMany over and over, each     *)
(* time with Until at the last event that was older, skipping what the     *)
(* previous page had.  The two caches are slices of one array after the    *)
(* first page.  A relay answers with its newest events up to Until, all of *)
(* which arrive; each has a goroutine that hands it on                     *)
(* (subscription.go:94), so that a page is read in any order.              *)
(***************************************************************************)
EXTENDS Naturals, Sequences, FiniteSets, SequencesExt

CONSTANTS
    PgRelays,    \* relays
    PgTime,      \* event -> created_at, a sequence that does not increase
    PgWorlds,    \* what relays may hold: functions from relays to sets of events
    PageSize,    \* events a relay returns at most
    PgLimits,    \* filter.Limit, 0 for none
    StartUntil   \* filter.Until, or the present

ASSUME PaginatorBounds ==
    /\ {PageSize, StartUntil} \subseteq Nat \ {0} /\ PgLimits \subseteq Nat
    /\ PgWorlds \subseteq [PgRelays -> SUBSET DOMAIN PgTime]

VARIABLES
    pgHeld, pgLimit,  \* what the relays hold, and the limit of the filter
    pgUntil,     \* filter.Until of the page
    pgNext,      \* nextUntil
    pgLeft,      \* relay -> what of the page is still to be read
    pgSeen,      \* ids FetchMany has passed on in this page
    pgArray,     \* the array of both caches
    pgRepeated, pgFresh,  \* lengths of repeatedCache and nextRepeatedCache
    pgGoing,     \* keepGoing
    pgOut,       \* history: what went to globalCh
    pgInOrder,   \* history: every page was read in the order the relay sent it in
    pgDone       \* globalCh is closed

pgVars == <<pgHeld, pgLimit, pgUntil, pgNext, pgLeft, pgSeen, pgArray, pgRepeated, pgFresh, pgGoing, pgOut, pgInOrder, pgDone>>

\* What a relay answers: its newest events up to until.
Page(r, until) ==
    LET in == {e \in pgHeld[r] : PgTime[e] <= until}
        max == IF pgLimit = 0 \/ pgLimit > PageSize THEN PageSize ELSE pgLimit IN
    {e \in in : Cardinality({f \in in : f < e}) < max}

Fetch(until) == pgLeft' = [r \in PgRelays |-> Page(r, until)]

\* Mutant: only the last event of the previous page is looked for.
InCacheLast(e) == pgRepeated > 0 /\ pgArray[pgRepeated] = e

\* ContainsID(repeatedCache, evt.ID)
InCache(e) == \E i \in 1..pgRepeated : pgArray[i] = e

\* append to nextRepeatedCache writes over what repeatedCache still shows.
Cached(e) ==
    IF pgFresh < Len(pgArray) THEN [pgArray EXCEPT ![pgFresh + 1] = e] ELSE Append(pgArray, e)

\* An event of the page is read.
PageEvent(r, e) ==
    /\ ~pgDone /\ e \in pgLeft[r]
    /\ LET skipped == e \in pgSeen \/ InCache(e) IN
       /\ pgLeft' = [pgLeft EXCEPT ![r] = @ \ {e}]
       /\ pgInOrder' = (pgInOrder /\ \A f \in pgLeft[r] : e <= f)
       /\ pgSeen' = pgSeen \cup {e}
       /\ IF skipped THEN UNCHANGED <<pgArray, pgFresh, pgGoing, pgOut, pgNext, pgDone>>
          ELSE /\ pgArray' = Cached(e) /\ pgFresh' = pgFresh + 1 /\ pgGoing' = TRUE
               /\ pgOut' = Append(pgOut, e)
               /\ pgDone' = (pgLimit > 0 /\ Len(pgOut') >= pgLimit)
               /\ pgNext' = IF PgTime[e] < pgUntil THEN PgTime[e] ELSE pgNext
    /\ UNCHANGED <<pgHeld, pgLimit, pgUntil, pgRepeated>>

\* The page is over: another one, or the end if nothing in it was new.
PageEnds ==
    /\ ~pgDone /\ \A r \in PgRelays : pgLeft[r] = {}
    /\ IF ~pgGoing
       THEN pgDone' = TRUE /\ UNCHANGED <<pgUntil, pgLeft, pgSeen, pgRepeated, pgFresh, pgGoing>>
       ELSE /\ pgUntil' = pgNext /\ Fetch(pgNext) /\ pgSeen' = {} /\ pgGoing' = FALSE
            /\ pgRepeated' = pgFresh /\ pgFresh' = 0
            /\ UNCHANGED pgDone
    /\ UNCHANGED <<pgHeld, pgLimit, pgNext, pgArray, pgOut, pgInOrder>>

PaginatorInit ==
    /\ pgHeld \in PgWorlds /\ pgLimit \in PgLimits
    /\ pgUntil = StartUntil /\ pgNext = StartUntil
    /\ pgLeft = [r \in PgRelays |-> Page(r, StartUntil)]
    /\ pgSeen = {} /\ pgArray = <<>> /\ pgRepeated = 0 /\ pgFresh = 0 /\ pgGoing = FALSE
    /\ pgOut = <<>> /\ pgInOrder = TRUE /\ pgDone = FALSE

PaginatorNext == PageEnds \/ \E r \in PgRelays, e \in DOMAIN PgTime : PageEvent(r, e)

-----------------------------------------------------------------------------
(* Properties *)

\* No relay gives more events of one second than fit on a page with one older.
Thin(r) == \A e \in pgHeld[r] : Cardinality({f \in pgHeld[r] : PgTime[f] = PgTime[e]}) < PageSize

\* One relay whose seconds fit on a page.  In whatever order its pages are read,
\* the walk leaves no gap: unless the limit cut it off, everything newer than what
\* came has come.  If they are read in the order of the relay, all events up to
\* Until come once and newest first, up to the limit, however the pages overlap
\* and though the cache of the last page is written over while it is read.  (With
\* several relays the last event of a page may be far older than what another
\* relay still has, and events may be skipped or come twice.)
WalksOneRelay ==
    \A r \in PgRelays :
        pgDone /\ Thin(r) /\ (\A q \in PgRelays \ {r} : pgHeld[q] = {}) =>
            LET all == SetToSortSeq({e \in pgHeld[r] : PgTime[e] <= StartUntil}, <)
                full == pgLimit > 0 /\ Len(pgOut) = pgLimit IN
            /\ full \/ \A e \in ToSet(pgOut), f \in ToSet(all) : PgTime[f] > PgTime[e] => f \in ToSet(pgOut)
            /\ pgInOrder => pgOut = IF pgLimit = 0 \/ pgLimit > Len(all) THEN all ELSE SubSeq(all, 1, pgLimit)

\* Not so when a page is read in another order: nothing comes twice.  A new event
\* that is read early takes the place of a repeated one in the common array.
NothingTwice ==
    \A r \in PgRelays :
        Thin(r) /\ (\A q \in PgRelays \ {r} : pgHeld[q] = {}) => IsInjective(pgOut)

\* Nor that everything comes: if a newer event is read last, Until stays too late,
\* the next page has nothing new and the walk ends.
WalkIsWhole ==
    \A r \in PgRelays :
        pgDone /\ pgLimit = 0 /\ Thin(r) /\ (\A q \in PgRelays \ {r} : pgHeld[q] = {}) =>
            {e \in pgHeld[r] : PgTime[e] <= StartUntil} \subseteq ToSet(pgOut)
=============================================================================
