------------------------------ MODULE MCNetwork ------------------------------
(***************************************************************************)
(* The client's connection and what is fetched over connections, for TLC:  *)
(* a connection, the paginator, reconciliation, and the loaders and        *)
(* fetches of the SDK.  They share no state here; one of them runs in a    *)
(* behaviour, the others rest.                                             *)
(***************************************************************************)
EXTENDS RelayConnection, Paginator, Negentropy, Dataloader, SdkFetch
CONSTANTS r1, r2
VARIABLE part

(* Paginator: pages of three over six events, two of the same second. *)
mcTime == <<9, 8, 8, 6, 5, 3>>
mcWorlds ==
    {[r \in {r1, r2} |-> IF r = r1 THEN S ELSE {}] : S \in SUBSET (1..6)}
    \cup {[r \in {r1, r2} |-> IF r = r1 THEN {1, 2, 3, 4, 5} ELSE S] : S \in {{2, 4, 6}, {3, 6}, {6}}}

(* Reconciliation: three items of one second, which a bound must tell apart. *)
mcItems == {[t |-> 1, id |-> <<1, 1>>], [t |-> 1, id |-> <<1, 2>>], [t |-> 1, id |-> <<2, 1>>],
            [t |-> 3, id |-> <<0, 5>>], [t |-> 4, id |-> <<3, 3>>]}
mcTwoItems == {[t |-> 1, id |-> <<1, 1>>], [t |-> 1, id |-> <<1, 2>>]}

(* Loaders: three versions of two events of one key, and one of another. *)
mcEvent(by, d, at) == [by |-> by, d |-> d, at |-> at, n |-> 1]
mcHolds == [r1 |-> {mcEvent("bob", "x", 1), mcEvent("ann", "x", 1)},
            r2 |-> {mcEvent("ann", "x", 2), mcEvent("ann", "y", 1)}]
mcOutbox == [ann |-> {"r1"}, bob |-> {"r1", "r2"}]

(* Fetches: two versions of one event, and one of the second's date. *)
mcSfTime == <<1, 2, 2>>
mcSfD == <<"x", "x", "y">>

-----------------------------------------------------------------------------

PaginatorRests == PaginatorInit /\ pgLimit = 0 /\ pgHeld = [r \in PgRelays |-> {}]
SyncRests == NegentropyInit /\ ngMode = "both" /\ ngLocal = {} /\ ngRemote = {}
LoaderRests == DataloaderInit /\ ldFor = "replaceable"
FetchRests == SdkFetchInit /\ sfStyle = "list" /\ sfStore = {}

Init ==
    /\ part \in {"connection", "paginator", "sync", "loader", "fetch"}
    /\ ConnectionInit
    /\ IF part = "paginator" THEN PaginatorInit ELSE PaginatorRests
    /\ IF part = "sync" THEN NegentropyInit ELSE SyncRests
    /\ IF part = "loader" THEN DataloaderInit ELSE LoaderRests
    /\ IF part = "fetch" THEN SdkFetchInit ELSE FetchRests

Next ==
    /\ \/ part = "connection" /\ ConnectionNext /\ UNCHANGED <<pgVars, ngVars, ldVars, sfVars>>
       \/ part = "paginator" /\ PaginatorNext /\ UNCHANGED <<rcVars, ngVars, ldVars, sfVars>>
       \/ part = "sync" /\ NegentropyNext /\ UNCHANGED <<rcVars, pgVars, ldVars, sfVars>>
       \/ part = "loader" /\ DataloaderNext /\ UNCHANGED <<rcVars, pgVars, ngVars, sfVars>>
       \/ part = "fetch" /\ SdkFetchNext /\ UNCHANGED <<rcVars, pgVars, ngVars, ldVars>>
    /\ UNCHANGED part

vars == <<part, rcVars, pgVars, ngVars, ldVars, sfVars>>

Spec == Init /\ [][Next]_vars

\* An upload to a relay, alone.
UploadSpec == Init /\ part = "sync" /\ [][Next]_vars /\ NegentropyFairness
=============================================================================
