----------------------------- MODULE MCStores -----------------------------
(***************************************************************************)
(* The persistent stores for TLC: queries, the writes of bolt, badger and  *)
(* pebble, and the pipeline of pebbledb2.  They share nothing but the      *)
(* events; one of them runs in a behaviour, the others rest.               *)
(***************************************************************************)
EXTENDS KVQuery, KVStore, PebblePipeline
CONSTANTS a1, a2
VARIABLE part
\* 1-5 are queried; 6-8 are versions of a profile, 9-10 and 11-12 of two
\* addressable events, the second without a "d" tag.
mcEvents == 1..12
mcCreatedAt == <<3, 3, 5, 8, 13, 3, 5, 5, 3, 8, 3, 5>>
mcKind == <<1, 1, 7, 1, 7, 0, 0, 0, 30000, 30000, 30000, 30000>>
mcAuthor == <<a1, a2, a1, a1, a2, a1, a1, a1, a1, a1, a1, a1>>
mcD == <<"", NoD, NoD, NoD, NoD, NoD, NoD, NoD, "x", "x", NoD, NoD>>
mcTags == <<{<<"d", "">>, <<"t", "x">>, <<"e", "hex1">>},
            {<<"t", "x">>, <<"t", "y">>, <<"p", "hex1">>},
            {<<"e", "hex2">>, <<"t", "y">>},
            {<<"e", "hex1">>, <<"z", "x">>, <<"t", "x">>},
            {}, {}, {}, {}, {<<"d", "x">>}, {<<"d", "x">>}, {}, {}>>
mcForm == [v \in {"", "x", "y", "hex1", "hex2"} |-> IF v \in {"hex1", "hex2"} THEN "hex" ELSE "other"]
mcCut == [v \in DOMAIN mcForm |-> IF mcForm[v] = "hex" THEN "hex" ELSE v]
mcUnindexed == {""}
mcContent == [e \in mcEvents |-> IF e > 5 THEN <<"b">> ELSE << <<"A", "b", "a", "b">>, <<"b", "a">>, <<"a", "b", "B">>, <<"b", "b", "a", "a", "b">>, <<"C3", "A9", "a">> >>[e]]
\* Letters are bytes: C3 89 and C3 A9 are E and e with an acute accent, E2 84 AA
\* is the sign of the kelvin and E2 B1 AD a letter whose small form, C9 91, is shorter.
mcBytes == {"C3", "89", "A9", "E2", "84", "AA", "B1", "AD", "C9", "91"}
mcLower == [c \in {"a", "b", "k", "A", "B"} \cup mcBytes |-> IF c = "A" THEN "a" ELSE IF c = "B" THEN "b" ELSE c]
mcBitsOf == [g \in [1..3 -> {"a", "b"} \cup mcBytes] |->
    {IF g[1] = "a" THEN 1 ELSE 2, IF g[2] = g[3] THEN 3 ELSE IF g[2] = "89" THEN 5 ELSE 4}]
mcToLower == (<<"a", "b">> :> <<"a", "b">>) @@ (<<"B", "b", "a">> :> <<"b", "b", "a">>)
    @@ (<<"C3", "89">> :> <<"C3", "A9">>) @@ (<<"C3", "89", "a">> :> <<"C3", "A9", "a">>)
    @@ (<<"E2", "84", "AA">> :> <<"k">>) @@ (<<"E2", "B1", "AD">> :> <<"C9", "91">>)
mcSnapshots == SUBSET (1..5)
mcStoreEvents == {3, 7, 8, 9, 10}
mcPipelineEvents == {3, 6, 7, 12}
mcReferences == [e \in mcEvents |-> IF e = 3 THEN {1} ELSE {}]
mcFilters == {
    [KVOpen EXCEPT !.ids = {1, 3, 4}, !.kinds = {1}],
    [KVOpen EXCEPT !.limitZero = TRUE],
    [KVOpen EXCEPT !.limit = 2],
    [KVOpen EXCEPT !.since = 3, !.until = 8],
    [KVOpen EXCEPT !.since = 9, !.until = 4],
    [KVOpen EXCEPT !.since = 3, !.until = 13, !.kinds = {1}],
    [KVOpen EXCEPT !.since = 3, !.until = 8, !.kinds = {1}],
    [KVOpen EXCEPT !.kinds = {1, 7}, !.since = 4],
    [KVOpen EXCEPT !.authors = {a1, a2}, !.limit = 3],
    [KVOpen EXCEPT !.authors = {a1, a2}, !.kinds = {1, 7}],
    [KVOpen EXCEPT !.search = <<"a", "b">>],
    [KVOpen EXCEPT !.search = <<"B", "b", "a">>, !.limit = 1],
    [KVOpen EXCEPT !.search = <<"a", "b">>, !.authors = {a1}],
    [KVOpen EXCEPT !.search = <<"C3", "89">>],
    [KVOpen EXCEPT !.search = <<"C3", "89", "a">>],
    [KVOpen EXCEPT !.search = <<"E2", "84", "AA">>],
    [KVOpen EXCEPT !.search = <<"E2", "B1", "AD">>],
    WithTags([KVOpen EXCEPT !.limit = 3], [n \in {"t"} |-> {"x", "y"}]),
    WithTags([KVOpen EXCEPT !.kinds = {1}], [n \in {"t", "e"} |-> IF n = "t" THEN {"x", "y"} ELSE {"hex1"}]),
    WithTags([KVOpen EXCEPT !.authors = {a1}], [n \in {"t", "e", "z"} |-> IF n = "e" THEN {"hex1"} ELSE {"x"}]),
    WithTags(KVOpen, [n \in {"d"} |-> {""}]),
    WithTags([KVOpen EXCEPT !.kinds = {1}], [n \in {"z"} |-> {"x"}]),
    WithTags(KVOpen, [n \in {"e"} |-> {"hex2"}]) }

\* Events of a kind from the second hour of a day to the second one of the next.
mcCountFilters == {[KVOpen EXCEPT !.since = 3, !.until = 8, !.kinds = {1}]}

QueryRests == KVQueryInit /\ kvBackend = "bolt" /\ kvStored = {} /\ kvFilter.limitZero
StoreRests == KVStoreInit /\ ksBackend = "bolt"

Init ==
    \/ part = "query" /\ KVQueryInit /\ StoreRests /\ PipelineInit
    \/ part = "store" /\ KVStoreInit /\ QueryRests /\ PipelineInit
    \/ part = "pipeline" /\ PipelineInit /\ QueryRests /\ StoreRests

Next ==
    /\ \/ part = "query" /\ KVQueryNext /\ UNCHANGED <<ksVars, ppVars>>
       \/ part = "store" /\ KVStoreNext /\ UNCHANGED <<kvqVars, ppVars>>
       \/ part = "pipeline" /\ PipelineNext /\ UNCHANGED <<kvqVars, ksVars>>
    /\ UNCHANGED part

vars == <<part, kvqVars, ksVars, ppVars>>

Spec == Init /\ [][Next]_vars /\ PipelineFairness
=============================================================================
