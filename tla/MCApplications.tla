--------------------------- MODULE MCApplications ---------------------------
(***************************************************************************)
(* What is built on the pool, for TLC: groups, the wallet and remote       *)
(* signing.  They share no state here; one of them runs in a behaviour,    *)
(* the others rest.                                                        *)
(***************************************************************************)
EXTENDS Groups, Wallet, RemoteSigner
VARIABLE part

(* Groups: every action, with dates that may come in the wrong order. *)
mcE(k, at, tags) == [kind |-> k, at |-> at, tags |-> tags]
mcModerations ==
    {mcE("put-user", at, <<<<"p", "ann", "king", "king", "scribe">>, <<"p", "bob">>, <<"code", "c">>>>) : at \in 1..2}
    \cup {mcE("put-user", at, <<<<"p", "ann">>>>) : at \in 1..2}
    \cup {mcE("remove-user", at, <<<<"p", "ann">>, <<"p", "cat">>>>) : at \in {2, 3}}
    \cup {mcE("edit-metadata", at, <<<<"about", "x">>, <<"private">>, <<"supported_kinds">>,
                                     <<"child", "y">>, <<"child", "z">>>>) : at \in {1, 3}}
    \cup {mcE("edit-metadata", 2, <<<<"name", "n">>, <<"livekit">>, <<"parent", "q">>, <<"supported_kinds", "9">>>>),
          mcE("edit-metadata", 2, <<<<"name">>>>),
          mcE("put-user", 2, <<<<"p", "unreadable">>>>), mcE("remove-user", 2, <<>>),
          mcE("create-group", 1, <<>>), mcE("delete-group", 3, <<>>),
          mcE("create-invite", 1, <<<<"code", "c">>, <<"code", "d">>>>), mcE("create-invite", 1, <<>>),
          mcE("delete-event", 1, <<<<"e", "1">>>>), mcE("other", 1, <<>>),
          mcE("update-pin-list", 1, <<>>), mcE("update-pin-list", 2, <<<<"a", "2">>, <<"e", "1">>>>),
          mcE("update-pin-list", 3, <<<<"e", "1", "wss", "ann">>, <<"e", "3", "unreadable", "ann">>, <<"e", "4", "wss">>>>),
          mcE("update-pin-list", 3, <<<<"a", "2", "wss", "ann">>, <<"e", "1", "wss", "unreadable">>>>)}

(* Wallet: two mints, one with a fee, and a token that another one replaced. *)
mcTokens == <<[mint |-> "A", amount |-> 4, deletes |-> {}],
              [mint |-> "B", amount |-> 7, deletes |-> {3}],
              [mint |-> "A", amount |-> 2, deletes |-> {}]>>
mcVersions == <<{"A"}>>
mcFee == [A |-> 500, B |-> 0]
mcInto == {<<"A">>, <<"B">>}

(* Remote signing: a text to decrypt, and one whose answer is empty. *)
mcRequests == {[method |-> "nip04_decrypt", arg |-> "e1"], [method |-> "nip04_decrypt", arg |-> "empty"]}

-----------------------------------------------------------------------------

GroupsRest == GroupsInit /\ grWatch = {"metadata"}
SignerRests == RemoteSignerInit /\ rsSigner = "static" /\ \A c \in RsClients : rsClient[c].way = "plain"

\* An external signer answers a client whichever way it came: one is enough.
SignerRuns == RemoteSignerInit /\ (rsSigner = "external" => \A c \in RsClients : rsClient[c].way = "plain")

Init ==
    /\ part \in {"groups", "wallet", "signer"}
    /\ WalletInit
    /\ IF part = "groups" THEN GroupsInit ELSE GroupsRest
    /\ IF part = "signer" THEN SignerRuns ELSE SignerRests

Next ==
    /\ \/ part = "groups" /\ GroupsNext /\ UNCHANGED <<wlVars, rsVars>>
       \/ part = "wallet" /\ WalletNext /\ UNCHANGED <<grVars, rsVars>>
       \/ part = "signer" /\ RemoteSignerNext /\ UNCHANGED <<grVars, wlVars>>
    /\ UNCHANGED part

vars == <<part, grVars, wlVars, rsVars>>

Spec == Init /\ [][Next]_vars
=============================================================================
