----------------------------- MODULE MCClient -----------------------------
(***************************************************************************)
(* The client side for TLC: publishing and authentication on one relay,    *)
(* and the connections of the pool.  They share no state here; one of them *)
(* runs in a behaviour, the others rest.                                   *)
(***************************************************************************)
EXTENDS Publish, ClientAuth, Pool, TLC
CONSTANTS p1, p2, x, u1
VARIABLE part

\* Two calls that publish the same event.
PairIdOf == (p1 :> x) @@ (p2 :> x)
mcLockOf == (u1 :> "m")

MCInit ==
    /\ part \in {"publish", "auth", "pool"}
    /\ Init /\ AuthInit /\ PoolInit
    /\ part # "pool" => ~plSleeper.on

MCNext ==
    /\ \/ part = "publish" /\ Next /\ UNCHANGED <<auVars, plVars>>
       \/ part = "auth" /\ AuthNext /\ UNCHANGED <<vars, plVars>>
       \/ part = "pool" /\ PoolNext /\ UNCHANGED <<vars, auVars>>
    /\ UNCHANGED part

\* No step that has to be taken is enabled in a part that rests.
MCSpec ==
    /\ MCInit /\ [][MCNext]_<<part, vars, auVars, plVars>>
    /\ PublishFairness /\ AuthFairness

\* Every Publish and every Auth returns, whatever the relay does: also when
\* several calls, the main loop and the end of the connection meet at the map
\* of callbacks, and when calls of Auth meet at the Once (up to the second
\* challenge, which replaces it under them).
CallsReturn == PublishReturns /\ AuthReturns
=============================================================================
