--------------------------- MODULE MCPoolQueries ---------------------------
(* PoolQueries on two relays that overlap in what they hold.                 *)
EXTENDS PoolQueries

CONSTANTS u1, u2

mcPoolUrls == <<u1, u2>>
\* Both events are versions of one replaceable event; the first relay sends a
\* bad copy of the second one.
mcKeyOf == [e \in 1..2 |-> "k"]
mcRelayHolds == [o \in AllPoolOps |-> [u \in {u1, u2} |->
    CASE o = "fetch" -> IF u = u1 THEN {1, 2} ELSE {2}
      [] o \in {"latest", "single"} -> IF u = u1 THEN {1} ELSE {2}
      [] OTHER -> {1}]]
mcBadAt == [u \in {u1, u2} |-> IF u = u1 THEN {2} ELSE {}]

Spec == PoolQueriesInit /\ [][PoolQueriesNext]_pqVars /\ PoolQueriesFairness
=============================================================================
