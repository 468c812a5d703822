------------------------------- MODULE MCRelay -------------------------------
(***************************************************************************)
(* Both ends of a REQ for TLC: the relay that answers it and the           *)
(* subscription that it is for.  They share no state here; one of them     *)
(* runs in a behaviour, the other one rests.                               *)
(***************************************************************************)
EXTENDS MCRelayServer, Subscription
CONSTANTS e1, e2
VARIABLE part

\* A subscription that is over.
SubscriptionRests ==
    /\ fire = "fired" /\ subConn = TRUE /\ ctx = FALSE /\ live = FALSE /\ inMap = FALSE /\ main = Idle
    /\ g = [e \in SubEvents |-> "none"] /\ subStored = {} /\ storedwg = 0
    /\ eosed = TRUE /\ strict = FALSE /\ timer = "over" /\ eoser = 0 /\ eoseChan = 0 /\ eoseSent = 1
    /\ closers = [i \in ClosedIds |-> "none"] /\ reasons = 0
    /\ cleanup = "over" /\ events = FALSE /\ closeSent = TRUE

MCInit ==
    /\ part \in {"relay", "subscription"}
    /\ RelayInit
    /\ IF part = "subscription" THEN SubscriptionInit ELSE SubscriptionRests

MCNext ==
    /\ \/ part = "relay" /\ RelayNext /\ UNCHANGED subVars
       \/ part = "subscription" /\ SubscriptionNext /\ UNCHANGED vars
    /\ UNCHANGED part

\* No step of a subscription that has to be taken is enabled when it is over.
MCSpec == MCInit /\ [][MCNext]_<<part, vars, subVars>> /\ SubscriptionFairness
=============================================================================
