---------------------------- MODULE MCRelayServer ----------------------------
(* RelayServer on one or two connections that subscribe and publish.          *)
EXTENDS RelayServer, TLC

CONSTANTS a1, a2, c1, c2, s1, s2, r1, r2, p1, p2

F(as, ks) == [authors |-> as, kinds |-> ks, since |-> 0, until |-> 0, tags |-> <<>>,
              ids |-> Nil, limitZero |-> FALSE]
byBoth == F(<<a1>>, <<1>>)
byKindOnly == F(Nil, <<1>>)
everything == F(Nil, Nil)
future == [F(<<a2>>, <<1, 2>>) EXCEPT !.limitZero = TRUE]

E(a, k) == [pubkey |-> a, kind |-> k, createdAt |-> 1, tags |-> {}]

byId == [F(Nil, Nil) EXCEPT !.ids = {E(a1, 1)}]

MCFilters == {byBoth, byKindOnly, everything, future, byId}
MCEvents == {E(a1, 1), E(a1, 2)}

\* An ephemeral event, a connection whose first filter has the wrong kind, and
\* one that the hook keeps the event from.
TwoConnReqOf == (r1 :> [ws |-> c1, sid |-> s1, filters |-> <<byBoth, future>>])
             @@ (r2 :> [ws |-> c2, sid |-> s1, filters |-> <<everything>>])
EphemeralPubOf == (p1 :> [ws |-> c1, event |-> E(a1, 2)])
OnePrevented == {<<c2, E(a1, 2)>>}

\* One connection: an event that is published twice, while a subscription asks
\* for it by id and then by author and kind.
OneReqOf == (r1 :> [ws |-> c1, sid |-> s1, filters |-> <<byId, byBoth>>])
TwicePubOf == (p1 :> [ws |-> c1, event |-> E(a1, 1)]) @@ (p2 :> [ws |-> c1, event |-> E(a1, 1)])
=============================================================================
