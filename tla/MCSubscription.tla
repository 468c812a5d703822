--------------------------- MODULE MCSubscription ---------------------------
(* Subscription with one event in the window of the filter and one outside.  *)
EXTENDS Subscription

CONSTANTS e1, e2
=============================================================================
