--------------------------- MODULE MCRelayStorage ---------------------------
(* A note and an addressable event of alice, two versions of bob's profile     *)
(* that expire, a request of alice that ends at an event of bob's, and one of  *)
(* bob, already in the store, whose last tag is no id.                         *)
EXTENDS RelayStorage

CONSTANTS alice, bob, p1, p2, p3

MCEvents == 1..6
MCCreatedAt == <<2, 1, 2, 3, 3, 3>>
MCKind == <<1, 30000, 0, 0, 5, 5>>
MCAuthor == <<alice, alice, bob, bob, alice, bob>>
MCD == <<NoD, "x", NoD, NoD, NoD, NoD>>
MCExpiration == <<2, -1, 1, 1, -1, -1>>
MCPubEvent == [p \in Pubs |-> CASE p = p1 -> 4 [] p = p2 -> 5 [] p = p3 -> 6]
MCTags == [d \in {5, 6} |->
    IF d = 5 THEN <<[typ |-> "e", e |-> 1], [typ |-> "a", e |-> 2], [typ |-> "e", e |-> 3]>>
    ELSE <<[typ |-> "other", e |-> 4], [typ |-> "e", e |-> 4], [typ |-> "bad", e |-> 4]>>]
=============================================================================
