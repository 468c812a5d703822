---------------------------- MODULE MCSliceStore ----------------------------
(* A regular event, two versions of a profile from one second, and two         *)
(* addressable events, one with an empty "d" tag and one without.              *)
EXTENDS SliceStore

CONSTANTS alice, bob

MCEvents == 1..5
MCCreatedAt == <<3, 2, 2, 1, 3>>
MCKind == <<1, 0, 0, 30000, 30000>>
MCAuthor == <<bob, alice, alice, bob, bob>>
MCD == <<NoD, NoD, NoD, "", NoD>>

MCFilters == {
    Open,
    [Open EXCEPT !.until = 2, !.limit = 2],
    [Open EXCEPT !.since = 2, !.until = 3, !.kinds = {0, 1}],
    [Open EXCEPT !.kinds = {30000}, !.authors = {bob}, !.ds = {""}],
    [Open EXCEPT !.ids = {1, 4}]}
=============================================================================
