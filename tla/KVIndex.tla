------------------------------- MODULE KVIndex -------------------------------
(***************************************************************************)
(* The index keys and the query planners of the persistent stores          *)
(* (eventstore/boltdb, badgerdb, pebbledb, pebbledb2).  Every key is a     *)
(* prefix, a timestamp and an id; a plan names the prefixes to walk and    *)
(* what has to be looked up in the events found there.                     *)
(*                                                                         *)
(* Public keys and ids are never equal in the eight bytes that bolt keeps  *)
(* of them, and no two values have one MD5.                                *)
(***************************************************************************)
EXTENDS EventData, Sequences

CONSTANTS
    Tags,       \* event -> its one-letter tags, as pairs of a name and a value
    Form,       \* value -> "hex" (32 bytes), "address" (kind:key:d) or "other"
    Cut,        \* value -> what is left of its first 8 bytes, or of 30 bytes of d
    Unindexed,  \* the values that are empty or longer than 100 bytes
    NoTag

ASSUME FormAssumption ==
    \A e \in Events : \A t \in Tags[e] : Form[t[2]] \in {"hex", "address", "other"}

\* GetD is the value of one of the tags.
ASSUME TagAssumption == \A e \in Events : D[e] # NoD => <<"d", D[e]>> \in Tags[e]

-----------------------------------------------------------------------------
(* Keys *)

\* The four timelines that every event is in.
Timelines(e) ==
    {<<"createdAt">>, <<"kind", Kind[e]>>, <<"pubkey", Author[e]>>,
     <<"pubkeyKind", Author[e], Kind[e]>>}

\* bolt keeps 8 bytes of a hex value, and of the key and 30 of the d of an address.
BoltTagPrefix(t) == <<Form[t[2]], t[1], IF Form[t[2]] = "other" THEN t[2] ELSE Cut[t[2]]>>

\* badger and pebble keep a hex value whole and cut only the d of an address.
BadgerTagPrefix(t) == <<Form[t[2]], t[1], IF Form[t[2]] = "address" THEN Cut[t[2]] ELSE t[2]>>

PebbleTagPrefix(t) == <<Form[t[2]], t[1], IF Form[t[2]] = "address" THEN Cut[t[2]] ELSE t[2]>>

\* The tags of a query are written by a function of their own.
PebbleTagQueryPrefix(t) == <<Form[t[2]], t[1], IF Form[t[2]] = "address" THEN Cut[t[2]] ELSE t[2]>>

\* pebbledb2 writes names and values with their lengths.
Pebble2TagPrefix(t) == <<"tag", t[1], t[2]>>

Indexable(e) == {t \in Tags[e] : t[2] \notin Unindexed}

BoltIndexKeys(e) == Timelines(e) \cup {BoltTagPrefix(t) : t \in Indexable(e)}

BadgerIndexKeys(e) == Timelines(e) \cup {BadgerTagPrefix(t) : t \in Indexable(e)}

PebbleIndexKeys(e) == Timelines(e) \cup {PebbleTagPrefix(t) : t \in Indexable(e)}

\* The empty value is indexed like any other.
Pebble2IndexKeys(e) == Timelines(e) \cup {Pebble2TagPrefix(t) : t \in Tags[e]}

IndexKeys(b, e) ==
    CASE b = "bolt"    -> BoltIndexKeys(e)
      [] b = "badger"  -> BadgerIndexKeys(e)
      [] b = "pebble"  -> PebbleIndexKeys(e)
      [] b = "pebble2" -> Pebble2IndexKeys(e)

\* The keys of a set of events, as pairs of a prefix and an event, whose
\* timestamp the key holds as well.
Entries(b, S) == UNION {IndexKeys(b, e) \X {e} : e \in S}

-----------------------------------------------------------------------------
(* Plans *)

\* Filters have two fields more: tags, which maps names to sets of values, and
\* search, a pattern.  ds repeats tags["d"].
KVOpen == [ids |-> NotSet, kinds |-> NotSet, authors |-> NotSet, ds |-> NotSet,
           since |-> 0, until |-> 0, limit |-> 0, limitZero |-> FALSE,
           tags |-> <<>>, search |-> NotSet]

WithTags(f, tags) == [f EXCEPT !.tags = tags, !.ds = IF "d" \in DOMAIN tags THEN tags["d"] ELSE NotSet]

ContainsAny(e, name, values) == \E v \in values : <<name, v>> \in Tags[e]

\* filter.Matches, with all tags
KVMatches(f, e) ==
    /\ Matches([f EXCEPT !.ds = NotSet], e)
    /\ \A name \in DOMAIN f.tags : ContainsAny(e, name, f.tags[name])

Goodness(name, authors) ==
    CASE name \in {"e", "E", "q", "a", "A", "i", "I", "g", "r"} -> 8
      [] name \in {"h", "t", "l", "k", "K"} -> 6
      [] name = "d" -> IF authors THEN 7 ELSE 4
      [] name = "p" -> 2
      [] OTHER -> 0

\* The walk over the Go map of tags may choose any of these: the names of the
\* first group win over each other, and so do those of the third.
ChooseNarrowestTag(names, authors) ==
    {n \in names : \A m \in names : Goodness(m, authors) <= Goodness(n, authors)}

ExtraTag(names, authors) == IF names = {} THEN {NoTag} ELSE ChooseNarrowestTag(names, authors)

TimelineScans(f) ==
    CASE f.authors # NotSet /\ f.kinds # NotSet -> {<<"pubkeyKind", a, k>> : a \in f.authors, k \in f.kinds}
      [] f.authors # NotSet /\ f.kinds = NotSet -> {<<"pubkey", a>> : a \in f.authors}
      [] f.authors = NotSet /\ f.kinds # NotSet -> {<<"kind", k>> : k \in f.kinds}
      [] OTHER -> {<<"createdAt">>}

TagScans(f, name, Prefix(_)) == {Prefix(<<name, v>>) : v \in f.tags[name]}

\* What is left to be checked in the events found.
Plan(scans, authors, kinds, tag, post) ==
    [scans |-> scans, authors |-> authors, kinds |-> kinds, tag |-> tag, post |-> post]

\* Names that say nothing are not worth an index of tags when there is another.
UsesTags(f) ==
    /\ DOMAIN f.tags # {}
    /\ \/ f.authors = NotSet /\ f.kinds = NotSet
       \/ \E n \in DOMAIN f.tags : Goodness(n, f.authors # NotSet) >= 2

\* One tag chooses the index and one more is checked; a third is not looked at.
PrepareQueries(f, Prefix(_), extraWithAuthors) ==
    IF UsesTags(f)
    THEN UNION {{Plan(TagScans(f, n, Prefix), f.authors, f.kinds, x, FALSE) :
                     x \in ExtraTag(DOMAIN f.tags \ {n}, extraWithAuthors)} :
                 n \in ChooseNarrowestTag(DOMAIN f.tags, f.authors # NotSet)}
    ELSE {Plan(TimelineScans(f), NotSet, NotSet, x, FALSE) :
              x \in IF f.authors = NotSet /\ f.kinds = NotSet THEN {NoTag}
                    ELSE ExtraTag(DOMAIN f.tags, f.authors # NotSet)}

BoltPlans(f) == PrepareQueries(f, BoltTagPrefix, f.authors # NotSet)

BadgerPlans(f) == PrepareQueries(f, BadgerTagPrefix, f.authors # NotSet)

\* pebble chooses the extra tag without a look at the authors.
PebblePlans(f) == PrepareQueries(f, PebbleTagQueryPrefix, FALSE)

\* pebbledb2 prefers authors to tags, takes the tag with the fewest values and
\* checks the whole filter afterwards if a part of it is not in the key.
Pebble2Plans(f) ==
    LET fewest == {n \in DOMAIN f.tags : \A m \in DOMAIN f.tags :
                     Cardinality(f.tags[n]) <= Cardinality(f.tags[m])}
    IN  IF f.authors = NotSet /\ DOMAIN f.tags # {}
        THEN {Plan(TagScans(f, n, Pebble2TagPrefix), NotSet, NotSet, NoTag,
                   f.kinds # NotSet \/ DOMAIN f.tags # {n} \/ f.search # NotSet) : n \in fewest}
        ELSE {Plan(TimelineScans(f), NotSet, NotSet, NoTag,
                   DOMAIN f.tags # {} \/ f.search # NotSet)}

Plans(b, f) ==
    CASE b = "bolt"    -> BoltPlans(f)
      [] b = "badger"  -> BadgerPlans(f)
      [] b = "pebble"  -> PebblePlans(f)
      [] b = "pebble2" -> Pebble2Plans(f)

\* The checks of an event that an index has led to.
Accepts(plan, f, e) ==
    /\ Allows(plan.authors, Author[e])
    /\ Allows(plan.kinds, Kind[e])
    /\ plan.tag # NoTag => ContainsAny(e, plan.tag, f.tags[plan.tag])
    /\ plan.post => KVMatches(f, e)
=============================================================================
