------------------------------ MODULE EventData ------------------------------
(***************************************************************************)
(* Events and filters as the stores see them (kinds.go, filter.go,         *)
(* utils.go, tags.go).  An event is its id; its fields are functions of    *)
(* the id.  Ids are numbers so that they can be compared, as bytes.Compare *)
(* does with theirs.                                                       *)
(***************************************************************************)
EXTENDS Integers, FiniteSets

CONSTANTS
    Events,     \* the ids
    CreatedAt,  \* event -> its timestamp
    Kind,       \* event -> its kind
    Author,     \* event -> its public key
    D,          \* event -> the value of its "d" tag, or NoD
    NoD,
    NotSet      \* a field that a filter does not set

ASSUME EventAssumption ==
    /\ Events \subseteq Nat \ {0} /\ IsFiniteSet(Events)
    /\ CreatedAt \in [Events -> Nat \ {0}]
    /\ Kind \in [Events -> Nat]
    /\ DOMAIN Author = Events /\ DOMAIN D = Events
    /\ NoD # ""

ASSUME NotSetAssumption ==
    \A e \in Events : NotSet \notin {{Kind[e]}, {Author[e]}, {D[e]}, {""}}

-----------------------------------------------------------------------------
(* Kinds *)

IsRegular(k) == k < 10000 /\ k # 0 /\ k # 3
IsReplaceable(k) == k = 0 \/ k = 3 \/ k \in 10000..19999
IsEphemeral(k) == k \in 20000..29999
IsAddressable(k) == k \in 30000..39999

GetD(e) == IF D[e] = NoD THEN "" ELSE D[e]

\* Of two versions with one timestamp the lower id is the newer one.
IsOlder(previous, next) ==
    \/ CreatedAt[previous] < CreatedAt[next]
    \/ CreatedAt[previous] = CreatedAt[next] /\ previous > next

-----------------------------------------------------------------------------
(* Filters: ids, kinds, authors and ds are sets or NotSet; since and until are  *)
(* 0 when they are not set, and so is limit.                                 *)

Open == [ids |-> NotSet, kinds |-> NotSet, authors |-> NotSet, ds |-> NotSet,
         since |-> 0, until |-> 0, limit |-> 0, limitZero |-> FALSE]

Allows(field, value) == field = NotSet \/ value \in field

MatchesIgnoringTimestampConstraints(f, e) ==
    /\ Allows(f.ids, e)
    /\ Allows(f.kinds, Kind[e])
    /\ Allows(f.authors, Author[e])
    /\ Allows(f.ds, D[e])

Matches(f, e) ==
    /\ MatchesIgnoringTimestampConstraints(f, e)
    /\ f.since # 0 => CreatedAt[e] >= f.since
    /\ f.until # 0 => CreatedAt[e] <= f.until

\* A filter that names authors and replaceable kinds can match one event for
\* each pair, if the store keeps one version of each.
OnePerAuthorAndKind(f) ==
    f.authors # NotSet /\ f.kinds # NotSet /\ \A k \in f.kinds : IsReplaceable(k)

OnePerAddress(f) ==
    /\ f.authors # NotSet /\ f.kinds # NotSet /\ f.ds \notin {NotSet, {}}
    /\ \A k \in f.kinds : IsAddressable(k)

\* math.MaxInt: more events than there are.
MaxInt == Cardinality(Events) + 1

GetTheoreticalLimit(f) ==
    CASE f.ids # NotSet            -> Cardinality(f.ids)
      [] f.ids = NotSet /\ OnePerAuthorAndKind(f) -> Cardinality(f.authors) * Cardinality(f.kinds)
      [] f.ids = NotSet /\ ~OnePerAuthorAndKind(f) /\ OnePerAddress(f) ->
             Cardinality(f.authors) * Cardinality(f.kinds) * Cardinality(f.ds)
      [] OTHER                  -> IF f.limit > 0 THEN f.limit
                                   ELSE IF f.limitZero THEN 0 ELSE MaxInt

\* The filter with which ReplaceEvent looks for the version it replaces.
PreviousFilter(e) ==
    [ids |-> NotSet, kinds |-> {Kind[e]}, authors |-> {Author[e]},
     ds |-> IF IsAddressable(Kind[e]) THEN {GetD(e)} ELSE NotSet,
     since |-> 0, until |-> 0, limit |-> 1, limitZero |-> FALSE]

\* The versions that an event competes with.
Rivals(e) == {x \in Events : Matches(PreviousFilter(e), x)}
=============================================================================
