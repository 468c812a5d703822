--------------------------- MODULE SliceStoreProofs ---------------------------
(***************************************************************************)
(* The slice store keeps its order and implements EventStore, for any      *)
(* events and any capacity.                                                *)
(*                                                                         *)
(* The slice is out of order while a writer is at work, so the invariant   *)
(* says what each step of a write finds: after the append everything but   *)
(* the last cell is sorted and the place of the event is known (ShiftInv), *)
(* after the copy everything but the last cell is (CutInv).  OrderInv also *)
(* remembers why a replacement began (PendingInv), which is what makes it  *)
(* one atomic step of the abstract store when its event is appended.       *)
(*                                                                         *)
(* WinInv follows the versions that were offered to ReplaceEvent, RaceInv  *)
(* the cells that a reader without the lock can come across, and QuietInv  *)
(* what it has yielded when no writer disturbed it.                        *)
(***************************************************************************)
EXTENDS SliceStore, FiniteSetTheorems, WellFoundedInduction, TLAPS

Sorted(n) == \A i, j \in 1..n : i < j => Before(array[i], array[j])

CellInv ==
    /\ array \in [Index -> Events \cup {None}]
    /\ len \in 0..Capacity
    /\ mu \in [pc : {"free", "shift", "cut", "append"}, e : Events \cup {None},
               old : Events \cup {None}, at : 0..Capacity]
    /\ \A i \in 1..len : array[i] \in Events

FreeInv ==
    /\ mu.pc = "free" => mu = Free
    /\ mu.pc \in {"free", "append"} => Sorted(len)

CutInv == mu.pc = "cut" => mu.at \in 1..len /\ mu.old \in Events /\ Sorted(len - 1)

ShiftInv ==
    mu.pc = "shift" =>
        /\ len >= 1 /\ mu.e \in Events /\ mu.at \in 1..len
        /\ array[len] = mu.e
        /\ Sorted(len - 1)
        /\ \A i \in 1..(mu.at - 1) : Before(array[i], mu.e)
        /\ \A i \in mu.at..(len - 1) : Before(mu.e, array[i])

\* The event of a replacement is newer than the one version that it replaces.
PendingInv ==
    /\ mu.pc = "append" => mu.e \in Events
    /\ mu.pc \in {"cut", "append"} /\ mu.e # None =>
        /\ ~IsRegular(Kind[mu.e])
        /\ mu.old \in Rivals(mu.e) /\ IsOlder(mu.old, mu.e)
        /\ \A i \in 1..(IF mu.pc = "cut" THEN len - 1 ELSE len) : array[i] \notin Rivals(mu.e)

OrderInv == CellInv /\ FreeInv /\ CutInv /\ ShiftInv

-----------------------------------------------------------------------------
(* The order *)

LEMMA BeforeOrder ==
    /\ \A a \in Events : ~Before(a, a)
    /\ \A a, b \in Events : a # b => Before(a, b) \/ Before(b, a)
    /\ \A a, b, c \in Events : Before(a, b) /\ Before(b, c) => Before(a, c)
  <1>1. \A a \in Events : a \in Nat /\ CreatedAt[a] \in Nat
    BY EventAssumption
  <1> QED
    BY <1>1 DEF Before

\* In a sorted slice no event is twice.
LEMMA SortedDistinct ==
    ASSUME NEW n \in Nat, Sorted(n), \A i \in 1..n : array[i] \in Events
    PROVE  \A i, j \in 1..n : array[i] = array[j] => i = j
  BY BeforeOrder DEF Sorted

\* The place that the search finds divides the slice.
LEMMA PlaceDivides ==
    ASSUME CellInv, Sorted(len), NEW e \in Events, NEW i \in 1..(len + 1),
           IsPlace(e, i), ~FoundAt(e, i)
    PROVE  /\ \A j \in 1..(i - 1) : Before(array[j], e)
           /\ \A j \in i..len : Before(e, array[j])
  <1> USE SliceAssumption DEF CellInv
  <1>1. \A j \in 1..(i - 1) : Before(array[j], e)
    BY DEF IsPlace
  <1>2. ASSUME NEW j \in i..len PROVE Before(e, array[j])
    <2>1. i \in 1..len /\ j \in 1..len
      BY <1>2
    <2>2. Before(e, array[i])
      BY <2>1, BeforeOrder DEF IsPlace, FoundAt
    <2>3. i = j \/ Before(array[i], array[j])
      BY <2>1, <1>2 DEF Sorted
    <2> QED
      BY <2>1, <2>2, <2>3, BeforeOrder
  <1> QED
    BY <1>1, <1>2

-----------------------------------------------------------------------------
(* The steps of a write *)

LEMMA AppendStep ==
    ASSUME OrderInv, NEW e \in Events, mu.pc \in {"free", "append"},
           NEW i \in 1..(len + 1), IsPlace(e, i), ~FoundAt(e, i), AppendAt(e, i)
    PROVE  OrderInv' /\ mu'.pc = "shift"
  <1> USE SliceAssumption DEF OrderInv, CellInv
  <1>0. len + 1 \in Index /\ len' = len + 1 /\ len \in Nat
    BY DEF AppendAt, Index
  <1>1. /\ \A j \in 1..len : array'[j] = array[j]
        /\ array'[len + 1] = e
        /\ array' \in [Index -> Events \cup {None}]
    BY <1>0 DEF AppendAt, Index
  <1>2. mu' = [pc |-> "shift", e |-> e, old |-> None, at |-> i]
    BY DEF AppendAt
  <1>3. /\ \A j \in 1..(i - 1) : Before(array[j], e)
        /\ \A j \in i..len : Before(e, array[j])
    BY PlaceDivides DEF FreeInv
  <1>4. CellInv'
    <2>1. i \in 0..Capacity
      BY <1>0 DEF Index
    <2> QED
      BY <1>0, <1>1, <1>2, <2>1 DEF Index
  <1>5. ShiftInv'
    <2>1. Sorted(len)
      BY DEF FreeInv
    <2>2. \A j, k \in 1..(len' - 1) : j < k => Before(array'[j], array'[k])
      BY <1>0, <1>1, <2>1 DEF Sorted
    <2>3. \A j \in 1..(i - 1) : Before(array'[j], e)
      BY <1>0, <1>1, <1>3
    <2>4. \A j \in i..(len' - 1) : Before(e, array'[j])
      BY <1>0, <1>1, <1>3
    <2> QED
      BY <1>0, <1>1, <1>2, <2>2, <2>3, <2>4 DEF ShiftInv, Sorted
  <1> QED
    BY <1>2, <1>4, <1>5 DEF FreeInv, CutInv

LEMMA ShiftStep ==
    ASSUME OrderInv, Shift
    PROVE  /\ OrderInv' /\ mu'.pc = "free"
           /\ {array'[i] : i \in 1..len'} = {array[i] : i \in 1..len}
  <1> USE SliceAssumption DEF OrderInv, CellInv
  <1> DEFINE at == mu.at
             e == mu.e
  <1>1. /\ len >= 1 /\ e \in Events /\ at \in 1..len /\ array[len] = e /\ Sorted(len - 1)
        /\ \A i \in 1..(at - 1) : Before(array[i], e)
        /\ \A i \in at..(len - 1) : Before(e, array[i])
    BY DEF Shift, ShiftInv
  <1>2. mu' = Free /\ len' = len
    BY DEF Shift
  <1>3. /\ array' \in [Index -> Events \cup {None}]
        /\ \A k \in 1..(at - 1) : array'[k] = array[k]
        /\ array'[at] = e
        /\ \A k \in (at + 1)..len : array'[k] = array[k - 1]
    <2>1. array' = [i \in Index |-> IF i < at \/ i > len THEN array[i]
                                   ELSE IF i = at THEN e ELSE array[i - 1]]
      BY DEF Shift
    <2>2. \A i \in Index : ~(i < at \/ i > len) /\ i # at => i - 1 \in Index
      BY <1>1 DEF Index
    <2> QED
      BY <1>1, <2>1, <2>2 DEF Index
  <1>4. \A j, k \in 1..len : j < k => Before(array'[j], array'[k])
    <2> SUFFICES ASSUME NEW j \in 1..len, NEW k \in 1..len, j < k PROVE Before(array'[j], array'[k])
      OBVIOUS
    <2>1. CASE k < at
      BY <1>1, <1>3, <2>1 DEF Sorted
    <2>2. CASE k = at
      BY <1>1, <1>3, <2>2
    <2>3. CASE j = at
      BY <1>1, <1>3, <2>3
    <2>4. CASE j < at /\ k > at
      BY <1>1, <1>3, <2>4 DEF Sorted
    <2>5. CASE j > at
      BY <1>1, <1>3, <2>5 DEF Sorted
    <2> QED
      BY <1>1, <2>1, <2>2, <2>3, <2>4, <2>5
  <1>5. {array'[i] : i \in 1..len'} = {array[i] : i \in 1..len}
    <2>1. ASSUME NEW k \in 1..len PROVE array'[k] \in {array[i] : i \in 1..len}
      <3>1. CASE k < at
        BY <1>3, <3>1
      <3>2. CASE k = at
        BY <1>1, <1>3, <3>2
      <3>3. CASE k > at
        BY <1>1, <1>3, <3>3
      <3> QED
        BY <1>1, <3>1, <3>2, <3>3
    <2>2. ASSUME NEW k \in 1..len PROVE array[k] \in {array'[i] : i \in 1..len}
      <3>1. CASE k < at
        BY <1>3, <3>1
      <3>2. CASE k >= at /\ k < len
        <4>1. k + 1 \in (at + 1)..len /\ array'[k + 1] = array[k]
          BY <1>1, <1>3, <3>2
        <4> QED
          BY <4>1, <1>1
      <3>3. CASE k = len
        BY <1>1, <1>3, <3>3
      <3> QED
        BY <1>1, <3>1, <3>2, <3>3
    <2> QED
      BY <1>2, <2>1, <2>2
  <1>6. \A k \in 1..len : array'[k] \in Events
    BY <1>5, <1>2
  <1>7. CellInv'
    BY <1>2, <1>3, <1>6 DEF Free
  <1> QED
    BY <1>2, <1>4, <1>5, <1>7 DEF FreeInv, CutInv, ShiftInv, Sorted, Free

LEMMA CopyStep ==
    ASSUME OrderInv, mu = Free, NEW i \in 1..len, NEW next \in Events \cup {None}, Copy(i, next)
    PROVE  /\ OrderInv'
           /\ mu' = [pc |-> "cut", e |-> next, old |-> array[i], at |-> i]
           /\ len' = len
           /\ {array'[k] : k \in 1..(len - 1)} = {array[k] : k \in 1..len} \ {array[i]}
  <1> USE SliceAssumption DEF OrderInv, CellInv
  <1>1. mu' = [pc |-> "cut", e |-> next, old |-> array[i], at |-> i] /\ len' = len
    BY DEF Copy
  <1>2. /\ array' \in [Index -> Events \cup {None}]
        /\ \A k \in 1..(i - 1) : array'[k] = array[k]
        /\ \A k \in i..(len - 1) : array'[k] = array[k + 1]
        /\ array'[len] = array[len]
    BY DEF Copy, Index
  <1>3. Sorted(len)
    BY DEF FreeInv, Free
  <1>4. \A j, k \in 1..(len - 1) : j < k => Before(array'[j], array'[k])
    <2> SUFFICES ASSUME NEW j \in 1..(len - 1), NEW k \in 1..(len - 1), j < k
                 PROVE Before(array'[j], array'[k])
      OBVIOUS
    <2>1. CASE k < i
      BY <1>2, <1>3, <2>1 DEF Sorted
    <2>2. CASE j < i /\ k >= i
      BY <1>2, <1>3, <2>2 DEF Sorted
    <2>3. CASE j >= i
      BY <1>2, <1>3, <2>3 DEF Sorted
    <2> QED
      BY <2>1, <2>2, <2>3
  <1>5. {array'[k] : k \in 1..(len - 1)} = {array[k] : k \in 1..len} \ {array[i]}
    <2>0. \A j, k \in 1..len : array[j] = array[k] => j = k
      BY <1>3, SortedDistinct
    <2>1. ASSUME NEW k \in 1..(len - 1)
          PROVE array'[k] \in {array[j] : j \in 1..len} /\ array'[k] # array[i]
      <3>1. CASE k < i
        BY <1>2, <2>0, <3>1
      <3>2. CASE k >= i
        BY <1>2, <2>0, <3>2
      <3> QED
        BY <3>1, <3>2
    <2>2. ASSUME NEW k \in 1..len, array[k] # array[i]
          PROVE array[k] \in {array'[j] : j \in 1..(len - 1)}
      <3>1. CASE k < i
        BY <1>2, <3>1
      <3>2. CASE k > i
        <4>1. k - 1 \in i..(len - 1) /\ array'[k - 1] = array[k]
          BY <1>2, <3>2
        <4> QED
          BY <4>1
      <3> QED
        BY <2>2, <3>1, <3>2
    <2> QED
      BY <2>1, <2>2
  <1>6. \A k \in 1..len : array'[k] \in Events
    <2>1. \A k \in 1..(len - 1) : array'[k] \in Events
      BY <1>5
    <2> QED
      BY <1>2, <2>1
  <1>7. CellInv'
    BY <1>1, <1>2, <1>6
  <1> QED
    BY <1>1, <1>4, <1>5, <1>7 DEF FreeInv, CutInv, ShiftInv, Sorted

LEMMA CutStep ==
    ASSUME OrderInv, Cut
    PROVE  OrderInv' /\ array' = array /\ len' = len - 1
  <1> USE SliceAssumption DEF OrderInv, CellInv
  <1>1. len >= 1 /\ Sorted(len - 1) /\ array' = array /\ len' = len - 1
    BY DEF Cut, CutInv
  <1>2. \/ mu' = Free
        \/ mu.e # None /\ mu' = [pc |-> "append", e |-> mu.e, old |-> mu.old, at |-> 0]
    BY DEF Cut
  <1>3. CellInv'
    BY <1>1, <1>2 DEF Free
  <1> QED
    BY <1>1, <1>2, <1>3 DEF FreeInv, CutInv, ShiftInv, Sorted, Free

\* Readers change nothing that the invariant is about.
LEMMA ReadStep == Read => UNCHANGED <<array, len, mu>>
  BY DEF Read, QueryStart, CountStart, ReadHalf, ReadNext, ReadEnd, Begin

LEMMA OrderInit == Init => OrderInv
  BY SliceAssumption DEF Init, OrderInv, CellInv, FreeInv, CutInv, ShiftInv, Sorted, Free, Index

LEMMA OrderStep == OrderInv /\ PendingInv /\ [Next]_vars => OrderInv'
  <1> SUFFICES ASSUME OrderInv, PendingInv, [Next]_vars PROVE OrderInv'
    OBVIOUS
  <1>1. CASE UNCHANGED <<array, len, mu>>
    BY <1>1 DEF OrderInv, CellInv, FreeInv, CutInv, ShiftInv, Sorted
  <1>2. ASSUME NEW e \in Events, SaveEvent(e) \/ ReplaceNothing(e) PROVE OrderInv'
    <2>1. mu.pc = "free"
      BY <1>2 DEF SaveEvent, ReplaceNothing, Free
    <2>2. PICK i \in 1..(len + 1) : IsPlace(e, i) /\ ~FoundAt(e, i) /\ AppendAt(e, i)
      BY <1>2 DEF SaveEvent, ReplaceNothing
    <2> QED
      BY <2>1, <2>2, AppendStep
  <1>3. ASSUME ReplaceSave PROVE OrderInv'
    <2>1. mu.pc = "append" /\ mu.e \in Events
      BY <1>3 DEF ReplaceSave, PendingInv
    <2>2. PICK i \in 1..(len + 1) : IsPlace(mu.e, i) /\ ~FoundAt(mu.e, i) /\ AppendAt(mu.e, i)
      BY <1>3 DEF ReplaceSave
    <2> QED
      BY <2>1, <2>2, AppendStep
  <1>4. ASSUME NEW e \in Events, DeleteEvent(e) PROVE OrderInv'
    <2>1. PICK i \in 1..len : Copy(i, None)
      BY <1>4 DEF DeleteEvent
    <2> QED
      BY <1>4, <2>1, CopyStep DEF DeleteEvent
  <1>5. ASSUME NEW e \in Events, ReplaceOlder(e) PROVE OrderInv'
    <2>1. PICK i \in 1..len : Copy(i, e)
      BY <1>5 DEF ReplaceOlder
    <2> QED
      BY <1>5, <2>1, CopyStep DEF ReplaceOlder
  <1>6. ASSUME ReplaceDuplicate PROVE OrderInv'
    BY <1>6, SliceAssumption
       DEF ReplaceDuplicate, OrderInv, CellInv, FreeInv, CutInv, ShiftInv, Sorted, Free
  <1>7. CASE Shift
    BY <1>7, ShiftStep
  <1>8. CASE Cut
    BY <1>8, CutStep
  <1>9. ASSUME NEW e \in Events, ReplaceRefused(e) PROVE UNCHANGED <<array, len, mu>>
    BY <1>9 DEF ReplaceRefused
  <1>10. CASE Read
    BY <1>1, <1>10, ReadStep
  <1>11. CASE UNCHANGED vars
    BY <1>1, <1>11 DEF vars
  <1> QED
    BY <1>1, <1>2, <1>3, <1>4, <1>5, <1>6, <1>7, <1>8, <1>9, <1>10, <1>11
       DEF Next, Write, ReplaceEvent

-----------------------------------------------------------------------------
(* Versions *)

Findable(e) == IsAddressable(Kind[e]) => D[e] # NoD

\* What it takes to be a rival, with the filter spelled out.
LEMMA RivalMeans ==
    ASSUME NEW e \in Events, NEW x \in Events
    PROVE  x \in Rivals(e) <=> /\ Kind[x] = Kind[e] /\ Author[x] = Author[e]
                               /\ IsAddressable(Kind[e]) => D[x] = GetD(e)
  <1> DEFINE f == PreviousFilter(e)
  <1>1. f.ids = NotSet /\ f.kinds = {Kind[e]} /\ f.authors = {Author[e]} /\ f.since = 0 /\ f.until = 0
    BY DEF PreviousFilter
  <1>2. f.ds = IF IsAddressable(Kind[e]) THEN {GetD(e)} ELSE NotSet
    BY DEF PreviousFilter
  <1>3. NotSet # {Kind[e]} /\ NotSet # {Author[e]} /\ NotSet # {GetD(e)}
    BY NotSetAssumption DEF GetD
  <1>4. Allows(f.ids, x) /\ (Allows(f.kinds, Kind[x]) <=> Kind[x] = Kind[e])
    BY <1>1, <1>3 DEF Allows
  <1>5. Allows(f.authors, Author[x]) <=> Author[x] = Author[e]
    BY <1>1, <1>3 DEF Allows
  <1>6. Allows(f.ds, D[x]) <=> (IsAddressable(Kind[e]) => D[x] = GetD(e))
    BY <1>2, <1>3 DEF Allows
  <1>7. Matches(f, x) <=> MatchesIgnoringTimestampConstraints(f, x)
    BY <1>1 DEF Matches
  <1>8. x \in Rivals(e) <=> Matches(f, x)
    BY DEF Rivals
  <1> HIDE DEF f
  <1> QED
    BY <1>4, <1>5, <1>6, <1>7, <1>8 DEF MatchesIgnoringTimestampConstraints

\* The versions that compete with one event compete with each other.
LEMMA RivalFacts ==
    /\ \A e, x \in Events : x \in Rivals(e) => Kind[x] = Kind[e] /\ Findable(x)
    /\ \A e, x, y \in Events : x \in Rivals(e) /\ y \in Rivals(e) => y \in Rivals(x)
    /\ \A e, x \in Events : Findable(e) /\ e \in Rivals(x) => x \in Rivals(e) \/ ~Findable(x)
  <1>1. NoD # ""
    BY EventAssumption
  <1>2. \A e \in Events : GetD(e) # NoD /\ (D[e] # NoD => GetD(e) = D[e])
    BY <1>1 DEF GetD
  <1> QED
    BY <1>2, RivalMeans DEF Findable

\* No two versions of an event.
Single(S) == \A x, y \in S : x # y /\ ~IsRegular(Kind[x]) /\ Findable(x) /\ Findable(y)
                                => y \notin Rivals(x)

LEMMA SaveSingle ==
    ASSUME NEW S \in SUBSET Events, Single(S), NEW e \in Events, IsRegular(Kind[e])
    PROVE  Single(S \cup {e})
  BY RivalFacts DEF Single

LEMMA ReplaceSingle ==
    ASSUME NEW S \in SUBSET Events, Single(S), NEW e \in Events
    PROVE  Single((S \ Rivals(e)) \cup {e})
  BY RivalFacts DEF Single

-----------------------------------------------------------------------------
(* The refinement *)

IInv == OrderInv /\ PendingInv /\ Single(Contents)

\* The parts of the interface are those of the slice store.
LEMMA StoreSame ==
    ASSUME NEW e \in Events
    PROVE  /\ Store!Rivals(e) = Rivals(e)
           /\ Store!IsRegular(Kind[e]) <=> IsRegular(Kind[e])
           /\ \A x \in Events : Store!IsOlder(x, e) <=> IsOlder(x, e)
           /\ Store!Findable(e) <=> Findable(e)
  <1>1. Store!PreviousFilter(e) = PreviousFilter(e)
    BY DEF Store!PreviousFilter, PreviousFilter, Store!IsAddressable, IsAddressable, Store!GetD, GetD
  <1>2. \A f, x : Store!Matches(f, x) <=> Matches(f, x)
    BY DEF Store!Matches, Matches, Store!MatchesIgnoringTimestampConstraints,
           MatchesIgnoringTimestampConstraints, Store!Allows, Allows
  <1>3. Store!Rivals(e) = Rivals(e)
    BY <1>1, <1>2 DEF Store!Rivals, Rivals
  <1>4. Store!IsRegular(Kind[e]) <=> IsRegular(Kind[e])
    BY DEF Store!IsRegular, IsRegular
  <1>5. \A x \in Events : Store!IsOlder(x, e) <=> IsOlder(x, e)
    BY DEF Store!IsOlder, IsOlder
  <1>6. Store!Findable(e) <=> Findable(e)
    BY DEF Store!Findable, Findable, Store!IsAddressable, IsAddressable
  <1> QED
    BY <1>3, <1>4, <1>5, <1>6

LEMMA ContentsType == OrderInv /\ PendingInv => Contents \subseteq Events
  <1> SUFFICES ASSUME OrderInv, PendingInv PROVE Contents \subseteq Events
    OBVIOUS
  <1> USE SliceAssumption DEF OrderInv, CellInv
  <1>1. InSlice \subseteq Events
    BY DEF InSlice
  <1>2. mu.pc = "cut" => {array[i] : i \in 1..(len - 1)} \subseteq Events
    BY DEF CutInv
  <1>3. mu.pc \in {"cut", "append"} /\ mu.e # None => mu.old \in Events
    BY DEF PendingInv, Rivals
  <1>4. mu.pc = "append" => mu.e # None
    BY DEF PendingInv
  <1> QED
    BY <1>1, <1>2, <1>3, <1>4 DEF Contents

\* Of the versions of an event the slice holds one.
LEMMA PreviousIsOnly ==
    ASSUME IInv, mu = Free, NEW e \in Events, ~IsRegular(Kind[e]),
           NEW i \in 1..len, array[i] \in Rivals(e)
    PROVE  \A x \in InSlice \ {array[i]} : x \notin Rivals(e)
  <1>1. InSlice \subseteq Events /\ array[i] \in InSlice /\ Single(InSlice)
    BY SliceAssumption DEF IInv, OrderInv, CellInv, InSlice, Contents, Free
  <1> QED
    BY <1>1, RivalFacts DEF Single

LEMMA PendingStep == IInv /\ [Next]_vars => PendingInv'
  <1> SUFFICES ASSUME IInv, [Next]_vars PROVE PendingInv'
    OBVIOUS
  <1>1. CASE UNCHANGED <<array, len, mu>>
    BY <1>1 DEF IInv, PendingInv
  <1>2. CASE mu'.pc \in {"free", "shift"}
    BY <1>2 DEF PendingInv
  <1>3. ASSUME NEW e \in Events, SaveEvent(e) \/ ReplaceNothing(e) PROVE mu'.pc = "shift"
    BY <1>3 DEF SaveEvent, ReplaceNothing, AppendAt
  <1>4. ASSUME ReplaceSave PROVE mu'.pc = "shift"
    BY <1>4 DEF ReplaceSave, AppendAt
  <1>5. ASSUME Shift \/ ReplaceDuplicate PROVE mu'.pc = "free"
    BY <1>5 DEF Shift, ReplaceDuplicate, Free
  <1>6. ASSUME NEW e \in Events, DeleteEvent(e) PROVE PendingInv'
    BY <1>6 DEF DeleteEvent, Copy, PendingInv
  <1>7. ASSUME NEW e \in Events, ReplaceOlder(e) PROVE PendingInv'
    <2>1. PICK i \in 1..len : IsPrevious(e, i) /\ IsOlder(array[i], e) /\ Copy(i, e)
      BY <1>7 DEF ReplaceOlder
    <2>2. mu = Free /\ ~IsRegular(Kind[e]) /\ OrderInv
      BY <1>7 DEF ReplaceOlder, IInv
    <2>3. /\ mu' = [pc |-> "cut", e |-> e, old |-> array[i], at |-> i] /\ len' = len
          /\ {array'[k] : k \in 1..(len - 1)} = InSlice \ {array[i]}
      BY <2>1, <2>2, CopyStep DEF InSlice
    <2>4. array[i] \in Rivals(e)
      BY <2>1 DEF IsPrevious
    <2>5. \A k \in 1..(len - 1) : array'[k] \notin Rivals(e)
      BY <2>2, <2>3, <2>4, PreviousIsOnly
    <2> QED
      BY <2>1, <2>2, <2>3, <2>4, <2>5 DEF PendingInv
  <1>8. CASE Cut
    <2>1. CASE mu.e = None
      BY <1>8, <1>2, <2>1 DEF Cut, Free
    <2>2. CASE mu.e # None
      <3>1. mu' = [pc |-> "append", e |-> mu.e, old |-> mu.old, at |-> 0]
        BY <1>8, <2>2 DEF Cut
      <3>2. mu.pc = "cut" /\ array' = array /\ len' = len - 1
        BY <1>8 DEF Cut
      <3>3. mu.e \in Events
        BY <2>2 DEF IInv, OrderInv, CellInv
      <3> QED
        BY <2>2, <3>1, <3>2, <3>3 DEF IInv, PendingInv
    <2> QED
      BY <2>1, <2>2
  <1>9. ASSUME NEW e \in Events, ReplaceRefused(e) PROVE UNCHANGED <<array, len, mu>>
    BY <1>9 DEF ReplaceRefused
  <1>10. CASE Read
    BY <1>1, <1>10, ReadStep
  <1>11. CASE UNCHANGED vars
    BY <1>1, <1>11 DEF vars
  <1> QED
    BY <1>1, <1>2, <1>3, <1>4, <1>5, <1>6, <1>7, <1>8, <1>9, <1>10, <1>11
       DEF Next, Write, ReplaceEvent

\* Appending is where a replacement, or a save, takes effect.
LEMMA ReplaceMaps ==
    ASSUME IInv, NEW e \in Events, ~IsRegular(Kind[e]),
           \A r \in Rivals(e) \cap Contents : IsOlder(r, e),
           Contents' = (Contents \ Rivals(e)) \cup {e}
    PROVE  Store!StoreNext
  <1>1. Store!ReplaceEvent(e)
    BY StoreSame, ContentsType DEF Store!ReplaceEvent, IInv
  <1> QED
    BY <1>1, StoreSame DEF Store!StoreNext

\* What the writes of the slice do to what the callers see: the event that is
\* appended is there, and so is nothing else that was not ...
LEMMA AppendShows ==
    ASSUME CellInv, NEW e \in Events, NEW i \in 1..(len + 1), AppendAt(e, i)
    PROVE  Contents' = InSlice \cup {e}
  <1> USE SliceAssumption
  <1>1. /\ \A j \in 1..len : array'[j] = array[j]
        /\ array'[len + 1] = e /\ len' = len + 1 /\ mu'.pc = "shift"
    BY DEF AppendAt, CellInv, Index
  <1>2. 1..(len + 1) = (1..len) \cup {len + 1}
    BY DEF CellInv
  <1>3. {array'[j] : j \in 1..len'} = {array[j] : j \in 1..len} \cup {e}
    BY <1>1, <1>2
  <1> QED
    BY <1>1, <1>3 DEF Contents, InSlice

\* ... the event that is overwritten is gone, unless it is being replaced ...
LEMMA CopyHides ==
    ASSUME OrderInv, NEW i \in 1..len, NEW next \in Events \cup {None}, mu = Free, Copy(i, next)
    PROVE  Contents' = IF next = None THEN Contents \ {array[i]} ELSE Contents
  <1>1. /\ mu' = [pc |-> "cut", e |-> next, old |-> array[i], at |-> i] /\ len' = len
        /\ {array'[k] : k \in 1..(len - 1)} = InSlice \ {array[i]}
    BY CopyStep DEF InSlice
  <1>2. Contents = InSlice /\ array[i] \in InSlice
    BY DEF Contents, Free, InSlice
  <1> QED
    BY <1>1, <1>2 DEF Contents

\* ... and a replacement that waits for its append shows the older version.
LEMMA PendingShows ==
    ASSUME PendingInv, mu.pc = "append"
    PROVE  /\ mu.e \in Events /\ ~IsRegular(Kind[mu.e])
           /\ \A r \in Rivals(mu.e) \cap Contents : IsOlder(r, mu.e)
           /\ Contents \ Rivals(mu.e) = InSlice
  <1>1. mu.e \in Events /\ mu.e # None
    BY SliceAssumption DEF PendingInv
  <1>2. /\ ~IsRegular(Kind[mu.e]) /\ mu.old \in Rivals(mu.e) /\ IsOlder(mu.old, mu.e)
        /\ \A i \in 1..len : array[i] \notin Rivals(mu.e)
    BY <1>1 DEF PendingInv
  <1>3. Contents = InSlice \cup {mu.old} /\ InSlice \cap Rivals(mu.e) = {}
    BY <1>2 DEF Contents, InSlice
  <1> QED
    BY <1>1, <1>2, <1>3

\* Every step of the slice store is one of the interface, or does not touch
\* what the callers see.
LEMMA RefineStep == IInv /\ [Next]_vars => [Store!StoreNext]_Contents
  <1> SUFFICES ASSUME IInv, [Next]_vars PROVE Store!StoreNext \/ Contents' = Contents
    OBVIOUS
  <1> USE SliceAssumption
  <1>0. OrderInv /\ PendingInv /\ CellInv
    BY DEF IInv, OrderInv
  <1>1. CASE UNCHANGED <<array, len, mu>>
    BY <1>1 DEF Contents, InSlice
  <1>2. mu.pc = "free" => Contents = InSlice
    BY DEF Contents
  <1>3. ASSUME NEW e \in Events, SaveEvent(e) PROVE Store!StoreNext
    <2>1. PICK i \in 1..(len + 1) : AppendAt(e, i)
      BY <1>3 DEF SaveEvent
    <2>2. Contents' = Contents \cup {e} /\ IsRegular(Kind[e])
      BY <1>0, <1>2, <1>3, <2>1, AppendShows DEF SaveEvent, Free
    <2> QED
      BY <2>2, StoreSame DEF Store!StoreNext, Store!SaveEvent
  <1>4. ASSUME NEW e \in Events, ReplaceNothing(e) PROVE Store!StoreNext
    <2>1. PICK i \in 1..(len + 1) : AppendAt(e, i)
      BY <1>4 DEF ReplaceNothing
    <2>2. Contents = InSlice /\ Contents' = Contents \cup {e} /\ ~IsRegular(Kind[e])
      BY <1>0, <1>2, <1>4, <2>1, AppendShows DEF ReplaceNothing, Free
    <2>3. Contents \cap Rivals(e) = {}
      BY <1>4, <2>2 DEF ReplaceNothing, InSlice
    <2> QED
      BY <2>2, <2>3, ReplaceMaps
  <1>5. ASSUME ReplaceSave PROVE Store!StoreNext
    <2>1. mu.pc = "append" /\ mu.e \in Events
      BY <1>0, <1>5, PendingShows DEF ReplaceSave
    <2>2. PICK i \in 1..(len + 1) : AppendAt(mu.e, i)
      BY <1>5 DEF ReplaceSave
    <2>3. Contents' = InSlice \cup {mu.e}
      BY <1>0, <2>1, <2>2, AppendShows
    <2> QED
      BY <1>0, <2>1, <2>3, PendingShows, ReplaceMaps
  <1>6. ASSUME ReplaceDuplicate PROVE Store!StoreNext
    <2>1. mu.pc = "append" /\ mu.e \in Events
      BY <1>0, <1>6, PendingShows DEF ReplaceDuplicate
    <2>2. mu' = Free /\ array' = array /\ len' = len /\ mu.e \in InSlice
      BY <1>6 DEF ReplaceDuplicate, FoundAt, InSlice
    <2>3. Contents' = InSlice \cup {mu.e}
      BY <2>2 DEF Contents, InSlice, Free
    <2> QED
      BY <1>0, <2>1, <2>3, PendingShows, ReplaceMaps
  <1>7. ASSUME NEW e \in Events, DeleteEvent(e) PROVE Store!StoreNext
    <2>1. PICK i \in 1..len : array[i] = e /\ Copy(i, None)
      BY <1>7 DEF DeleteEvent, IsFirst
    <2>2. Contents' = Contents \ {e}
      BY <1>0, <1>7, <2>1, CopyHides DEF DeleteEvent
    <2> QED
      BY <2>2 DEF Store!StoreNext, Store!DeleteEvent
  <1>8. ASSUME NEW e \in Events, ReplaceOlder(e) PROVE Contents' = Contents
    BY <1>0, <1>8, SliceAssumption, CopyHides DEF ReplaceOlder
  <1>9. CASE Shift
    BY <1>0, <1>9, ShiftStep DEF Shift, Contents, InSlice
  <1>10. CASE Cut
    <2>1. mu.pc = "cut" /\ array' = array /\ len' = len - 1
      BY <1>10 DEF Cut
    <2>2. mu' = IF mu.e = None THEN Free ELSE [pc |-> "append", e |-> mu.e, old |-> mu.old, at |-> 0]
      BY <1>10 DEF Cut
    <2> QED
      BY <2>1, <2>2 DEF Contents, InSlice, Free
  <1>11. ASSUME NEW e \in Events, ReplaceRefused(e) PROVE UNCHANGED <<array, len, mu>>
    BY <1>11 DEF ReplaceRefused
  <1>12. CASE Read
    BY <1>1, <1>12, ReadStep
  <1>13. CASE UNCHANGED vars
    BY <1>1, <1>13 DEF vars
  <1> QED
    BY <1>1, <1>3, <1>4, <1>5, <1>6, <1>7, <1>8, <1>9, <1>10, <1>11, <1>12, <1>13
       DEF Next, Write, ReplaceEvent

\* A step of the interface keeps one version of every event.
LEMMA SingleStep == IInv /\ [Store!StoreNext]_Contents => Single(Contents)'
  <1> SUFFICES ASSUME IInv, [Store!StoreNext]_Contents PROVE Single(Contents')
    BY DEF Single
  <1>1. Contents \subseteq Events /\ Single(Contents)
    BY ContentsType DEF IInv
  <1>2. ASSUME NEW e \in Events, IsRegular(Kind[e]), Store!SaveEvent(e) PROVE Single(Contents')
    BY <1>1, <1>2, SaveSingle DEF Store!SaveEvent
  <1>3. ASSUME NEW e \in Events, Store!ReplaceEvent(e) PROVE Single(Contents')
    BY <1>1, <1>3, ReplaceSingle, StoreSame DEF Store!ReplaceEvent
  <1>4. ASSUME NEW e \in Events, Store!DeleteEvent(e) PROVE Single(Contents')
    BY <1>1, <1>4 DEF Store!DeleteEvent, Single
  <1>5. CASE Contents' = Contents
    BY <1>1, <1>5
  <1> QED
    BY <1>2, <1>3, <1>4, <1>5, StoreSame DEF Store!StoreNext

LEMMA Inductive == Spec => []IInv
  <1>1. Init => IInv
    <2>1. Init => PendingInv
      BY DEF Init, PendingInv, Free
    <2>2. Init => Contents = {}
      BY DEF Init, Contents, InSlice, Free
    <2> QED
      BY <2>1, <2>2, OrderInit DEF IInv, Single
  <1>2. IInv /\ [Next]_vars => IInv'
    BY OrderStep, PendingStep, RefineStep, SingleStep DEF IInv
  <1> QED
    BY <1>1, <1>2, PTL DEF Spec

-----------------------------------------------------------------------------

\* Whenever no writer is at work the slice is strictly sorted by eventComparator,
\* whatever saves, deletions and replacements came before.
THEOREM SliceIsSorted == Spec => []SortedWhenFree
  <1>1. IInv => SortedWhenFree
    BY DEF IInv, OrderInv, FreeInv, Sorted, SortedWhenFree
  <1> QED
    BY <1>1, Inductive, PTL

\* The slice store, whose writers append, shift, copy and cut cell by cell, does
\* what the interface says: each call is atomic, and ReplaceEvent keeps the newer.
THEOREM SliceImplementsStore == Spec => ImplementsEventStore
  <1>1. Init => Store!StoreInit
    BY DEF Init, Store!StoreInit, Contents, InSlice, Free
  <1> QED
    BY <1>1, RefineStep, Inductive, PTL DEF Spec, ImplementsEventStore, Store!StoreSpec

\* At no time does the store hold two versions of a replaceable or addressable
\* event that ReplaceEvent can find again.
THEOREM SliceKeepsOneVersion == Spec => []OneVersionKept
  <1>1. IInv => OneVersionKept
    <2> SUFFICES ASSUME IInv, NEW x \in Contents, NEW y \in Contents, x # y,
                        ~Store!IsRegular(Kind[x]), Store!Findable(x), Store!Findable(y)
                 PROVE  y \notin Store!Rivals(x)
      BY DEF OneVersionKept, Store!OneVersion
    <2>1. x \in Events /\ y \in Events /\ Single(Contents)
      BY ContentsType DEF IInv
    <2> QED
      BY <2>1, StoreSame DEF Single
  <1> QED
    BY <1>1, Inductive, PTL

-----------------------------------------------------------------------------
(* The newest version wins *)

\* What makes a version safe: it is in the store or has lost to one that is.
Beats(x, e) == x = e \/ (e \in Rivals(x) /\ ~IsOlder(x, e))
Kept(S, e) == \E x \in S : Beats(x, e)

\* A version that replaces another is safe although it is not in the store yet.
Pending(e) == mu.pc \in {"cut", "append"} /\ e = mu.e

WinInv ==
    /\ offered \subseteq Events
    /\ \A e \in offered : Findable(e) => Kept(Contents, e) \/ Pending(e)

LEMMA RivalOfItself == \A e \in Events : Findable(e) => e \in Rivals(e)
  <1>1. \A e \in Events : D[e] # NoD => GetD(e) = D[e]
    BY DEF GetD
  <1> QED
    BY <1>1, RivalMeans DEF Findable

\* Whoever competes with a rival competes with the event.
LEMMA RivalsMeet ==
    /\ \A e, x, y \in Events : y \in Rivals(e) /\ x \in Rivals(y) => x \in Rivals(e)
    /\ \A e, y \in Events : Findable(e) /\ y \in Rivals(e) => e \in Rivals(y)
  <1>1. NoD # ""
    BY EventAssumption
  <1>2. \A e \in Events : GetD(e) # NoD /\ (D[e] # NoD => GetD(e) = D[e])
    BY <1>1 DEF GetD
  <1> QED
    BY <1>2, RivalMeans DEF Findable

LEMMA OlderOrder ==
    /\ \A a, b \in Events : IsOlder(a, b) => ~IsOlder(b, a)
    /\ \A a, b, c \in Events : IsOlder(b, c) /\ ~IsOlder(b, a) => ~IsOlder(c, a)
  <1>1. \A a \in Events : a \in Nat /\ CreatedAt[a] \in Nat
    BY EventAssumption
  <1> QED
    BY <1>1 DEF IsOlder

\* What loses to a version that is replaced loses to the newer one.
LEMMA ReplaceKeeps ==
    ASSUME NEW S \in SUBSET Events, NEW e \in Events, NEW n \in Events,
           \A r \in Rivals(n) \cap S : IsOlder(r, n), Kept(S, e)
    PROVE  Kept((S \ Rivals(n)) \cup {n}, e)
  <1>1. PICK x \in S : Beats(x, e)
    BY DEF Kept
  <1>2. CASE x \notin Rivals(n)
    BY <1>1, <1>2 DEF Kept
  <1>3. CASE x \in Rivals(n)
    <2>1. e \in Rivals(n) /\ ~IsOlder(n, e)
      BY <1>1, <1>3, RivalsMeet, OlderOrder DEF Beats
    <2> QED
      BY <2>1 DEF Kept, Beats
  <1> QED
    BY <1>2, <1>3

LEMMA WinStep == IInv /\ WinInv /\ [Next]_vars => WinInv'
  <1> SUFFICES ASSUME IInv, WinInv, [Next]_vars PROVE WinInv'
    OBVIOUS
  <1>0. /\ OrderInv /\ PendingInv /\ CellInv /\ Contents \subseteq Events
        /\ None \notin Events
    BY ContentsType, SliceAssumption DEF IInv, OrderInv
  <1>1. CASE UNCHANGED <<array, len, mu, offered>>
    BY <1>1 DEF WinInv, Contents, InSlice, Pending
  <1>2. ASSUME Contents \subseteq Contents', offered' = offered, mu.pc = "free" PROVE WinInv'
    BY <1>2 DEF WinInv, Kept, Pending
  <1>3. ASSUME NEW e \in Events, SaveEvent(e) PROVE WinInv'
    <2>1. PICK i \in 1..(len + 1) : AppendAt(e, i)
      BY <1>3 DEF SaveEvent
    <2>2. Contents' = Contents \cup {e} /\ mu.pc = "free" /\ offered' = offered
      BY <1>0, <1>3, <2>1, AppendShows DEF SaveEvent, Free, Contents
    <2> QED
      BY <1>2, <2>2
  <1>4. ASSUME NEW e \in Events, ReplaceNothing(e) PROVE WinInv'
    <2>1. PICK i \in 1..(len + 1) : AppendAt(e, i)
      BY <1>4 DEF ReplaceNothing
    <2>2. Contents' = Contents \cup {e} /\ mu.pc = "free" /\ offered' = offered \cup {e}
      BY <1>0, <1>4, <2>1, AppendShows DEF ReplaceNothing, Free, Contents
    <2> QED
      BY <2>2 DEF WinInv, Kept, Pending, Beats
  <1>5. ASSUME mu.pc = "append", Contents' = InSlice \cup {mu.e}, offered' = offered PROVE WinInv'
    <2>1. Contents' = (Contents \ Rivals(mu.e)) \cup {mu.e} /\ mu.e \in Events
      BY <1>0, <1>5, PendingShows
    <2>2. ASSUME NEW e \in offered, Findable(e) PROVE Kept(Contents', e)
      <3>1. CASE Kept(Contents, e)
        BY <1>0, <1>5, <2>1, <3>1, PendingShows, ReplaceKeeps DEF WinInv
      <3>2. CASE Pending(e)
        BY <2>1, <3>2 DEF Pending, Kept, Beats
      <3> QED
        BY <2>2, <3>1, <3>2 DEF WinInv
    <2> QED
      BY <1>5, <2>2 DEF WinInv, Kept
  <1>6. ASSUME ReplaceSave PROVE WinInv'
    <2>1. mu.pc = "append" /\ mu.e \in Events /\ offered' = offered
      BY <1>0, <1>6, PendingShows DEF ReplaceSave
    <2>2. PICK i \in 1..(len + 1) : AppendAt(mu.e, i)
      BY <1>6 DEF ReplaceSave
    <2> QED
      BY <1>0, <1>5, <2>1, <2>2, AppendShows
  <1>7. ASSUME ReplaceDuplicate PROVE WinInv'
    <2>1. mu.pc = "append" /\ offered' = offered
      BY <1>7 DEF ReplaceDuplicate
    <2>2. mu' = Free /\ array' = array /\ len' = len /\ mu.e \in InSlice
      BY <1>7 DEF ReplaceDuplicate, FoundAt, InSlice
    <2>3. Contents' = InSlice \cup {mu.e}
      BY <2>2 DEF Contents, InSlice, Free
    <2> QED
      BY <1>5, <2>1, <2>3
  <1>8. ASSUME NEW d \in Events, DeleteEvent(d) PROVE WinInv'
    <2>1. PICK i \in 1..len : array[i] = d /\ Copy(i, None)
      BY <1>8 DEF DeleteEvent, IsFirst
    <2>2. mu = Free /\ offered' = offered \ Rivals(d) /\ Contents' = Contents \ {d}
      BY <1>0, <1>8, <2>1, CopyHides DEF DeleteEvent
    <2>3. ASSUME NEW e \in offered', Findable(e) PROVE Kept(Contents', e)
      <3>1. e \in offered /\ e \in Events /\ e \notin Rivals(d)
        BY <2>2 DEF WinInv
      <3>2. PICK x \in Contents : Beats(x, e)
        BY <2>2, <2>3, <3>1 DEF WinInv, Kept, Pending, Free
      <3>3. x # d
        BY <2>3, <3>1, <3>2, RivalOfItself DEF Beats
      <3> QED
        BY <2>2, <3>2, <3>3 DEF Kept
    <2> QED
      BY <2>2, <2>3 DEF WinInv, Kept
  <1>9. ASSUME NEW n \in Events, ReplaceOlder(n) PROVE WinInv'
    <2>1. PICK i \in 1..len : Copy(i, n)
      BY <1>9 DEF ReplaceOlder
    <2>2. mu = Free /\ mu'.pc = "cut" /\ mu'.e = n /\ offered' = offered \cup {n} /\ Contents' = Contents
      BY <1>0, <1>9, <2>1, CopyHides, CopyStep DEF ReplaceOlder
    <2> QED
      BY <2>2 DEF WinInv, Kept, Pending, Free
  <1>10. ASSUME NEW n \in Events, ReplaceRefused(n) PROVE WinInv'
    <2>1. PICK i \in 1..len : array[i] \in Rivals(n) /\ ~IsOlder(array[i], n)
      BY <1>10 DEF ReplaceRefused, IsPrevious
    <2>2. /\ mu = Free /\ UNCHANGED <<array, len, mu>> /\ offered' = offered \cup {n}
          /\ array[i] \in Contents
      BY <1>10 DEF ReplaceRefused, Contents, InSlice, Free
    <2>3. Contents' = Contents
      BY <2>2 DEF Contents, InSlice
    <2>4. Findable(n) => Kept(Contents, n)
      BY <1>0, <2>1, <2>2, RivalsMeet DEF Kept, Beats
    <2> QED
      BY <2>2, <2>3, <2>4 DEF WinInv, Kept, Pending
  <1>11. ASSUME Shift PROVE WinInv'
    <2>1. Contents' = Contents /\ offered' = offered /\ mu.pc = "shift"
      BY <1>0, <1>11, ShiftStep DEF Shift, Contents, InSlice
    <2> QED
      BY <2>1 DEF WinInv, Kept, Pending
  <1>12. ASSUME Cut PROVE WinInv'
    <2>1. mu.pc = "cut" /\ array' = array /\ len' = len - 1 /\ offered' = offered
      BY <1>12 DEF Cut
    <2>2. mu' = IF mu.e = None THEN Free ELSE [pc |-> "append", e |-> mu.e, old |-> mu.old, at |-> 0]
      BY <1>12 DEF Cut
    <2>3. Contents' = Contents
      BY <2>1, <2>2 DEF Contents, InSlice, Free
    <2>4. \A e \in Events : Pending(e) => Pending(e)'
      BY <1>0, <2>1, <2>2 DEF Pending
    <2> QED
      BY <2>1, <2>3, <2>4 DEF WinInv, Kept
  <1>13. CASE Read
    BY <1>1, <1>13 DEF Read, QueryStart, CountStart, ReadHalf, ReadNext, ReadEnd, Begin
  <1>14. CASE UNCHANGED vars
    BY <1>1, <1>14 DEF vars
  <1> QED
    BY <1>3, <1>4, <1>6, <1>7, <1>8, <1>9, <1>10, <1>11, <1>12, <1>13, <1>14
       DEF Next, Write, ReplaceEvent

\* A version offered to ReplaceEvent is in the store or has lost to a newer one,
\* in whatever order versions come and whichever of them were replaced on the
\* way: the order of versions is total, so that losing to one that is replaced
\* is losing to the one that replaces it.
THEOREM SliceNewestWins == Spec => []NewestWins
  <1>1. Init => WinInv
    BY DEF Init, WinInv
  <1>2. IInv /\ WinInv => NewestWins
    <2> SUFFICES ASSUME IInv, WinInv, mu.pc = "free", NEW e \in offered, Store!Findable(e)
                 PROVE  \E x \in InSlice : x = e \/ (e \in Rivals(x) /\ ~IsOlder(x, e))
      BY DEF NewestWins
    <2>1. e \in Events /\ Contents = InSlice
      BY DEF WinInv, Contents
    <2> QED
      BY <2>1, StoreSame DEF WinInv, Kept, Pending, Beats
  <1> QED
    BY <1>1, <1>2, WinStep, Inductive, PTL DEF Spec

-----------------------------------------------------------------------------
(* Where the search ends *)

LEMMA HasLeast ==
    ASSUME NEW S \in SUBSET Nat, S # {}
    PROVE  \E n \in S : \A m \in S : n <= m
  <1> DEFINE R == OpToRel(<, Nat)
  <1>1. \A x, y \in Nat : x < y => <<x, y>> \in R
    BY DEF OpToRel
  <1>2. IsWellFoundedOn(R, Nat)
    BY NatLessThanWellFounded
  <1> HIDE DEF R
  <1>3. PICK n \in S : \A m \in S : ~(<<m, n>> \in R)
    BY <1>2, WFMin
  <1>4. ASSUME NEW m \in S PROVE n <= m
    <2>1. ~(m < n)
      BY <1>1, <1>3
    <2> QED
      BY <2>1
  <1> QED
    BY <1>4

\* The search by timestamp has a result in every slice, sorted or not.
LEMMA SearchTimeIs ==
    ASSUME CellInv, NEW t \in Int
    PROVE  /\ SearchTime(t) \in 1..(len + 1)
           /\ SearchTime(t) <= len => CreatedAt[array[SearchTime(t)]] <= t
           /\ \A j \in 1..(SearchTime(t) - 1) : CreatedAt[array[j]] > t
  <1> DEFINE S == {i \in 1..len : CreatedAt[array[i]] <= t} \cup {len + 1}
             Found(i) == /\ i <= len => CreatedAt[array[i]] <= t
                         /\ \A j \in 1..(i - 1) : CreatedAt[array[j]] > t
  <1>1. len \in Nat /\ \A i \in 1..len : CreatedAt[array[i]] \in Nat
    <2>1. \A e \in Events : CreatedAt[e] \in Nat
      BY EventAssumption
    <2> QED
      BY <2>1, SliceAssumption DEF CellInv
  <1>2. S \subseteq Nat /\ S # {}
    BY <1>1
  <1>3. PICK i \in S : \A j \in S : i <= j
    BY <1>2, HasLeast
  <1>4. i \in 1..(len + 1) /\ Found(i)
    <2>1. i \in 1..(len + 1) /\ (i <= len => CreatedAt[array[i]] <= t)
      BY <1>1
    <2>2. ASSUME NEW j \in 1..(i - 1) PROVE CreatedAt[array[j]] > t
      <3>1. j \in 1..len /\ j \notin S
        BY <1>1, <1>3, <2>1
      <3> QED
        BY <1>1, <3>1
    <2> QED
      BY <2>1, <2>2
  <1>5. SearchTime(t) = CHOOSE k \in 1..(len + 1) : Found(k)
    BY DEF SearchTime
  <1> HIDE DEF Found
  <1>6. SearchTime(t) \in 1..(len + 1) /\ Found(SearchTime(t))
    BY <1>4, <1>5
  <1> QED
    BY <1>6 DEF Found

LEMMA MaxIntIs == MaxInt \in Nat /\ Cardinality(Events) \in Nat /\ MaxInt = Cardinality(Events) + 1
  <1>1. IsFiniteSet(Events)
    BY EventAssumption
  <1>2. Cardinality(Events) \in Nat
    BY <1>1, FS_CardinalityType
  <1> QED
    BY <1>2 DEF MaxInt

LEMMA LimitIs == \A f \in Filters : GetTheoreticalLimit(f) \in Nat
  <1> SUFFICES ASSUME NEW f \in Filters PROVE GetTheoreticalLimit(f) \in Nat
    OBVIOUS
  <1> DEFINE ids == Cardinality(f.ids)
             kinds == Cardinality(f.kinds)
             authors == Cardinality(f.authors)
             ds == Cardinality(f.ds)
  <1>1. /\ f.ids # NotSet => ids \in Nat
        /\ f.kinds # NotSet => kinds \in Nat
        /\ f.authors # NotSet => authors \in Nat
        /\ f.ds # NotSet => ds \in Nat
    BY FilterAssumption, FS_CardinalityType DEF FieldOk
  <1>2. \A a, b \in Nat : a * b \in Nat
    OBVIOUS
  <1>3. MaxInt \in Nat /\ f.limit \in Int
    BY FilterAssumption, MaxIntIs
  <1>4. GetTheoreticalLimit(f) =
          IF f.ids # NotSet THEN ids
          ELSE IF OnePerAuthorAndKind(f) THEN authors * kinds
          ELSE IF OnePerAddress(f) THEN authors * kinds * ds
          ELSE IF f.limit > 0 THEN f.limit ELSE IF f.limitZero THEN 0 ELSE MaxInt
    BY DEF GetTheoreticalLimit
  <1> HIDE DEF ids, kinds, authors, ds
  <1>5. OnePerAuthorAndKind(f) => authors * kinds \in Nat
    BY <1>1, <1>2 DEF OnePerAuthorAndKind
  <1>6. OnePerAddress(f) => authors * kinds * ds \in Nat
    <2> SUFFICES ASSUME OnePerAddress(f) PROVE authors * kinds * ds \in Nat
      OBVIOUS
    <2>1. authors \in Nat /\ kinds \in Nat /\ ds \in Nat
      BY <1>1 DEF OnePerAddress
    <2>2. authors * kinds \in Nat
      BY <1>2, <2>1
    <2> QED
      BY <1>2, <2>1, <2>2
  <1> QED
    BY <1>1, <1>3, <1>4, <1>5, <1>6

-----------------------------------------------------------------------------
(* Reads that race with writes *)

Readers == [pc : {"idle", "query", "count"}, f : Filters \cup {Open}, next : Nat \ {0},
            end : 0..Capacity, limit : Nat, half : Events \cup {None}]

ReaderInv ==
    /\ reader \in Readers
    /\ out \in Seq([Parts -> Events]) /\ races \in Nat /\ seen \subseteq Events
    /\ ~Reading => out = <<>>
    /\ Reading => Len(out) <= reader.limit

\* All that the reader can come across was stored while it ran: the leftovers
\* behind the slice too, and what a deletion is about to overwrite.
CellsSeen ==
    Reading => /\ \A i \in Index : i <= len \/ i <= reader.end => array[i] \in seen
               /\ mu.pc = "cut" => mu.old \in seen
               /\ reader.half \in seen \cup {None}

YieldInv == \A i \in DOMAIN out : CopyMatches(reader.f, out[i]) /\ \A p \in Parts : out[i][p] \in seen

RaceInv == ReaderInv /\ CellsSeen /\ YieldInv

\* A write that leaves the reader alone.
LEMMA NoticeRace ==
    ASSUME RaceInv, NEW new \in SUBSET Events, Notice(new), UNCHANGED readerVars, CellsSeen'
    PROVE  RaceInv'
  <1>1. /\ reader' = reader /\ out' = out /\ Reading' = Reading
    BY DEF readerVars, Reading
  <1>2. ReaderInv'
    BY <1>1 DEF RaceInv, ReaderInv, Notice
  <1>3. YieldInv'
    <2>1. CASE Reading
      <3>1. seen \subseteq seen'
        BY <2>1 DEF Notice
      <3> QED
        BY <1>1, <3>1 DEF RaceInv, YieldInv
    <2>2. CASE ~Reading
      BY <1>1, <2>2 DEF RaceInv, ReaderInv, YieldInv
    <2> QED
      BY <2>1, <2>2
  <1> QED
    BY <1>2, <1>3 DEF RaceInv

LEMMA AppendRace ==
    ASSUME RaceInv, CellInv, NEW e \in Events, NEW i \in 1..(len + 1), AppendAt(e, i), UNCHANGED readerVars
    PROVE  RaceInv'
  <1>1. /\ len' = len + 1 /\ len + 1 \in Index /\ Notice({e}) /\ mu'.pc = "shift"
        /\ \A j \in Index : array'[j] = IF j = len + 1 THEN e ELSE array[j]
    BY SliceAssumption DEF AppendAt, CellInv, Index
  <1>2. CellsSeen'
    BY <1>1, SliceAssumption DEF RaceInv, CellsSeen, Notice, Reading, readerVars, CellInv, Index
  <1> QED
    BY <1>1, <1>2, NoticeRace

LEMMA ShiftRace ==
    ASSUME RaceInv, CellInv, ShiftInv, Shift
    PROVE  RaceInv'
  <1>1. /\ len' = len /\ Notice({}) /\ UNCHANGED readerVars /\ mu'.pc = "free"
        /\ len \in Index /\ mu.at \in 1..len /\ array[len] = mu.e
    BY SliceAssumption DEF Shift, ShiftInv, CellInv, Index, Free
  <1>2. \A j \in Index : array'[j] \in {array[j], mu.e} \/ (j <= len /\ j - 1 \in Index /\ array'[j] = array[j - 1])
    <2>1. array' = [j \in Index |-> IF j < mu.at \/ j > len THEN array[j]
                                   ELSE IF j = mu.at THEN mu.e ELSE array[j - 1]]
      BY DEF Shift
    <2>2. \A j \in Index : ~(j < mu.at \/ j > len) /\ j # mu.at => j <= len /\ j - 1 \in Index
      BY <1>1, SliceAssumption DEF Index
    <2> QED
      BY <2>1, <2>2
  <1>3. CellsSeen'
    BY <1>1, <1>2, SliceAssumption DEF RaceInv, CellsSeen, Notice, Reading, readerVars, CellInv, Index
  <1> QED
    BY <1>1, <1>3, NoticeRace

LEMMA CopyRace ==
    ASSUME RaceInv, CellInv, NEW i \in 1..len, NEW next, Copy(i, next)
    PROVE  RaceInv'
  <1>1. len' = len /\ Notice({}) /\ UNCHANGED readerVars /\ i \in Index /\ mu'.old = array[i]
    BY SliceAssumption DEF Copy, CellInv, Index
  <1>2. \A j \in Index : array'[j] = array[j] \/ (j < len /\ j + 1 \in Index /\ array'[j] = array[j + 1])
    BY SliceAssumption DEF Copy, CellInv, Index
  <1>3. CellsSeen'
    BY <1>1, <1>2, SliceAssumption DEF RaceInv, CellsSeen, Notice, Reading, readerVars, CellInv, Index
  <1> QED
    BY <1>1, <1>3, NoticeRace

LEMMA CutRace ==
    ASSUME RaceInv, CellInv, Cut
    PROVE  RaceInv'
  <1>1. len' = len - 1 /\ array' = array /\ Notice({}) /\ UNCHANGED readerVars /\ mu'.pc # "cut"
    BY DEF Cut, Free
  <1>2. CellsSeen'
    BY <1>1, SliceAssumption DEF RaceInv, CellsSeen, Notice, Reading, readerVars, CellInv, Index
  <1> QED
    BY <1>1, <1>2, NoticeRace

\* A step that neither reads nor moves a cell.
LEMMA StillRace ==
    RaceInv /\ UNCHANGED <<array, len, reader, out, races, seen>> /\ (mu' = mu \/ mu' = Free) => RaceInv'
  BY DEF RaceInv, ReaderInv, CellsSeen, YieldInv, Reading, Free

LEMMA WriteRace == IInv /\ RaceInv /\ Write => RaceInv'
  <1> SUFFICES ASSUME IInv, RaceInv, Write PROVE RaceInv'
    OBVIOUS
  <1>0. CellInv /\ ShiftInv /\ PendingInv
    BY DEF IInv, OrderInv
  <1>1. ASSUME NEW e \in Events, SaveEvent(e) \/ ReplaceNothing(e) PROVE RaceInv'
    BY <1>0, <1>1, AppendRace DEF SaveEvent, ReplaceNothing
  <1>2. ASSUME NEW e \in Events, DeleteEvent(e) \/ ReplaceOlder(e) PROVE RaceInv'
    BY <1>0, <1>2, CopyRace DEF DeleteEvent, ReplaceOlder
  <1>3. ASSUME NEW e \in Events, ReplaceRefused(e) PROVE RaceInv'
    BY <1>3, StillRace DEF ReplaceRefused, readerVars
  <1>4. ASSUME ReplaceSave PROVE RaceInv'
    BY <1>0, <1>4, AppendRace, PendingShows DEF ReplaceSave
  <1>5. ASSUME ReplaceDuplicate PROVE RaceInv'
    BY <1>5, StillRace DEF ReplaceDuplicate, readerVars
  <1> QED
    BY <1>0, <1>1, <1>2, <1>3, <1>4, <1>5, ShiftRace, CutRace DEF Write, ReplaceEvent

LEMMA BeginRace ==
    ASSUME OrderInv, NEW f \in Filters, NEW first \in Nat \ {0}, NEW end \in 0..len, NEW limit \in Nat,
           NEW pc \in {"query", "count"}, Begin(f, first, end, limit, pc)
    PROVE  RaceInv'
  <1>0. CellInv /\ CutInv
    BY DEF OrderInv
  <1>1. /\ reader' = [pc |-> pc, f |-> f, next |-> first, end |-> end, limit |-> limit, half |-> None]
        /\ out' = <<>> /\ UNCHANGED <<array, len, mu>>
    BY DEF Begin
  <1>2. /\ races' \in Nat /\ InSlice \subseteq seen' /\ seen' \subseteq InSlice \cup {mu.old}
        /\ IF mu.pc = "cut" THEN mu.old \in seen' ELSE seen' = InSlice
    BY DEF Begin
  <1>3. InSlice \subseteq Events /\ len \in Nat /\ len <= Capacity /\ end \in 0..Capacity
    BY <1>0, SliceAssumption DEF InSlice, CellInv
  <1>4. seen' \subseteq Events
    BY <1>0, <1>2, <1>3 DEF CutInv
  <1>5. Len(out') = 0 /\ Reading' /\ DOMAIN out' = {}
    BY <1>1 DEF Reading
  <1>6. ReaderInv'
    <2>1. reader' \in Readers
      BY <1>1, <1>3 DEF Readers
    <2> QED
      BY <1>1, <1>2, <1>4, <1>5, <2>1 DEF ReaderInv
  <1>7. CellsSeen'
    BY <1>1, <1>2, <1>3 DEF CellsSeen, InSlice, Index
  <1> QED
    BY <1>5, <1>6, <1>7 DEF RaceInv, YieldInv

\* What QueryEvents searches for.
First(f) == IF f.until # 0 THEN SearchTime(f.until) ELSE 1
Last(f) == IF f.since # 0 THEN SearchTime(f.since) - 1 ELSE len

LEMMA QueryBegins ==
    ASSUME CellInv, NEW f \in Filters, QueryStart(f)
    PROVE  \E first \in Nat \ {0}, end \in 0..len, limit \in Nat :
              /\ Begin(f, first, end, limit, "query") /\ first <= end + 1
              /\ mu = Free => first = First(f) /\ end = Last(f)
  <1>1. f.until \in Int /\ f.since \in Int /\ len \in Nat
    BY FilterAssumption, SliceAssumption DEF CellInv
  <1> DEFINE limit == Smaller(GetTheoreticalLimit(f), MaxLimit)
  <1>2. PICK start \in IF f.until # 0 THEN TimePlaces(f.until) ELSE {1},
             stop \in IF f.since # 0 THEN TimePlaces(f.since) ELSE {len + 1} :
           start <= stop /\ Begin(f, start, stop - 1, limit, "query")
    BY DEF QueryStart
  <1>3. limit \in Nat
    BY LimitIs, SliceAssumption DEF Smaller
  <1> HIDE DEF limit
  <1>4. ASSUME NEW t \in Int PROVE TimePlaces(t) \subseteq 1..(len + 1)
    BY SearchTimeIs DEF TimePlaces
  <1>5. start \in 1..(len + 1) /\ stop \in 1..(len + 1)
    BY <1>1, <1>2, <1>4
  <1>6. start \in Nat \ {0} /\ stop - 1 \in 0..len /\ start <= (stop - 1) + 1
    BY <1>1, <1>2, <1>5
  <1>7. ASSUME mu = Free PROVE start = First(f) /\ stop - 1 = Last(f)
    BY <1>1, <1>2, <1>5, <1>7 DEF TimePlaces, First, Last
  <1> QED
    BY <1>2, <1>3, <1>6, <1>7

LEMMA CountBegins ==
    ASSUME CellInv, NEW f \in Filters, CountStart(f)
    PROVE  MaxInt \in Nat /\ len \in 0..len /\ Begin(f, 1, len, MaxInt, "count")
  BY SliceAssumption, MaxIntIs DEF CountStart, CellInv

\* Whatever a cell shows to the reader was stored while it ran.
LEMMA CellSeen ==
    ASSUME OrderInv, RaceInv, Reading, ~AtEnd
    PROVE  /\ reader.next \in 1..reader.end /\ reader.next \in Index /\ Len(out) < reader.limit
           /\ Cell(reader.next) \subseteq seen
  <1>1. /\ reader.next \in 1..reader.end /\ reader.next \in Index /\ Len(out) < reader.limit
    BY SliceAssumption DEF AtEnd, RaceInv, ReaderInv, Readers, Index
  <1>2. array[reader.next] \in seen /\ (mu.pc = "cut" => mu.old \in seen)
    BY <1>1 DEF RaceInv, CellsSeen
  <1>3. ASSUME mu.pc = "cut", reader.next \in mu.at..len, reader.next # mu.at PROVE array[reader.next - 1] \in seen
    <2>1. mu.at \in 1..len /\ len \in 0..Capacity
      BY <1>3 DEF OrderInv, CutInv, CellInv
    <2>2. reader.next - 1 \in Index /\ reader.next - 1 <= len
      BY <1>3, <2>1, SliceAssumption DEF Index
    <2> QED
      BY <2>2 DEF RaceInv, CellsSeen
  <1> QED
    BY <1>1, <1>2, <1>3 DEF Cell

\* One turn of the loop.
LEMMA ReadNextIs ==
    ASSUME OrderInv, RaceInv, ReadNext
    PROVE  /\ reader.next \in 1..reader.end /\ reader.next \in Index /\ Len(out) < reader.limit
           /\ reader' = [reader EXCEPT !.next = @ + 1, !.half = None]
           /\ UNCHANGED <<array, len, mu, races, seen>>
           /\ \E c \in [Parts -> seen] :
                 out' = IF CopyMatches(reader.f, c) THEN Append(out, c) ELSE out
  <1>1. Reading /\ ~AtEnd /\ reader.half # None
    BY DEF ReadNext
  <1>2. PICK e \in Cell(reader.next) : \E c \in [Parts -> {reader.half, e}] :
           out' = IF CopyMatches(reader.f, c) THEN Append(out, c) ELSE out
    BY DEF ReadNext
  <1>3. PICK c \in [Parts -> {reader.half, e}] :
           out' = IF CopyMatches(reader.f, c) THEN Append(out, c) ELSE out
    BY <1>2
  <1>4. e \in seen /\ reader.half \in seen
    BY <1>1, CellSeen DEF RaceInv, CellsSeen
  <1>5. c \in [Parts -> seen]
    BY <1>4
  <1> QED
    BY <1>1, <1>3, <1>5, CellSeen DEF ReadNext

LEMMA ReadRace == IInv /\ RaceInv /\ Read => RaceInv'
  <1> SUFFICES ASSUME IInv, RaceInv, Read PROVE RaceInv'
    OBVIOUS
  <1>0. CellInv /\ OrderInv
    BY DEF IInv, OrderInv
  <1>1. ASSUME NEW f \in Filters, QueryStart(f) PROVE RaceInv'
    BY <1>0, <1>1, QueryBegins, BeginRace
  <1>2. ASSUME NEW f \in Filters, CountStart(f) PROVE RaceInv'
    <2>1. Begin(f, 1, len, MaxInt, "count") /\ MaxInt \in Nat /\ len \in 0..len
      BY <1>0, <1>2, CountBegins
    <2> QED
      BY <1>0, <2>1, BeginRace
  <1>3. CASE ReadHalf
    <2>1. PICK e \in Cell(reader.next) : reader' = [reader EXCEPT !.half = e]
      BY <1>3 DEF ReadHalf
    <2>2. e \in seen /\ Reading
      BY <1>0, <1>3, CellSeen DEF ReadHalf
    <2>3. /\ reader' \in Readers /\ Reading' /\ reader'.half = e /\ reader'.f = reader.f
          /\ reader'.end = reader.end /\ reader'.limit = reader.limit
      BY <2>1, <2>2 DEF RaceInv, ReaderInv, Readers, Reading
    <2>4. UNCHANGED <<array, len, mu, out, races, seen>>
      BY <1>3 DEF ReadHalf
    <2> QED
      BY <2>2, <2>3, <2>4 DEF RaceInv, ReaderInv, CellsSeen, YieldInv
  <1>4. CASE ReadNext
    <2>1. /\ reader'.pc = reader.pc /\ reader'.f = reader.f /\ reader'.end = reader.end
          /\ reader'.limit = reader.limit /\ reader'.next = reader.next + 1 /\ reader'.half = None
          /\ Reading' = Reading /\ Reading /\ reader' \in Readers
      <3>1. Reading /\ reader \in Readers /\ reader' = [reader EXCEPT !.next = @ + 1, !.half = None]
        BY <1>0, <1>4, ReadNextIs DEF ReadNext, RaceInv, ReaderInv
      <3>2. /\ reader'.pc = reader.pc /\ reader'.f = reader.f /\ reader'.end = reader.end
            /\ reader'.limit = reader.limit /\ reader'.next = reader.next + 1 /\ reader'.half = None
        BY <3>1 DEF Readers
      <3>3. reader.next + 1 \in Nat \ {0}
        BY <3>1 DEF Readers
      <3>4. reader' \in Readers
        BY <3>1, <3>3 DEF Readers
      <3> QED
        BY <3>1, <3>2, <3>4 DEF Reading
    <2>2. PICK c \in [Parts -> seen] : out' = IF CopyMatches(reader.f, c) THEN Append(out, c) ELSE out
      BY <1>0, <1>4, ReadNextIs
    <2>3. /\ out \in Seq([Parts -> Events]) /\ Len(out) \in Nat /\ Len(out) < reader.limit /\ reader.limit \in Nat
          /\ c \in [Parts -> Events]
      BY <1>0, <1>4, ReadNextIs DEF RaceInv, ReaderInv, Readers
    <2>4. races' = races /\ seen' = seen /\ UNCHANGED <<array, len, mu>>
      BY <1>0, <1>4, ReadNextIs
    <2>5. ReaderInv'
      BY <2>1, <2>2, <2>3, <2>4 DEF RaceInv, ReaderInv
    <2>6. CellsSeen'
      BY <2>1, <2>4 DEF RaceInv, CellsSeen
    <2>7. YieldInv'
      <3>1. CASE out' = out
        BY <2>1, <2>4, <3>1 DEF RaceInv, YieldInv
      <3>2. CASE CopyMatches(reader.f, c) /\ out' = Append(out, c)
        <4>1. /\ DOMAIN out = 1..Len(out) /\ DOMAIN out' = 1..(Len(out) + 1)
              /\ \A i \in 1..Len(out) : out'[i] = out[i]
              /\ out'[Len(out) + 1] = c
          BY <2>3, <3>2
        <4>2. \A p \in Parts : c[p] \in seen
          OBVIOUS
        <4>3. SUFFICES ASSUME NEW i \in 1..(Len(out) + 1)
                       PROVE CopyMatches(reader.f, out'[i]) /\ \A p \in Parts : out'[i][p] \in seen
          BY <2>1, <2>4, <4>1 DEF YieldInv
        <4>4. CASE i \in 1..Len(out)
          BY <4>1, <4>4 DEF RaceInv, YieldInv
        <4>5. CASE i = Len(out) + 1
          BY <3>2, <4>1, <4>2, <4>5
        <4> QED
          BY <2>3, <4>4, <4>5
      <3> QED
        BY <2>2, <3>1, <3>2
    <2> QED
      BY <2>5, <2>6, <2>7 DEF RaceInv
  <1>5. CASE ReadEnd
    <2>1. /\ reader' = Idle /\ out' = <<>> /\ races' = 0 /\ seen' = {}
      BY <1>5 DEF ReadEnd
    <2>2. ~Reading'
      BY <2>1 DEF Reading, Idle
    <2>3. ReaderInv'
      BY <2>1, <2>2, SliceAssumption DEF ReaderInv, Readers, Idle
    <2> QED
      BY <2>1, <2>2, <2>3 DEF RaceInv, CellsSeen, YieldInv
  <1> QED
    BY <1>1, <1>2, <1>3, <1>4, <1>5 DEF Read

-----------------------------------------------------------------------------
(* Reads that nothing disturbs *)

Wanted(e) ==
    Matches(reader.f, e) /\ (reader.pc = "query" /\ reader.f.since # 0 => CreatedAt[e] # reader.f.since)

Among(n) == {array[i] : i \in {k \in 1..n : Wanted(array[k])}}

\* The copies are whole events in the order of the slice.
WholeInOrder ==
    /\ \A i \in DOMAIN out : out[i] = Whole(out[i].id)
    /\ \A i, j \in 1..Len(out) : i < j => Before(out[i].id, out[j].id)

\* The reader has yielded what is wanted in front of its next cell; nothing is
\* wanted behind its end, and what matches before the end is wanted.
QuietInv ==
    Reading /\ races = 0 =>
        /\ mu = Free /\ reader.end <= len /\ reader.next <= reader.end + 1
        /\ reader.pc = "count" => reader.limit = MaxInt
        /\ reader.half \in {None, array[reader.next]}
        /\ Yielded = Among(reader.next - 1)
        /\ \A i \in (reader.end + 1)..len : ~Wanted(array[i])
        /\ \A i \in reader.next..reader.end : Matches(reader.f, array[i]) => Wanted(array[i])
        /\ WholeInOrder
        /\ Len(out) = Cardinality(Yielded)

LEMMA YieldedSeen == RaceInv => Yielded \subseteq seen
  BY DEF RaceInv, YieldInv, Yielded, Parts

\* A whole event matches as a copy if it matches.
LEMMA WholeMatches ==
    \A f, e : (CopyMatches(f, Whole(e)) <=> Matches(f, e)) /\ Whole(e).id = e
  BY DEF CopyMatches, Matches, MatchesIgnoringTimestampConstraints, Whole, Parts

LEMMA SameQuiet == QuietInv /\ UNCHANGED <<array, len, mu, races, reader, out>> => QuietInv'
  <1> SUFFICES ASSUME QuietInv, UNCHANGED <<array, len, mu, races, reader, out>> PROVE QuietInv'
    OBVIOUS
  <1>1. /\ \A e : Wanted(e)' <=> Wanted(e)
        /\ Reading' = Reading /\ Yielded' = Yielded
    BY DEF Wanted, Reading, Yielded
  <1>2. Among(reader.next - 1)' = Among(reader.next - 1)
    BY <1>1 DEF Among
  <1> QED
    BY <1>1, <1>2 DEF QuietInv, WholeInOrder

\* Every write counts as a race.
LEMMA WriteQuiet == RaceInv /\ QuietInv /\ Write => QuietInv'
  <1> SUFFICES ASSUME RaceInv, QuietInv, Write, Reading', races' = 0 PROVE QuietInv'
    BY DEF QuietInv
  <1>1. reader' = reader /\ out' = out
    BY DEF Write, SaveEvent, DeleteEvent, ReplaceEvent, ReplaceOlder, ReplaceNothing, ReplaceRefused,
           Shift, Cut, ReplaceSave, ReplaceDuplicate, Copy, readerVars
  <1>2. Reading /\ races \in Nat
    BY <1>1 DEF Reading, RaceInv, ReaderInv
  <1>3. ~(\E new : Notice(new))
    BY <1>2 DEF Notice
  <1>4. (\E e \in Events : ReplaceRefused(e)) \/ ReplaceDuplicate
    BY <1>3 DEF Write, SaveEvent, DeleteEvent, ReplaceEvent, ReplaceOlder, ReplaceNothing,
                Shift, Cut, ReplaceSave, AppendAt, Copy
  <1>5. races = 0 /\ mu = Free
    BY <1>2, <1>4 DEF ReplaceRefused, ReplaceDuplicate, QuietInv
  <1>6. UNCHANGED <<array, len, mu, races, reader, out>>
    BY <1>1, <1>4, <1>5 DEF ReplaceRefused, ReplaceDuplicate, Free
  <1> QED
    BY <1>6, SameQuiet

\* The range that the searches find holds what is wanted, and what it holds is
\* wanted if it matches: the slice is sorted from the newest to the oldest.
LEMMA RangeIs ==
    ASSUME OrderInv, mu = Free, NEW f \in Filters, NEW i \in 1..len, Matches(f, array[i])
    PROVE  /\ First(f) <= i
           /\ i <= Last(f) <=> (f.since # 0 => CreatedAt[array[i]] # f.since)
  <1>0. CellInv /\ Sorted(len) /\ len \in Nat /\ f.until \in Int /\ f.since \in Int
    BY SliceAssumption, FilterAssumption DEF OrderInv, FreeInv, CellInv, Free
  <1>1. \A j \in 1..len : CreatedAt[array[j]] \in Nat
    BY <1>0, EventAssumption DEF CellInv
  <1>2. \A j, k \in 1..len : j <= k => CreatedAt[array[j]] >= CreatedAt[array[k]]
    BY <1>0, <1>1 DEF Sorted, Before
  <1>3. f.since # 0 => CreatedAt[array[i]] >= f.since
    BY DEF Matches
  <1>4. f.until # 0 => CreatedAt[array[i]] <= f.until
    BY DEF Matches
  <1>5. First(f) <= i
    <2>1. CASE f.until # 0
      <3> DEFINE p == SearchTime(f.until)
      <3>1. p \in 1..(len + 1) /\ \A j \in 1..(p - 1) : CreatedAt[array[j]] > f.until
        BY <1>0, SearchTimeIs
      <3> HIDE DEF p
      <3>2. ~(i < p)
        BY <1>0, <1>1, <1>4, <2>1, <3>1
      <3> QED
        BY <1>0, <2>1, <3>1, <3>2 DEF First, p
    <2> QED
      BY <2>1 DEF First
  <1>6. CASE f.since # 0
    <2> DEFINE p == SearchTime(f.since)
    <2>1. /\ p \in 1..(len + 1)
          /\ p <= len => CreatedAt[array[p]] <= f.since
          /\ \A j \in 1..(p - 1) : CreatedAt[array[j]] > f.since
      BY <1>0, SearchTimeIs
    <2> HIDE DEF p
    <2>2. i <= p - 1 => CreatedAt[array[i]] # f.since
      BY <1>0, <1>1, <2>1
    <2>3. i >= p => CreatedAt[array[i]] = f.since
      <3> SUFFICES ASSUME i >= p PROVE CreatedAt[array[i]] = f.since
        OBVIOUS
      <3>1. p \in 1..len /\ p <= i
        BY <1>0, <2>1
      <3>2. /\ CreatedAt[array[p]] <= f.since /\ CreatedAt[array[p]] >= CreatedAt[array[i]]
            /\ CreatedAt[array[p]] \in Nat /\ CreatedAt[array[i]] \in Nat
        BY <1>1, <1>2, <2>1, <3>1
      <3> QED
        BY <1>0, <1>3, <1>6, <3>2
    <2>4. Last(f) = p - 1
      BY <1>6 DEF Last, p
    <2>5. i <= p - 1 \/ i >= p
      BY <1>0, <2>1
    <2>6. i >= p => ~(i <= p - 1)
      BY <1>0, <2>1
    <2> QED
      BY <1>5, <1>6, <2>2, <2>3, <2>4, <2>5, <2>6
  <1>7. CASE f.since = 0
    BY <1>0, <1>5, <1>7 DEF Last
  <1> QED
    BY <1>6, <1>7

LEMMA BeginQuiet ==
    ASSUME OrderInv, mu = Free, NEW f \in Filters, NEW first \in Nat \ {0}, NEW end \in 0..len, NEW limit \in Nat,
           NEW pc \in {"query", "count"}, Begin(f, first, end, limit, pc), first <= end + 1,
           pc = "count" => limit = MaxInt,
           \A i \in 1..len : Matches(f, array[i]) =>
               first <= i /\ (i <= end <=> (pc = "query" /\ f.since # 0 => CreatedAt[array[i]] # f.since))
    PROVE  QuietInv'
  <1>1. /\ reader' = [pc |-> pc, f |-> f, next |-> first, end |-> end, limit |-> limit, half |-> None]
        /\ out' = <<>> /\ UNCHANGED <<array, len, mu>>
    BY DEF Begin
  <1>2. len \in Nat
    BY SliceAssumption DEF OrderInv, CellInv
  <1>3. \A i \in 1..len : Wanted(array[i])' <=>
            Matches(f, array[i]) /\ (pc = "query" /\ f.since # 0 => CreatedAt[array[i]] # f.since)
    BY <1>1 DEF Wanted
  <1>4. \A i \in 1..len : Wanted(array[i])' => first <= i /\ i <= end
    BY <1>3
  <1>5. Yielded' = {} /\ Len(out') = 0 /\ Cardinality({}) = 0
    BY <1>1, FS_EmptySet DEF Yielded
  <1>6. Among(reader.next - 1)' = {}
    BY <1>1, <1>2, <1>4 DEF Among
  <1>7. \A i \in first..end : Matches(f, array[i]) => Wanted(array[i])'
    BY <1>2, <1>3
  <1> QED
    BY <1>1, <1>2, <1>4, <1>5, <1>6, <1>7 DEF QuietInv, WholeInOrder

\* What the reader finds is the event of its cell, all of it.
LEMMA HalfQuiet ==
    ASSUME OrderInv, RaceInv, QuietInv, ReadHalf, races = 0
    PROVE  QuietInv'
  <1>1. Reading /\ mu = Free /\ reader \in Readers
    BY DEF ReadHalf, QuietInv, RaceInv, ReaderInv
  <1>2. reader' = [reader EXCEPT !.half = array[reader.next]] /\ UNCHANGED <<array, len, mu, out, races>>
    BY <1>1 DEF ReadHalf, Cell, Free
  <1>3. /\ reader'.pc = reader.pc /\ reader'.f = reader.f /\ reader'.end = reader.end
        /\ reader'.limit = reader.limit /\ reader'.next = reader.next /\ reader'.half = array[reader.next]
    BY <1>1, <1>2 DEF Readers
  <1>4. (\A e : Wanted(e)' <=> Wanted(e)) /\ Yielded' = Yielded
    BY <1>2, <1>3 DEF Wanted, Yielded
  <1>5. Among(reader.next - 1)' = Among(reader.next - 1)
    BY <1>2, <1>3, <1>4 DEF Among
  <1> QED
    BY <1>1, <1>2, <1>3, <1>4, <1>5 DEF QuietInv, WholeInOrder

LEMMA NextQuiet ==
    ASSUME OrderInv, RaceInv, QuietInv, ReadNext, races = 0
    PROVE  QuietInv'
  <1> DEFINE n == reader.next
             x == array[n]
  <1>0. /\ CellInv /\ Reading /\ len \in Nat /\ reader.end \in Nat /\ n \in 1..reader.end /\ reader.end <= len
        /\ Sorted(len) /\ out \in Seq([Parts -> Events]) /\ x \in Events /\ mu = Free
    <2>1. CellInv /\ Reading /\ mu = Free /\ reader.end <= len
      BY DEF OrderInv, QuietInv, ReadNext
    <2> QED
      BY <2>1, ReadNextIs, SliceAssumption DEF OrderInv, FreeInv, Free, CellInv, RaceInv, ReaderInv, Readers
  <1>1. /\ reader'.next = n + 1 /\ reader'.f = reader.f /\ reader'.pc = reader.pc /\ reader'.half = None
        /\ reader'.end = reader.end /\ reader'.limit = reader.limit /\ UNCHANGED <<array, len, mu, races>>
    BY <1>0, ReadNextIs DEF RaceInv, ReaderInv, Readers
  <1>12. out' = IF Matches(reader.f, x) THEN Append(out, Whole(x)) ELSE out
    <2>1. reader.half = x /\ Cell(n) = {x}
      BY <1>0 DEF QuietInv, ReadNext, Cell, Free
    <2>2. PICK c \in [Parts -> {x}] : out' = IF CopyMatches(reader.f, c) THEN Append(out, c) ELSE out
      <3>1. PICK e \in Cell(n) : \E c \in [Parts -> {reader.half, e}] :
               out' = IF CopyMatches(reader.f, c) THEN Append(out, c) ELSE out
        BY DEF ReadNext
      <3>2. {reader.half, e} = {x}
        BY <2>1, <3>1
      <3> QED
        BY <3>1, <3>2
    <2>3. c = Whole(x)
      BY DEF Whole
    <2> QED
      BY <2>2, <2>3, WholeMatches
  <1>2. /\ Wanted(x) <=> Matches(reader.f, x)
        /\ \A e \in Events : Wanted(e)' <=> Wanted(e)
    BY <1>0, <1>1 DEF QuietInv, Wanted
  <1>3. Among(reader.next - 1)' = IF Wanted(x) THEN Among(n - 1) \cup {x} ELSE Among(n - 1)
    <2>1. 1..n = (1..(n - 1)) \cup {n} /\ \A k \in 1..n : array[k] \in Events
      BY <1>0 DEF CellInv
    <2>2. {k \in 1..n : Wanted(array[k])'} =
             IF Wanted(x) THEN {k \in 1..(n - 1) : Wanted(array[k])} \cup {n}
             ELSE {k \in 1..(n - 1) : Wanted(array[k])}
      BY <1>1, <1>2, <2>1
    <2>3. Among(reader.next - 1)' = {array[i] : i \in {k \in 1..n : Wanted(array[k])'}}
      <3>1. reader'.next - 1 = n
        BY <1>0, <1>1
      <3> QED
        BY <1>1, <3>1 DEF Among
    <2>4. Among(n - 1) = {array[i] : i \in {k \in 1..(n - 1) : Wanted(array[k])}}
      BY DEF Among
    <2> QED
      BY <2>2, <2>3, <2>4
  <1>4. \A y \in Among(n - 1) : Before(y, x)
    BY <1>0 DEF Among, Sorted
  <1>5. x \notin Among(n - 1)
    BY <1>0, <1>4, BeforeOrder
  <1>6. Yielded = Among(n - 1) /\ IsFiniteSet(Yielded) /\ Len(out) = Cardinality(Yielded)
    <2>1. Yielded = Among(n - 1) /\ Len(out) = Cardinality(Yielded)
      BY <1>0 DEF QuietInv
    <2>2. Yielded \subseteq Events
      BY YieldedSeen DEF RaceInv, ReaderInv
    <2>3. IsFiniteSet(Events)
      BY EventAssumption
    <2> QED
      BY <2>1, <2>2, <2>3, FS_Subset
  <1>9. /\ mu' = Free /\ reader'.end <= len' /\ reader'.next <= reader'.end + 1
        /\ reader'.pc = "count" => reader'.limit = MaxInt
        /\ reader'.half \in {None, array'[reader'.next]}
    BY <1>0, <1>1 DEF QuietInv
  <1>10. \A i \in (reader'.end + 1)..len' : ~Wanted(array[i])'
    <2>1. \A i \in (reader.end + 1)..len : array[i] \in Events /\ ~Wanted(array[i])
      BY <1>0 DEF QuietInv, CellInv
    <2> QED
      BY <1>1, <1>2, <2>1
  <1>11. \A i \in reader'.next..reader'.end : Matches(reader'.f, array'[i]) => Wanted(array[i])'
    <2>1. \A i \in n..reader.end : array[i] \in Events /\ (Matches(reader.f, array[i]) => Wanted(array[i]))
      BY <1>0 DEF QuietInv, CellInv
    <2> QED
      BY <1>0, <1>1, <1>2, <2>1
  <1> HIDE DEF x, n
  <1>7. CASE Wanted(x)
    <2>0. out' = Append(out, Whole(x)) /\ Whole(x) \in [Parts -> Events] /\ Whole(x).id = x
      BY <1>0, <1>2, <1>7, <1>12, WholeMatches DEF Whole
    <2>2. /\ Len(out) \in Nat /\ Len(out') = Len(out) + 1 /\ out'[Len(out) + 1] = Whole(x)
          /\ \A i \in 1..Len(out) : out'[i] = out[i] /\ out[i].id \in Yielded
          /\ DOMAIN out = 1..Len(out) /\ DOMAIN out' = 1..(Len(out) + 1)
      BY <1>0, <2>0 DEF Yielded
    <2>1. Yielded' = Yielded \cup {x}
      BY <2>0, <2>2 DEF Yielded
    <2>3. Len(out') = Cardinality(Yielded')
      BY <1>5, <1>6, <2>1, <2>2, FS_AddElement
    <2>4. WholeInOrder
      BY <1>0 DEF QuietInv
    <2>5. WholeInOrder'
      <3>1. \A i \in DOMAIN out' : out'[i] = Whole(out'[i].id)
        BY <2>0, <2>2, <2>4 DEF WholeInOrder
      <3>2. \A i, j \in 1..Len(out') : i < j => Before(out'[i].id, out'[j].id)
        BY <1>4, <1>6, <2>0, <2>2, <2>4 DEF WholeInOrder
      <3> QED
        BY <3>1, <3>2 DEF WholeInOrder
    <2>6. Yielded' = Among(reader.next - 1)'
      BY <1>3, <1>6, <1>7, <2>1
    <2> QED
      BY <1>9, <1>10, <1>11, <2>3, <2>5, <2>6 DEF QuietInv
  <1>8. CASE ~Wanted(x)
    <2>1. out' = out /\ Yielded' = Yielded
      BY <1>2, <1>8, <1>12 DEF Yielded
    <2>2. Yielded' = Among(reader.next - 1)'
      BY <1>3, <1>6, <1>8, <2>1
    <2>3. Len(out') = Cardinality(Yielded') /\ WholeInOrder'
      BY <1>0, <2>1 DEF QuietInv, WholeInOrder
    <2> QED
      BY <1>9, <1>10, <1>11, <2>2, <2>3 DEF QuietInv
  <1> QED
    BY <1>7, <1>8

LEMMA ReadQuiet == IInv /\ RaceInv /\ QuietInv /\ Read => QuietInv'
  <1> SUFFICES ASSUME IInv, RaceInv, QuietInv, Read, Reading', races' = 0 PROVE QuietInv'
    BY DEF QuietInv
  <1>0. OrderInv /\ CellInv /\ len \in Nat
    BY SliceAssumption DEF IInv, OrderInv, CellInv
  <1>1. ASSUME NEW f \in Filters, QueryStart(f) PROVE QuietInv'
    <2>1. mu = Free
      BY <1>1 DEF QueryStart, Begin
    <2>2. PICK first \in Nat \ {0}, end \in 0..len, limit \in Nat :
             Begin(f, first, end, limit, "query") /\ first <= end + 1 /\ first = First(f) /\ end = Last(f)
      BY <1>0, <1>1, <2>1, QueryBegins
    <2>4. \A i \in 1..len : Matches(f, array[i]) =>
              First(f) <= i /\ (i <= Last(f) <=> (f.since # 0 => CreatedAt[array[i]] # f.since))
      BY <1>0, <2>1, RangeIs
    <2> HIDE DEF First, Last
    <2> QED
      BY <1>0, <2>1, <2>2, <2>4, BeginQuiet
  <1>2. ASSUME NEW f \in Filters, CountStart(f) PROVE QuietInv'
    <2>1. mu = Free
      BY <1>2 DEF CountStart, Begin
    <2>2. Begin(f, 1, len, MaxInt, "count") /\ MaxInt \in Nat /\ len \in 0..len
      BY <1>0, <1>2, CountBegins
    <2> QED
      BY <1>0, <2>1, <2>2, BeginQuiet
  <1>3. CASE ReadHalf \/ ReadNext
    <2>1. races = 0
      BY <1>3 DEF ReadHalf, ReadNext
    <2> QED
      BY <1>0, <1>3, <2>1, HalfQuiet, NextQuiet
  <1>4. ASSUME ReadEnd PROVE FALSE
    BY <1>4 DEF ReadEnd, Reading, Idle
  <1> QED
    BY <1>1, <1>2, <1>3, <1>4 DEF Read

\* A query that no write disturbed is exact.
LEMMA QuietQuery ==
    ASSUME OrderInv, RaceInv, QuietInv, Reading, AtEnd, races = 0, reader.pc = "query"
    PROVE  ExactlyFirst(Asked)
  <1>0. /\ CellInv /\ len \in Nat /\ reader.end \in Nat /\ reader.end <= len /\ reader.next \in Nat \ {0}
        /\ reader.next <= reader.end + 1 /\ Sorted(len) /\ reader.limit \in Nat
        /\ Yielded = Among(reader.next - 1) /\ Len(out) = Cardinality(Yielded) /\ Len(out) <= reader.limit
    BY SliceAssumption DEF OrderInv, CellInv, FreeInv, Free, RaceInv, ReaderInv, Readers, QuietInv
  <1>1. Asked = Among(len)
    BY DEF Asked, Matching, Among, Wanted, InSlice
  <1>2. Yielded \subseteq Asked
    BY <1>0, <1>1 DEF Among
  <1>3. IsFiniteSet(Asked) /\ Cardinality(Yielded) <= Cardinality(Asked) /\ Cardinality(Asked) \in Nat
    <2>1. Asked \subseteq Events /\ IsFiniteSet(Events)
      <3>1. InSlice \subseteq Events
        BY <1>0 DEF InSlice, CellInv
      <3>2. IsFiniteSet(Events)
        BY EventAssumption
      <3> QED
        BY <3>1, <3>2 DEF Asked, Matching
    <2>2. IsFiniteSet(Asked)
      BY <2>1, FS_Subset
    <2> QED
      BY <1>2, <2>2, FS_Subset, FS_CardinalityType
  <1>4. Len(out) = Smaller(reader.limit, Cardinality(Asked))
    <2>1. CASE reader.next > reader.end
      <3>1. Asked = Yielded
        <4>1. reader.next - 1 = reader.end
          BY <1>0, <2>1
        <4>2. \A i \in 1..len : Wanted(array[i]) => i <= reader.end
          BY <1>0 DEF QuietInv
        <4>3. Among(len) \subseteq Among(reader.end)
          BY <1>0, <4>2 DEF Among
        <4> QED
          BY <1>0, <1>1, <1>2, <4>1, <4>3
      <3> QED
        BY <1>0, <1>3, <3>1 DEF Smaller
    <2>2. CASE Len(out) = reader.limit
      BY <1>0, <1>3, <2>2 DEF Smaller
    <2> QED
      BY <2>1, <2>2 DEF AtEnd
  <1>5. ASSUME NEW x \in Asked \ Yielded, NEW y \in Yielded PROVE Before(y, x)
    <2>1. PICK i \in 1..len : x = array[i] /\ Wanted(array[i])
      BY <1>1, <1>5 DEF Among
    <2>2. PICK j \in 1..(reader.next - 1) : y = array[j]
      BY <1>0 DEF Among
    <2>3. ~(i <= reader.next - 1)
      BY <1>0, <1>5, <2>1 DEF Among
    <2> QED
      BY <1>0, <2>1, <2>2, <2>3 DEF Sorted
  <1> QED
    BY <1>2, <1>4, <1>5 DEF ExactlyFirst, QuietInv, WholeInOrder

\* A count that no write disturbed counts all that match.
LEMMA QuietCount ==
    ASSUME OrderInv, RaceInv, QuietInv, Reading, AtEnd, races = 0, reader.pc = "count"
    PROVE  Len(out) = Cardinality(Matching)
  <1>0. /\ CellInv /\ len \in Nat /\ reader.end \in Nat /\ reader.end <= len /\ reader.next \in Nat \ {0}
        /\ reader.next <= reader.end + 1
        /\ Yielded = Among(reader.next - 1) /\ Len(out) = Cardinality(Yielded) /\ reader.limit = MaxInt
    BY SliceAssumption DEF OrderInv, CellInv, RaceInv, ReaderInv, Readers, QuietInv
  <1>1. Yielded \subseteq Events /\ IsFiniteSet(Events)
    BY YieldedSeen, EventAssumption DEF RaceInv, ReaderInv
  <1>2. Cardinality(Yielded) <= Cardinality(Events)
    BY <1>1, FS_Subset
  <1>3. Cardinality(Yielded) \in Nat
    BY <1>1, FS_Subset, FS_CardinalityType
  <1>4. reader.next = reader.end + 1
    BY <1>0, <1>2, <1>3, MaxIntIs DEF AtEnd
  <1>5. \A i \in 1..len : Wanted(array[i]) => i <= reader.end
    BY <1>0 DEF QuietInv
  <1>6. Among(reader.end) = Among(len)
    BY <1>0, <1>5 DEF Among
  <1>7. Among(len) = Matching
    BY DEF Matching, Among, Wanted, InSlice
  <1>8. reader.next - 1 = reader.end
    BY <1>0, <1>4
  <1> QED
    BY <1>0, <1>6, <1>7, <1>8

\* QueryEvents and CountEvents take no lock.  All parts of what they copy were stored while they ran,
\* in whatever state writers leave the array, and the copies match and stay within the limit; and when
\* no writer was at work, the copies are whole, the two searches find the range of the filter in the
\* sorted slice, but for the second of since, and the loop yields the newest of it up to the limit.
THEOREM SliceReadsAreSound == Spec => []ReadsAreSound
  <1>1. Init => RaceInv /\ QuietInv
    <2> SUFFICES ASSUME Init PROVE RaceInv /\ QuietInv
      OBVIOUS
    <2>1. reader = Idle /\ out = <<>> /\ races = 0 /\ seen = {} /\ ~Reading
      BY DEF Init, Reading, Idle
    <2>2. ReaderInv
      BY <2>1, SliceAssumption DEF ReaderInv, Readers, Idle
    <2> QED
      BY <2>1, <2>2 DEF RaceInv, CellsSeen, YieldInv, QuietInv
  <1>2. IInv /\ RaceInv /\ QuietInv /\ [Next]_vars => RaceInv' /\ QuietInv'
    <2> SUFFICES ASSUME IInv, RaceInv, QuietInv, [Next]_vars PROVE RaceInv' /\ QuietInv'
      OBVIOUS
    <2>1. CASE UNCHANGED vars
      <3>1. UNCHANGED <<array, len, mu, reader, out, races, seen>>
        BY <2>1 DEF vars, readerVars
      <3> QED
        BY <3>1, StillRace, SameQuiet
    <2> QED
      BY <2>1, WriteRace, WriteQuiet, ReadRace, ReadQuiet DEF Next
  <1>3. IInv /\ RaceInv /\ QuietInv => ReadsAreSound
    <2> SUFFICES ASSUME IInv, RaceInv, QuietInv PROVE QuietReadIsExact /\ RacingReadIsSound
      BY DEF ReadsAreSound
    <2>1. RacingReadIsSound
      BY DEF RacingReadIsSound, RaceInv, YieldInv, ReaderInv
    <2>2. Reading => reader.pc \in {"query", "count"}
      BY DEF RaceInv, ReaderInv, Readers, Reading
    <2>3. QuietReadIsExact
      BY <2>2, QuietQuery, QuietCount DEF QuietReadIsExact, IInv
    <2> QED
      BY <2>1, <2>3
  <1> QED
    BY <1>1, <1>2, <1>3, Inductive, PTL DEF Spec
=============================================================================
