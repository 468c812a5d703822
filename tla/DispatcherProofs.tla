-------------------------- MODULE DispatcherProofs --------------------------
(***************************************************************************)
(* Proofs about the subscription index, for every set of authors, kinds,   *)
(* filters and events, and every number of listeners.                      *)
(***************************************************************************)
EXTENDS Dispatcher, TLAPS

\* When the list has no repetition and the index holds the listener wherever
\* the list says, the walk of removeSubscription never returns early and takes
\* the listener out of every set that has it.
LEMMA IndexRemoveLemma ==
    ASSUME NEW idx, NEW list \in ListOf(DOMAIN idx), NEW s,
           NoRepeats(list), \A k \in DOMAIN idx : Listed(list, k) <=> s \in idx[k]
    PROVE  /\ WalkCompletes(idx, list, s)
           /\ \A k \in DOMAIN idx : IndexRemove(idx, list, s)[k] = idx[k] \ {s}
  <1> DEFINE S == DOMAIN idx
  <1>1. CASE list = Nil
    BY <1>1 DEF WalkCompletes, IndexRemove, Listed
  <1>2. CASE list # Nil
    <2>1. list \in Seq(S) /\ DOMAIN list = 1..Len(list) /\ Len(list) \in Nat
      BY <1>2 DEF ListOf
    <2>2. \A i \in DOMAIN list : list[i] \in S /\ s \in idx[list[i]]
      BY <1>2, <2>1 DEF Listed
    <2>3. \A i \in DOMAIN list : ~MissingAt(idx, list, s, i)
      <3> SUFFICES ASSUME NEW i \in DOMAIN list, NEW j \in 1..(i - 1), list[j] = list[i]
                   PROVE  FALSE
        BY <2>2 DEF MissingAt
      <3>1. j \in DOMAIN list /\ j # i
        BY <2>1
      <3> QED
        BY <1>2, <3>1 DEF NoRepeats
    <2>4. \A i \in DOMAIN list : WalkReaches(idx, list, s, i)
      BY <2>1, <2>3 DEF WalkReaches
    <2>5. \A k \in S : IndexRemove(idx, list, s)[k] = idx[k] \ {s}
      <3> SUFFICES ASSUME NEW k \in S
                   PROVE  IndexRemove(idx, list, s)[k] = idx[k] \ {s}
        OBVIOUS
      <3>1. CASE s \in idx[k]
        BY <1>2, <2>4, <3>1 DEF IndexRemove, Listed
      <3>2. CASE s \notin idx[k]
        BY <3>2 DEF IndexRemove
      <3> QED
        BY <3>1, <3>2
    <2> QED
      BY <2>3, <2>5 DEF WalkCompletes
  <1> QED
    BY <1>1, <1>2

\* The index and its type hold together: a serial number is never reused, so
\* a new listener is in none of the sets.
IndexInv == DispatcherTypeOK /\ IndexExact

LEMMA IndexInvStep ==
    ASSUME DistinctFilters, IndexInv, [DispatcherNext]_dvars
    PROVE  IndexInv'
  <1> USE FilterAssumption, SerialAssumption DEF IndexInv, Ssids
  <1>1. ASSUME NEW sub \in Subs, AddSubscription(sub)
        PROVE  IndexInv'
    <2> DEFINE n == serial + 1
               f == sub.filter
    <2>1. n \in Ssids /\ n \in Nat /\ n \notin DOMAIN subscriptions /\ serial' = n
      BY <1>1 DEF AddSubscription, StoreSub, DispatcherTypeOK
    <2>2. /\ DOMAIN subscriptions' = DOMAIN subscriptions \cup {n}
          /\ subscriptions'[n] = sub
          /\ \A s \in DOMAIN subscriptions : subscriptions'[s] = subscriptions[s]
      BY <1>1, <2>1 DEF AddSubscription, StoreSub, Put
    <2>3. /\ byAuthor' \in [Authors -> SUBSET Ssids]
          /\ \A a \in Authors : byAuthor'[a] =
                IF Listed(f.authors, a) THEN byAuthor[a] \cup {n} ELSE byAuthor[a]
      BY <1>1, <2>1 DEF AddSubscription, IndexSub, DispatcherTypeOK, IndexAdd
    <2>4. /\ byKind' \in [Kinds -> SUBSET Ssids]
          /\ \A k \in Kinds : byKind'[k] =
                IF Listed(f.kinds, k) THEN byKind[k] \cup {n} ELSE byKind[k]
      BY <1>1, <2>1 DEF AddSubscription, IndexSub, DispatcherTypeOK, IndexAdd
    <2>5. fallback' = IF f.authors = Nil /\ f.kinds = Nil THEN fallback \cup {n} ELSE fallback
      BY <1>1 DEF AddSubscription, IndexSub
    <2>6. DispatcherTypeOK'
      BY <2>1, <2>2, <2>3, <2>4, <2>5 DEF DispatcherTypeOK
    <2>7. IndexExact'
      <3>1. \A a \in Authors : byAuthor'[a] =
                {s \in DOMAIN subscriptions' : Listed(subscriptions'[s].filter.authors, a)}
        BY <2>1, <2>2, <2>3 DEF IndexExact
      <3>2. \A k \in Kinds : byKind'[k] =
                {s \in DOMAIN subscriptions' : Listed(subscriptions'[s].filter.kinds, k)}
        BY <2>1, <2>2, <2>4 DEF IndexExact
      <3>3. fallback' = {s \in DOMAIN subscriptions' :
                subscriptions'[s].filter.authors = Nil /\ subscriptions'[s].filter.kinds = Nil}
        BY <2>1, <2>2, <2>5 DEF IndexExact
      <3> QED
        BY <3>1, <3>2, <3>3 DEF IndexExact
    <2> QED
      BY <2>6, <2>7
  <1>2. ASSUME NEW t \in DOMAIN subscriptions, RemoveSubscription(t)
        PROVE  IndexInv'
    <2> DEFINE f == subscriptions[t].filter
    <2>1. /\ t \in Ssids /\ f \in Filters /\ serial' = serial
          /\ f.authors \in ListOf(Authors) /\ f.kinds \in ListOf(Kinds)
          /\ NoRepeats(f.authors) /\ NoRepeats(f.kinds)
      BY <1>2 DEF RemoveSubscription, DeleteSub, DispatcherTypeOK, DistinctFilters, Subs
    <2>2. /\ DOMAIN subscriptions' = DOMAIN subscriptions \ {t}
          /\ \A s \in DOMAIN subscriptions' : subscriptions'[s] = subscriptions[s]
      BY <1>2 DEF RemoveSubscription, DeleteSub, Drop
    <2>3. /\ byAuthor \in [Authors -> SUBSET Ssids]
          /\ byKind \in [Kinds -> SUBSET Ssids]
      BY DEF DispatcherTypeOK
    <2>4. \A a \in Authors : Listed(f.authors, a) <=> t \in byAuthor[a]
      BY <1>2 DEF IndexExact
    <2>5. \A k \in Kinds : Listed(f.kinds, k) <=> t \in byKind[k]
      BY <1>2 DEF IndexExact
    <2>6. /\ WalkCompletes(byAuthor, f.authors, t)
          /\ byAuthor' = [a \in Authors |-> byAuthor[a] \ {t}]
      <3> HIDE DEF f
      <3>1. byAuthor' = IndexRemove(byAuthor, f.authors, t)
        BY <1>2 DEF RemoveSubscription, Unindex, f
      <3>2. DOMAIN byAuthor = Authors
        BY <2>3
      <3>3. /\ f.authors \in ListOf(DOMAIN byAuthor)
            /\ NoRepeats(f.authors)
            /\ \A a \in DOMAIN byAuthor : Listed(f.authors, a) <=> t \in byAuthor[a]
        BY <2>1, <2>4, <3>2 DEF f
      <3>4. /\ WalkCompletes(byAuthor, f.authors, t)
            /\ \A a \in DOMAIN byAuthor : IndexRemove(byAuthor, f.authors, t)[a] = byAuthor[a] \ {t}
        BY <3>3, IndexRemoveLemma
      <3> QED
        BY <3>1, <3>2, <3>4 DEF IndexRemove
    <2>7. byKind' = [k \in Kinds |-> byKind[k] \ {t}]
      <3> HIDE DEF f
      <3>1. byKind' = IndexRemove(byKind, f.kinds, t)
        BY <1>2, <2>6 DEF RemoveSubscription, Unindex, f
      <3>2. DOMAIN byKind = Kinds
        BY <2>3
      <3>3. /\ f.kinds \in ListOf(DOMAIN byKind)
            /\ NoRepeats(f.kinds)
            /\ \A k \in DOMAIN byKind : Listed(f.kinds, k) <=> t \in byKind[k]
        BY <2>1, <2>5, <3>2 DEF f
      <3>4. \A k \in DOMAIN byKind : IndexRemove(byKind, f.kinds, t)[k] = byKind[k] \ {t}
        BY <3>3, IndexRemoveLemma
      <3> QED
        BY <3>1, <3>2, <3>4 DEF IndexRemove
    <2>8. fallback' = IF f.authors = Nil /\ f.kinds = Nil THEN fallback \ {t} ELSE fallback
      BY <1>2 DEF RemoveSubscription, Unindex
    <2>9. DispatcherTypeOK'
      BY <2>1, <2>2, <2>3, <2>6, <2>7, <2>8 DEF DispatcherTypeOK
    <2>10. IndexExact'
      <3>1. \A a \in Authors : byAuthor'[a] =
                {s \in DOMAIN subscriptions' : Listed(subscriptions'[s].filter.authors, a)}
        BY <2>2, <2>6 DEF IndexExact
      <3>2. \A k \in Kinds : byKind'[k] =
                {s \in DOMAIN subscriptions' : Listed(subscriptions'[s].filter.kinds, k)}
        BY <2>2, <2>7 DEF IndexExact
      <3>3. fallback' = {s \in DOMAIN subscriptions' :
                subscriptions'[s].filter.authors = Nil /\ subscriptions'[s].filter.kinds = Nil}
        BY <2>2, <2>8 DEF IndexExact
      <3> QED
        BY <3>1, <3>2, <3>3 DEF IndexExact
    <2> QED
      BY <2>9, <2>10
  <1>3. CASE UNCHANGED dvars
    BY <1>3 DEF dvars, DispatcherTypeOK, IndexExact
  <1> QED
    BY <1>1, <1>2, <1>3 DEF DispatcherNext

\* For every set of filters none of which repeats an author or a kind, the
\* index stays exact through every sequence of addSubscription and
\* removeSubscription.
THEOREM DispatcherIndexExact ==
    ASSUME DistinctFilters
    PROVE  DispatcherSpec => []IndexExact
  <1>1. DispatcherInit => IndexInv
    BY SerialAssumption DEF DispatcherInit, IndexInv, DispatcherTypeOK, IndexExact, Ssids
  <1>2. IndexInv /\ [DispatcherNext]_dvars => IndexInv'
    BY IndexInvStep
  <1>3. IndexInv => IndexExact
    BY DEF IndexInv
  <1> QED
    BY <1>1, <1>2, <1>3, PTL DEF DispatcherSpec

\* An exact index makes candidates exact: the three loops together call yield
\* once for each listener whose filter matches, and for no other.
LEMMA ExactIndexGivesExactCandidates == IndexInv => CandidatesExact
  <1> SUFFICES ASSUME IndexInv, NEW e \in Events
               PROVE  /\ {y[2] : y \in Yields(e)} =
                            {s \in DOMAIN subscriptions : Matches(subscriptions[s].filter, e)}
                      /\ \A y, z \in Yields(e) : y[2] = z[2] => y = z
    BY DEF CandidatesExact
  <1> DEFINE dom == DOMAIN subscriptions
             ok(s) == FilterMatchesTimestampConstraintsAndTags(subscriptions[s].filter, e)
             A == {s \in dom : /\ Listed(subscriptions[s].filter.authors, e.pubkey)
                               /\ Listed(subscriptions[s].filter.kinds, e.kind) \/ subscriptions[s].filter.kinds = Nil
                               /\ ok(s)}
             K == {s \in dom : /\ Listed(subscriptions[s].filter.kinds, e.kind)
                               /\ subscriptions[s].filter.authors = Nil
                               /\ ok(s)}
             B == {s \in dom : /\ subscriptions[s].filter.authors = Nil /\ subscriptions[s].filter.kinds = Nil
                               /\ ok(s)}
  <1>1. e.pubkey \in Authors /\ e.kind \in Kinds
    BY EventAssumption
  <1>2. /\ byAuthor[e.pubkey] = {s \in dom : Listed(subscriptions[s].filter.authors, e.pubkey)}
        /\ byKind[e.kind] = {s \in dom : Listed(subscriptions[s].filter.kinds, e.kind)}
        /\ fallback = {s \in dom : subscriptions[s].filter.authors = Nil /\ subscriptions[s].filter.kinds = Nil}
    BY <1>1 DEF IndexInv, IndexExact
  <1>3. \A s \in dom : Loaded(s) = subscriptions[s].filter
    BY DEF Loaded, Load
  <1>4. Yields(e) = {<<"author", s>> : s \in A} \cup {<<"kind", s>> : s \in K}
                    \cup {<<"fallback", s>> : s \in B}
    <2>1. {s \in byAuthor[e.pubkey] : (s \in byKind[e.kind] \/ Loaded(s).kinds = Nil)
             /\ FilterMatchesTimestampConstraintsAndTags(Loaded(s), e)} = A
      BY <1>2, <1>3
    <2>2. {s \in byKind[e.kind] : Loaded(s).authors = Nil
             /\ FilterMatchesTimestampConstraintsAndTags(Loaded(s), e)} = K
      BY <1>2, <1>3
    <2>3. {s \in fallback : FilterMatchesTimestampConstraintsAndTags(Loaded(s), e)} = B
      BY <1>2, <1>3
    <2> HIDE DEF A, K, B
    <2> QED
      BY <2>1, <2>2, <2>3 DEF Yields
  <1>5. A \cup K \cup B = {s \in dom : Matches(subscriptions[s].filter, e)}
    BY DEF Matches, Listed
  <1>6. A \cap K = {} /\ A \cap B = {} /\ K \cap B = {}
    BY DEF Listed
  <1> HIDE DEF A, K, B
  <1>7. {y[2] : y \in Yields(e)} = A \cup K \cup B
    <2>1. \A y \in Yields(e) : y[2] \in A \cup K \cup B
      BY <1>4
    <2>2. \A s \in A \cup K \cup B : \E y \in Yields(e) : y[2] = s
      <3>1. /\ \A s \in A : <<"author", s>> \in Yields(e)
            /\ \A s \in K : <<"kind", s>> \in Yields(e)
            /\ \A s \in B : <<"fallback", s>> \in Yields(e)
        BY <1>4
      <3>2. \A x, s : <<x, s>>[2] = s
        OBVIOUS
      <3> QED
        BY <3>1, <3>2
    <2> QED
      BY <2>1, <2>2
  <1>8. \A y, z \in Yields(e) : y[2] = z[2] => y = z
    BY <1>4, <1>6
  <1> QED
    BY <1>5, <1>7, <1>8

\* Whatever the order in which listeners with such filters come and go, an
\* event is offered to exactly the open listeners it matches, once each.
THEOREM DispatcherCandidatesExact ==
    ASSUME DistinctFilters
    PROVE  DispatcherSpec => []CandidatesExact
  <1>1. DispatcherInit => IndexInv
    BY SerialAssumption DEF DispatcherInit, IndexInv, DispatcherTypeOK, IndexExact, Ssids
  <1>2. IndexInv /\ [DispatcherNext]_dvars => IndexInv'
    BY IndexInvStep
  <1> QED
    BY <1>1, <1>2, ExactIndexGivesExactCandidates, PTL DEF DispatcherSpec
=============================================================================
