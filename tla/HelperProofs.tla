---------------------------- MODULE HelperProofs ----------------------------
(***************************************************************************)
(* Proofs about Lists, Sampling and Ids, for any items, any n and any      *)
(* identifiers: what is arranged is a permutation, sampleByID chooses the  *)
(* n smallest ids, a loop over the sample meets each item once and an      *)
(* agency prefix can be told from the id it makes; and what the recursions *)
(* of Total and of FlattenSeq compute, by an induction over a set of       *)
(* numbers.                                                                *)
(***************************************************************************)
EXTENDS Ids, Sampling, SequencesExt, SequenceTheorems, FiniteSetTheorems, TLAPS

\* ahead[i] is what a strict total order on the finite set DOMAIN ahead has before i.
Ordering(ahead) ==
    /\ IsFiniteSet(DOMAIN ahead)
    /\ ahead \in [DOMAIN ahead -> SUBSET DOMAIN ahead]
    /\ \A i \in DOMAIN ahead : i \notin ahead[i]
    /\ \A i, j \in DOMAIN ahead : i # j => i \in ahead[j] \/ j \in ahead[i]
    /\ \A i \in DOMAIN ahead : \A j \in ahead[i] : ahead[j] \subseteq ahead[i]

\* The p-th place of the result holds the items[place[p]].
Places(ahead, place) ==
    /\ place \in [1 .. Cardinality(DOMAIN ahead) -> DOMAIN ahead]
    /\ IsInjective(place)
    /\ Range(place) = DOMAIN ahead
    /\ \A p, q \in DOMAIN place : p < q <=> place[p] \in ahead[place[q]]

Unique(s) == IsInjective(s)
-----------------------------------------------------------------------------
\* The places of two indices differ as the order has it, so that there is one index
\* for each place.
LEMMA RankIsBijection ==
    ASSUME NEW ahead, Ordering(ahead)
    PROVE  LET I == DOMAIN ahead
               rank == [i \in I |-> Cardinality(ahead[i]) + 1]
           IN  /\ Cardinality(I) \in Nat
               /\ rank \in [I -> 1 .. Cardinality(I)]
               /\ \A i, j \in I : j \in ahead[i] <=> rank[j] < rank[i]
               /\ \A i, j \in I : rank[i] = rank[j] => i = j
               /\ \A p \in 1 .. Cardinality(I) : \E i \in I : rank[i] = p
<1> DEFINE I == DOMAIN ahead
<1> DEFINE rank == [i \in I |-> Cardinality(ahead[i]) + 1]
<1>1. IsFiniteSet(I) /\ Cardinality(I) \in Nat
  BY FS_CardinalityType DEF Ordering
<1>2. \A i \in I : IsFiniteSet(ahead[i]) /\ Cardinality(ahead[i]) \in Nat
  BY <1>1, FS_Subset, FS_CardinalityType DEF Ordering
<1>3. \A i \in I : rank[i] \in 1 .. Cardinality(I)
  <2> SUFFICES ASSUME NEW i \in I PROVE rank[i] \in 1 .. Cardinality(I)
    OBVIOUS
  <2>1. ahead[i] \in SUBSET I /\ ahead[i] # I
    BY DEF Ordering
  <2>2. Cardinality(ahead[i]) <= Cardinality(I) /\ Cardinality(ahead[i]) # Cardinality(I)
    BY <1>1, <2>1, FS_Subset
  <2> QED BY <1>1, <1>2, <2>2
<1>4. \A i, j \in I : j \in ahead[i] => rank[j] < rank[i]
  <2> SUFFICES ASSUME NEW i \in I, NEW j \in ahead[i], j \in I PROVE rank[j] < rank[i]
    OBVIOUS
  <2>1. ahead[j] \in SUBSET ahead[i] /\ ahead[j] # ahead[i]
    BY DEF Ordering
  <2>2. Cardinality(ahead[j]) <= Cardinality(ahead[i]) /\ Cardinality(ahead[j]) # Cardinality(ahead[i])
    BY <1>2, <2>1, FS_Subset
  <2> QED BY <1>2, <2>2
<1>5. \A i, j \in I : i # j => rank[i] < rank[j] \/ rank[j] < rank[i]
  BY <1>4 DEF Ordering
<1>6. rank \in Injection(I, 1 .. Cardinality(I))
  <2>1. \A i, j \in I : rank[i] = rank[j] => i = j
    BY <1>3, <1>5
  <2> QED BY <1>3, <2>1 DEF Injection, IsInjective
<1>7. IsFiniteSet(1 .. Cardinality(I)) /\ Cardinality(1 .. Cardinality(I)) = Cardinality(I)
  BY <1>1, FS_Interval
<1>8. rank \in Surjection(I, 1 .. Cardinality(I))
  BY <1>6, <1>7, FS_Injection
<1>9. \A i, j \in I : rank[j] < rank[i] => j \in ahead[i]
  <2> SUFFICES ASSUME NEW i \in I, NEW j \in I, rank[j] < rank[i], j \notin ahead[i] PROVE FALSE
    OBVIOUS
  <2>1. i # j
    BY <1>3
  <2>2. i \in ahead[j]
    BY <2>1 DEF Ordering
  <2>3. rank[i] < rank[j]
    BY <1>4, <2>2
  <2> QED BY <1>3, <2>3
<1> QED BY <1>1, <1>3, <1>4, <1>6, <1>8, <1>9 DEF Injection, Surjection, IsInjective

LEMMA ArrangedByPlaces ==
    ASSUME NEW items, NEW ahead, Ordering(ahead)
    PROVE  \E place : /\ Places(ahead, place)
                      /\ Arranged(items, ahead) = [p \in DOMAIN place |-> items[place[p]]]
<1> DEFINE I == DOMAIN ahead
           N == Cardinality(I)
           place == [p \in 1 .. N |-> CHOOSE i \in I : Cardinality(ahead[i]) = p - 1]
           rank == [i \in I |-> Cardinality(ahead[i]) + 1]
<1>1. /\ N \in Nat
      /\ rank \in [I -> 1 .. N]
      /\ \A i, j \in I : j \in ahead[i] <=> rank[j] < rank[i]
      /\ \A i, j \in I : rank[i] = rank[j] => i = j
      /\ \A p \in 1 .. N : \E i \in I : rank[i] = p
  BY RankIsBijection
<1>2. \A i \in I : Cardinality(ahead[i]) \in Nat
  BY FS_Subset, FS_CardinalityType DEF Ordering
<1>3. \A p \in 1 .. N : place[p] \in I /\ rank[place[p]] = p
  <2> SUFFICES ASSUME NEW p \in 1 .. N PROVE place[p] \in I /\ rank[place[p]] = p
    OBVIOUS
  <2>1. PICK i \in I : rank[i] = p
    BY <1>1
  <2>2. Cardinality(ahead[i]) = p - 1
    BY <1>2, <2>1
  <2>3. place[p] \in I /\ Cardinality(ahead[place[p]]) = p - 1
    BY <2>2
  <2> QED BY <2>3
<1> HIDE DEF rank, place
<1>4. place \in [1 .. N -> I]
  BY <1>3 DEF place
<1>5. \A i \in I : place[rank[i]] = i
  BY <1>1, <1>3
<1>6. Range(place) = I
  <2>1. Range(place) \subseteq I
    BY <1>4 DEF Range
  <2>2. \A i \in I : rank[i] \in DOMAIN place
    BY <1>1, <1>4
  <2> QED BY <1>5, <2>1, <2>2 DEF Range
<1>7. IsInjective(place)
  BY <1>3, <1>4 DEF IsInjective
<1>8. \A p, q \in 1 .. N : p < q <=> place[p] \in ahead[place[q]]
  BY <1>1, <1>3
<1>9. Places(ahead, place)
  BY <1>4, <1>6, <1>7, <1>8 DEF Places
<1>10. Arranged(items, ahead) = [p \in DOMAIN place |-> items[place[p]]]
  BY <1>4 DEF Arranged, place
<1> QED BY <1>9, <1>10

LEMMA ArrangedProperties ==
    ASSUME NEW S, NEW items, NEW ahead, Ordering(ahead),
           \A i \in DOMAIN ahead : items[i] \in S
    PROVE  LET arranged == Arranged(items, ahead)
           IN  /\ arranged \in Seq(S)
               /\ Len(arranged) = Cardinality(DOMAIN ahead)
               /\ Range(arranged) = {items[i] : i \in DOMAIN ahead}
               /\ (\A i, j \in DOMAIN ahead : items[i] = items[j] => i = j) => Unique(arranged)
<1> DEFINE arranged == Arranged(items, ahead)
           N == Cardinality(DOMAIN ahead)
<1>1. PICK place : Places(ahead, place) /\ arranged = [p \in DOMAIN place |-> items[place[p]]]
  BY ArrangedByPlaces
<1>2. N \in Nat
  BY FS_CardinalityType DEF Ordering
<1>3. place \in [1 .. N -> DOMAIN ahead]
  BY <1>1 DEF Places
<1>4. arranged \in [1 .. N -> S]
  BY <1>1, <1>3
<1>5. arranged \in Seq(S) /\ Len(arranged) = N
  BY <1>2, <1>4, SeqDef
<1>6. Range(arranged) = {items[i] : i \in DOMAIN ahead}
  <2>1. Range(arranged) = {items[place[p]] : p \in DOMAIN place}
    BY <1>1 DEF Range
  <2>2. DOMAIN ahead = {place[p] : p \in DOMAIN place}
    BY <1>1 DEF Places, Range
  <2> QED BY <2>1, <2>2
<1>7. (\A i, j \in DOMAIN ahead : items[i] = items[j] => i = j) => Unique(arranged)
  BY <1>1, <1>3 DEF Unique, IsInjective, Places
<1> QED BY <1>5, <1>6, <1>7

LEMMA IndicesFinite ==
    ASSUME NEW S, NEW s \in Seq(S)
    PROVE  /\ Len(s) \in Nat /\ DOMAIN s = 1 .. Len(s)
           /\ IsFiniteSet(DOMAIN s) /\ Cardinality(DOMAIN s) = Len(s)
<1>1. Len(s) \in Nat /\ DOMAIN s = 1 .. Len(s)
  BY LenProperties
<1>2. \A n \in Nat : IsFiniteSet(1 .. n) /\ Cardinality(1 .. n) = n
  BY FS_Interval
<1> QED BY <1>1, <1>2

LEMMA KeptOrdering ==
    ASSUME NEW S, NEW items \in Seq(S), NEW I \in SUBSET DOMAIN items
    PROVE  Ordering([i \in I |-> {j \in I : j < i}]) /\ DOMAIN [i \in I |-> {j \in I : j < i}] = I
<1> DEFINE ahead == [i \in I |-> {j \in I : j < i}]
<1>1. I \in SUBSET (1 .. Len(items)) /\ Len(items) \in Nat
  BY LenProperties
<1>2. IsFiniteSet(I)
  BY IndicesFinite, FS_Subset
<1>3. \A i, j \in I : i # j => i < j \/ j < i
  BY <1>1
<1>4. \A i \in I : \A j \in ahead[i] : ahead[j] \subseteq ahead[i]
  BY <1>1
<1>5. \A i \in I : i \notin ahead[i]
  BY <1>1
<1> QED BY <1>2, <1>3, <1>4, <1>5 DEF Ordering

\* A loop with a filter keeps the items with an index in I, in their order.
LEMMA KeptProperties ==
    ASSUME NEW S, NEW items \in Seq(S), NEW I \in SUBSET DOMAIN items
    PROVE  /\ Kept(items, I) \in Seq(S)
           /\ Len(Kept(items, I)) = Cardinality(I) /\ Cardinality(I) <= Len(items)
           /\ Range(Kept(items, I)) = {items[i] : i \in I}
           /\ Kept(items, I) = <<>> <=> I = {}
           /\ Unique(items) => Unique(Kept(items, I))
<1> DEFINE ahead == [i \in I |-> {j \in I : j < i}]
<1>1. I \in SUBSET (1 .. Len(items)) /\ Len(items) \in Nat
  BY LenProperties
<1>3. IsFiniteSet(I) /\ Cardinality(I) <= Len(items)
  BY IndicesFinite, FS_Subset
<1>4. Ordering(ahead)
  BY KeptOrdering
<1>5. \A i \in DOMAIN ahead : items[i] \in S
  BY <1>1, LenProperties
<1>6. Kept(items, I) = Arranged(items, ahead) /\ DOMAIN ahead = I
  BY DEF Kept
<1> HIDE DEF ahead
<1>7. /\ Kept(items, I) \in Seq(S)
      /\ Len(Kept(items, I)) = Cardinality(I)
      /\ Range(Kept(items, I)) = {items[i] : i \in I}
      /\ (\A i, j \in I : items[i] = items[j] => i = j) => Unique(Kept(items, I))
  BY <1>4, <1>5, <1>6, ArrangedProperties
<1>8. Kept(items, I) = <<>> <=> I = {}
  BY <1>3, <1>7, EmptySeq, FS_EmptySet
<1>9. Unique(items) => Unique(Kept(items, I))
  BY <1>7 DEF Unique, IsInjective
<1> QED BY <1>3, <1>7, <1>8, <1>9

\* The order of the stable sort: by id, and by the order of the items among equal ids.
LEMMA AheadOrders ==
    ASSUME NEW S, NEW items \in Seq(S), OrderedIds({items[i].id : i \in DOMAIN items})
    PROVE  Ordering([i \in DOMAIN items |-> Ahead(items, i)])
<1> DEFINE I == DOMAIN items
           ids == {items[i].id : i \in I}
           ahead == [i \in I |-> Ahead(items, i)]
<1>1. IsFiniteSet(I) /\ I \subseteq Nat
  BY IndicesFinite
<1>2. \A i, j \in I : j \in Ahead(items, i) <=>
          Before(items[j].id, items[i].id) \/ (items[j].id = items[i].id /\ j < i)
  BY DEF Ahead
<1>3. \A i \in I : items[i].id \in ids
  OBVIOUS
<1>4. \A i \in I : i \notin Ahead(items, i)
  BY <1>1, <1>2, <1>3 DEF OrderedIds
<1>5. \A i, j \in I : i # j => i \in Ahead(items, j) \/ j \in Ahead(items, i)
  <2> SUFFICES ASSUME NEW i \in I, NEW j \in I, i # j
               PROVE  i \in Ahead(items, j) \/ j \in Ahead(items, i)
    OBVIOUS
  <2>1. i < j \/ j < i
    BY <1>1
  <2>2. \/ items[i].id = items[j].id
        \/ Before(items[i].id, items[j].id) \/ Before(items[j].id, items[i].id)
    BY <1>3 DEF OrderedIds
  <2> QED BY <1>2, <2>1, <2>2
<1>6. \A i \in I : \A j \in Ahead(items, i) : Ahead(items, j) \subseteq Ahead(items, i)
  <2> SUFFICES ASSUME NEW i \in I, NEW j \in Ahead(items, i), NEW k \in Ahead(items, j)
               PROVE  k \in Ahead(items, i)
    OBVIOUS
  <2>1. j \in I /\ k \in I
    BY <1>2 DEF Ahead
  <2>2. Before(items[j].id, items[i].id) \/ (items[j].id = items[i].id /\ j < i)
    BY <1>2, <2>1
  <2>3. Before(items[k].id, items[j].id) \/ (items[k].id = items[j].id /\ k < j)
    BY <1>2, <2>1
  <2>4. Before(items[k].id, items[j].id) /\ Before(items[j].id, items[i].id)
        => Before(items[k].id, items[i].id)
    BY <1>3, <2>1 DEF OrderedIds
  <2>5. k < j /\ j < i => k < i
    BY <1>1, <2>1
  <2> QED BY <1>2, <2>1, <2>2, <2>3, <2>4, <2>5
<1>7. ahead \in [I -> SUBSET I]
  BY DEF Ahead
<1>8. \A i \in I : ahead[i] = Ahead(items, i)
  OBVIOUS
<1>9. DOMAIN ahead = I
  OBVIOUS
<1> HIDE DEF ahead
<1> QED BY <1>1, <1>4, <1>5, <1>6, <1>7, <1>8, <1>9 DEF Ordering

LEMMA ListOf ==
    ASSUME NEW S, NEW n, n \in Nat, NEW f, f \in [1 .. n -> S]
    PROVE  f \in Seq(S) /\ Len(f) = n
<1>1. f \in Seq(S)
  BY SeqDef
<1>2. DOMAIN f = 1 .. n /\ DOMAIN f = 1 .. Len(f) /\ Len(f) \in Nat
  BY <1>1, LenProperties
<1> QED BY <1>1, <1>2

LEMMA UniqueCount ==
    ASSUME NEW S, NEW s \in Seq(S), Unique(s)
    PROVE  IsFiniteSet(Range(s)) /\ Cardinality(Range(s)) = Len(s)
<1>1. IsFiniteSet(DOMAIN s) /\ Cardinality(DOMAIN s) = Len(s)
  BY IndicesFinite
<1>2. s \in Bijection(DOMAIN s, Range(s))
  BY LenProperties DEF Bijection, Injection, Surjection, Range, Unique, IsInjective
<1> QED BY <1>1, <1>2, FS_Bijection DEF ExistsBijection

LEMMA CutPrefix ==
    ASSUME NEW S, NEW s \in Seq(S), NEW n \in Nat
    PROVE  LET m == IF n < Len(s) THEN n ELSE Len(s)
           IN  /\ m \in Nat /\ m <= n /\ m <= Len(s)
               /\ Cut(s, n) \in Seq(S) /\ Len(Cut(s, n)) = m
               /\ \A p \in 1 .. m : Cut(s, n)[p] = s[p]
               /\ Range(Cut(s, n)) = {s[p] : p \in 1 .. m}
               /\ Unique(s) => Unique(Cut(s, n))
<1> DEFINE m == IF n < Len(s) THEN n ELSE Len(s)
<1>1. Len(s) \in Nat /\ s \in [1 .. Len(s) -> S] /\ DOMAIN s = 1 .. Len(s)
  BY LenProperties
<1>2. m \in Nat /\ m <= n /\ m <= Len(s) /\ 1 .. m \subseteq DOMAIN s
  BY <1>1
<1>3. Cut(s, n) = [p \in 1 .. m |-> s[p]]
  <2>1. CASE n < Len(s)
    <3>1. SubSeq(s, 1, n) = [p \in 1 .. n |-> s[p]]
      BY <1>1
    <3> QED BY <2>1, <3>1 DEF Cut
  <2>2. CASE ~(n < Len(s))
    BY <1>1, <2>2 DEF Cut
  <2> QED BY <2>1, <2>2
<1> HIDE DEF m
<1>4. Cut(s, n) \in [1 .. m -> S]
  BY <1>1, <1>2, <1>3
<1>5. Cut(s, n) \in Seq(S) /\ Len(Cut(s, n)) = m
  BY <1>2, <1>4, SeqDef
<1>6. Range(Cut(s, n)) = {s[p] : p \in 1 .. m}
  BY <1>3 DEF Range
<1>7. Unique(s) => Unique(Cut(s, n))
  BY <1>2, <1>3 DEF Unique, IsInjective
<1> QED BY <1>2, <1>3, <1>5, <1>6, <1>7 DEF m

\* sampleByID of distinct items chooses the n that come first by id, once each (util.go:31-41).
THEOREM SampleChosen ==
    ASSUME NEW S, NEW items \in Seq(S), Unique(items), NEW n \in Nat,
           OrderedIds({items[i].id : i \in DOMAIN items})
    PROVE  LET sample == sampleByID(items, n)
           IN  /\ sample \in Seq(S)
               /\ Len(sample) = IF n < Len(items) THEN n ELSE Len(items)
               /\ Unique(sample)
               /\ Range(sample) \subseteq Range(items)
               /\ SmallestChosen(Range(sample), items, n)
<1> DEFINE I == DOMAIN items
           ahead == [i \in I |-> Ahead(items, i)]
           sorted == SliceStable(items)
           sample == sampleByID(items, n)
           m == IF n < Len(items) THEN n ELSE Len(items)
<1>1. Ordering(ahead) /\ DOMAIN ahead = I
  BY AheadOrders
<1>2. Len(items) \in Nat /\ IsFiniteSet(I) /\ Cardinality(I) = Len(items) /\ items \in [I -> S]
  BY IndicesFinite, LenProperties
<1>3. sorted = Arranged(items, ahead)
  BY DEF SliceStable
<1>4. /\ sorted \in Seq(S) /\ Len(sorted) = Len(items)
      /\ Unique(sorted)
      /\ Range(sorted) = {items[i] : i \in I}
  <2>1. \A i \in DOMAIN ahead : items[i] \in S
    BY <1>1, <1>2
  <2>2. \A i, j \in DOMAIN ahead : items[i] = items[j] => i = j
    BY <1>1 DEF Unique, IsInjective
  <2> HIDE DEF ahead
  <2> QED BY <1>1, <1>2, <1>3, <2>1, <2>2, ArrangedProperties
<1>5. PICK place : Places(ahead, place) /\ sorted = [p \in DOMAIN place |-> items[place[p]]]
  <2> HIDE DEF ahead, sorted
  <2> QED BY <1>1, <1>3, ArrangedByPlaces
<1>6. place \in [1 .. Len(items) -> I]
  BY <1>1, <1>2, <1>5 DEF Places
<1>7. /\ m \in Nat /\ m <= n /\ m <= Len(items)
      /\ sample \in Seq(S) /\ Len(sample) = m
      /\ Unique(sample)
      /\ Range(sample) = {sorted[p] : p \in 1 .. m}
  <2>1. sample = Cut(sorted, n)
    BY DEF sampleByID
  <2> DEFINE k == IF n < Len(sorted) THEN n ELSE Len(sorted)
  <2>2. k = m
    BY <1>4
  <2> HIDE DEF sample, sorted, m
  <2>3. /\ k \in Nat /\ k <= n /\ k <= Len(sorted)
        /\ Cut(sorted, n) \in Seq(S) /\ Len(Cut(sorted, n)) = k
        /\ Range(Cut(sorted, n)) = {sorted[p] : p \in 1 .. k}
        /\ Unique(sorted) => Unique(Cut(sorted, n))
    BY <1>4, CutPrefix
  <2> HIDE DEF k
  <2> QED BY <1>4, <2>1, <2>2, <2>3
<1>8. Cardinality(Range(sample)) = m
  BY <1>7, UniqueCount
<1>9. Range(sample) = {items[place[p]] : p \in 1 .. m}
  <2>1. \A p \in 1 .. m : sorted[p] = items[place[p]]
    BY <1>2, <1>5, <1>6, <1>7
  <2> QED BY <1>7, <2>1
<1>10. Range(sample) \subseteq Range(items)
  <2>1. Range(items) = {items[i] : i \in I}
    BY DEF Range
  <2>2. \A p \in 1 .. m : place[p] \in I
    BY <1>2, <1>6, <1>7
  <2> QED BY <1>9, <2>1, <2>2
<1>11. ASSUME NEW i \in I, NEW j \in I, items[i] \in Range(sample), items[j] \notin Range(sample)
       PROVE  Before(items[i].id, items[j].id) \/ (items[i].id = items[j].id /\ i < j)
  <2>1. PICK p \in 1 .. m : items[i] = items[place[p]]
    BY <1>9, <1>11
  <2>2. p \in 1 .. Len(items) /\ i = place[p]
    BY <1>2, <1>6, <1>7, <2>1 DEF Unique, IsInjective
  <2>3. PICK q \in 1 .. Len(items) : j = place[q]
    <3>1. Range(place) = I /\ Range(place) = {place[q] : q \in 1 .. Len(items)}
      BY <1>1, <1>5, <1>6 DEF Places, Range
    <3> QED BY <3>1
  <2>4. q \notin 1 .. m
    BY <1>9, <1>11, <2>3
  <2>5. p < q
    BY <1>2, <1>7, <2>4
  <2>6. place[p] \in ahead[place[q]]
    BY <1>5, <1>6, <2>2, <2>5 DEF Places
  <2>7. i \in Ahead(items, j)
    BY <2>2, <2>3, <2>6
  <2> QED BY <2>7 DEF Ahead
<1>12. SmallestChosen(Range(sample), items, n)
  BY <1>8, <1>10, <1>11 DEF SmallestChosen
<1> QED BY <1>7, <1>10, <1>12

\* One round of a loop over any items.
LEMMA TailRange ==
    ASSUME NEW S, NEW s \in Seq(S), s # <<>>
    PROVE  /\ Head(s) \in S
           /\ Tail(s) \in Seq(S) /\ Len(s) \in Nat /\ Len(Tail(s)) = Len(s) - 1
           /\ Range(s) = {Head(s)} \cup Range(Tail(s))
<1>1. /\ Len(s) \in Nat \ {0} /\ DOMAIN s = 1 .. Len(s)
      /\ Head(s) = s[1] /\ Head(s) \in S
      /\ Tail(s) \in Seq(S) /\ Len(Tail(s)) = Len(s) - 1
      /\ DOMAIN Tail(s) = 1 .. Len(s) - 1
      /\ \A i \in 1 .. Len(s) - 1 : Tail(s)[i] = s[i + 1]
  BY EmptySeq, LenProperties, HeadTailProperties
<1>2. PICK n \in Nat \ {0} : n = Len(s)
  BY <1>1
<1>3. ASSUME NEW x \in Range(Tail(s)) PROVE x \in Range(s)
  <2>1. PICK i \in 1 .. n - 1 : x = s[i + 1]
    BY <1>1, <1>2, <1>3 DEF Range
  <2>2. i + 1 \in DOMAIN s
    BY <1>1, <1>2
  <2> QED BY <2>1, <2>2 DEF Range
<1>4. ASSUME NEW x \in Range(s), x # Head(s) PROVE x \in Range(Tail(s))
  <2>1. PICK i \in 1 .. n : x = s[i]
    BY <1>1, <1>2, <1>4 DEF Range
  <2>2. i # 1
    BY <1>1, <1>4, <2>1
  <2>3. i - 1 \in 1 .. n - 1 /\ (i - 1) + 1 = i
    BY <2>2
  <2>4. x = Tail(s)[i - 1] /\ i - 1 \in DOMAIN Tail(s)
    BY <1>1, <1>2, <2>1, <2>3
  <2> QED BY <2>4 DEF Range
<1>5. Head(s) \in Range(s)
  BY <1>1 DEF Range
<1> QED BY <1>1, <1>3, <1>4, <1>5

\* ... and over distinct ones: none comes twice.
LEMMA LoopStep ==
    ASSUME NEW S, NEW s \in Seq(S), s # <<>>, Unique(s)
    PROVE  Unique(Tail(s)) /\ Range(Tail(s)) = Range(s) \ {Head(s)}
<1>1. /\ Len(s) \in Nat \ {0} /\ DOMAIN s = 1 .. Len(s)
      /\ Head(s) = s[1]
      /\ DOMAIN Tail(s) = 1 .. Len(s) - 1
      /\ \A i \in 1 .. Len(s) - 1 : Tail(s)[i] = s[i + 1]
  BY EmptySeq, LenProperties, HeadTailProperties
<1>2. PICK n \in Nat \ {0} : n = Len(s)
  BY <1>1
<1>3. \A i, j \in 1 .. n : s[i] = s[j] => i = j
  BY <1>1, <1>2 DEF Unique, IsInjective
<1>4. Unique(Tail(s))
  <2> SUFFICES ASSUME NEW i \in 1 .. n - 1, NEW j \in 1 .. n - 1, Tail(s)[i] = Tail(s)[j]
               PROVE  i = j
    BY <1>1, <1>2 DEF Unique, IsInjective
  <2>1. i + 1 \in 1 .. n /\ j + 1 \in 1 .. n /\ s[i + 1] = s[j + 1]
    BY <1>1, <1>2
  <2> QED BY <1>3, <2>1
<1>5. Head(s) \notin Range(Tail(s))
  <2> SUFFICES ASSUME NEW i \in 1 .. n - 1, Tail(s)[i] = s[1] PROVE FALSE
    BY <1>1, <1>2 DEF Range
  <2>1. i + 1 \in 1 .. n /\ 1 \in 1 .. n /\ s[i + 1] = s[1] /\ i + 1 # 1
    BY <1>1, <1>2
  <2> QED BY <1>3, <2>1
<1> QED BY <1>4, <1>5, TailRange
-----------------------------------------------------------------------------
LEMMA OneElement ==
    ASSUME NEW S, NEW x \in S
    PROVE  <<x>> \in Seq(S) /\ Len(<<x>>) = 1
OBVIOUS

LEMMA BlankIsId == Blank \in Id
<1>1. Blank \in Seq(Parts) /\ Len(Blank) = 1
  BY PartsAssumption, OneElement DEF Blank
<1> QED BY <1>1, EmptySeq DEF Id

LEMMA PrefixedIsId ==
    ASSUME NEW a \in Id, NEW r \in Id
    PROVE  PrefixedID(a, r) \in Id
<1>1. a \o r \in Seq(Parts) /\ Len(a \o r) = Len(a) + Len(r)
  BY ConcatProperties DEF Id
<1>2. Len(a) \in Nat \ {0} /\ Len(r) \in Nat \ {0}
  BY EmptySeq DEF Id
<1>3. a \o r # <<>>
  BY <1>1, <1>2, EmptySeq
<1> QED BY <1>1, <1>3 DEF PrefixedID, Id

\* The id under which an agency serves an entity matches the entity's id there.
LEMMA PrefixedMatches ==
    ASSUME NEW a \in Id, NEW r \in Id
    PROVE  IDMatch(PrefixedID(a, r), r, a)
BY DEF IDMatch, PrefixedID

\* The agency can be told from an id that it made, once the raw id is known.
LEMMA AgencyTold ==
    ASSUME NEW a \in Id, NEW b \in Id, NEW r \in Id, PrefixedID(a, r) = PrefixedID(b, r)
    PROVE  a = b
<1>1. /\ a \in Seq(Parts) /\ b \in Seq(Parts) /\ r \in Seq(Parts)
      /\ Len(a) \in Nat \ {0} /\ Len(b) \in Nat \ {0} /\ Len(r) \in Nat
  BY EmptySeq, LenProperties DEF Id
<1>2. Len(a \o r) = Len(a) + Len(r) /\ Len(b \o r) = Len(b) + Len(r)
  BY <1>1, ConcatProperties
<1>3. a \o r = b \o r => a = b
  BY <1>1, ConcatSimplifications
<1>4. a \o r # r /\ b \o r # r
  BY <1>1, <1>2
<1> QED BY <1>3, <1>4 DEF PrefixedID
-----------------------------------------------------------------------------
\* The least of some numbers.
LEMMA Least ==
    ASSUME NEW S, S \subseteq Nat, S # {}
    PROVE  \E n \in S : \A m \in S : n <= m
<1>1. PICK n \in S : \A m \in S : ~(<<m, n>> \in OpToRel(<, Nat))
  BY NatLessThanWellFounded, WFMin
<1>2. \A m \in S : ~(m < n)
  BY <1>1 DEF OpToRel
<1> QED BY <1>2

\* Induction up to n, on the set of the numbers for which something is so.
LEMMA Induction ==
    ASSUME NEW n \in Nat, NEW P, 0 \in P, \A i \in 1 .. n : i - 1 \in P => i \in P
    PROVE  0 .. n \subseteq P
<1> DEFINE Q == (0 .. n) \ P
<1> SUFFICES ASSUME Q # {} PROVE FALSE
  OBVIOUS
<1>1. PICK i \in Q : \A j \in Q : i <= j
  <2>1. Q \subseteq Nat
    OBVIOUS
  <2> HIDE DEF Q
  <2> QED BY <2>1, Least
<1>2. i \in 1 .. n /\ i - 1 \in 0 .. n /\ ~(i <= i - 1)
  BY <1>1
<1>3. i - 1 \in P
  BY <1>1, <1>2
<1> QED BY <1>1, <1>2, <1>3

\* f is defined by recursion up to n.
Recurs(f, n, T, base, step) ==
    /\ f \in [0 .. n -> T]
    /\ f[0] = base
    /\ \A i \in 1 .. n : f[i] = step[i][f[i - 1]]

LEMMA Recursion ==
    ASSUME NEW n \in Nat, NEW T, NEW base \in T, NEW step \in [1 .. n -> [T -> T]]
    PROVE  \E f : Recurs(f, n, T, base, step)
<1> DEFINE P == {m \in 0 .. n : \E f : Recurs(f, m, T, base, step)}
<1>1. 0 \in P
  <2> DEFINE f == [i \in 0 .. 0 |-> base]
  <2>1. Recurs(f, 0, T, base, step)
    BY DEF Recurs
  <2> QED BY <2>1
<1>2. ASSUME NEW m \in 1 .. n, m - 1 \in P PROVE m \in P
  <2>1. PICK f : Recurs(f, m - 1, T, base, step)
    BY <1>2
  <2> DEFINE g == [i \in 0 .. m |-> IF i = m THEN step[m][f[m - 1]] ELSE f[i]]
  <2>2. f \in [0 .. m - 1 -> T] /\ m - 1 \in 0 .. m - 1
    BY <2>1 DEF Recurs
  <2>3. step[m] \in [T -> T] /\ f[m - 1] \in T
    BY <2>2
  <2>4. g \in [0 .. m -> T]
    BY <2>2, <2>3
  <2>5. g[m] = step[m][f[m - 1]] /\ \A i \in 0 .. m - 1 : g[i] = f[i]
    OBVIOUS
  <2> HIDE DEF g
  <2>6. \A i \in 1 .. m : g[i] = step[i][g[i - 1]]
    <3>1. CASE m = 1
      BY <2>5, <3>1
    <3>2. ASSUME NEW i \in 1 .. m - 1 PROVE g[i] = step[i][g[i - 1]]
      <4>1. f[i] = step[i][f[i - 1]]
        BY <2>1 DEF Recurs
      <4>2. i \in 0 .. m - 1 /\ i - 1 \in 0 .. m - 1
        OBVIOUS
      <4> QED BY <2>5, <4>1, <4>2
    <3>3. g[m] = step[m][g[m - 1]]
      BY <2>2, <2>5
    <3> QED BY <3>2, <3>3
  <2>7. g[0] = base
    BY <2>1, <2>5 DEF Recurs
  <2>8. Recurs(g, m, T, base, step)
    BY <2>4, <2>6, <2>7 DEF Recurs
  <2> QED BY <2>8
<1>3. n \in P
  <2> HIDE DEF P
  <2>1. 0 .. n \subseteq P
    BY <1>1, <1>2, Induction
  <2> QED BY <2>1
<1> QED BY <1>3

\* Total is the last of the sums of what comes first.
LEMMA TotalSums ==
    ASSUME NEW numbers \in Seq(Nat)
    PROVE  \E sum \in [0 .. Len(numbers) -> Nat] :
               /\ sum[0] = 0
               /\ \A n \in 1 .. Len(numbers) : sum[n] = sum[n - 1] + numbers[n]
               /\ Total(numbers) = sum[Len(numbers)]
<1>1. PICK L \in Nat : L = Len(numbers)
  BY LenProperties
<1>2. \A n \in 1 .. L : numbers[n] \in Nat
  BY <1>1, LenProperties
<1> DEFINE step == [n \in 1 .. L |-> [x \in Nat |-> x + numbers[n]]]
           Sums(f) == f = [n \in 0 .. L |-> IF n = 0 THEN 0 ELSE f[n - 1] + numbers[n]]
           sum == CHOOSE f : Sums(f)
<1>3. \A n \in 1 .. L, x \in Nat : step[n][x] = x + numbers[n]
  OBVIOUS
<1>4. step \in [1 .. L -> [Nat -> Nat]]
  BY <1>2
<1> HIDE DEF step
<1>5. PICK f : Recurs(f, L, Nat, 0, step)
  <2>1. 0 \in Nat /\ L \in Nat
    BY <1>1
  <2> QED BY <1>4, <2>1, Recursion
<1>6. Sums(f)
  <2>1. f \in [0 .. L -> Nat] /\ f[0] = 0
    BY <1>5 DEF Recurs
  <2>2. ASSUME NEW n \in 1 .. L PROVE f[n] = f[n - 1] + numbers[n]
    <3>1. f[n] = step[n][f[n - 1]]
      BY <1>5 DEF Recurs
    <3>2. f[n - 1] \in Nat
      BY <1>1, <2>1
    <3> QED BY <1>3, <3>1, <3>2
  <2> QED BY <1>1, <2>1, <2>2
<1>7. Sums(sum)
  BY <1>6
<1>8. Total(numbers) = sum[L]
  BY <1>1 DEF Total
<1> HIDE DEF sum
<1>9. sum[0] = 0 /\ \A n \in 1 .. L : sum[n] = sum[n - 1] + numbers[n]
  <2>1. \A n \in 0 .. L : sum[n] = IF n = 0 THEN 0 ELSE sum[n - 1] + numbers[n]
    BY <1>7
  <2> QED BY <1>1, <2>1
<1>10. sum \in [0 .. L -> Nat]
  <2> DEFINE P == {n \in 0 .. L : sum[n] \in Nat}
  <2>1. 0 \in P /\ \A n \in 1 .. L : n - 1 \in P => n \in P
    BY <1>1, <1>2, <1>9
  <2>2. 0 .. L \subseteq P
    <3> HIDE DEF P
    <3> QED BY <1>1, <2>1, Induction
  <2> QED BY <1>7, <2>2
<1> QED BY <1>1, <1>8, <1>9, <1>10

\* FlattenSeq is the last of the concatenations of what comes first.
LEMMA FlattenSteps ==
    ASSUME NEW S, NEW seqs \in Seq(Seq(S))
    PROVE  \E flat \in [0 .. Len(seqs) -> Seq(S)] :
               /\ flat[0] = <<>>
               /\ \A n \in 1 .. Len(seqs) : flat[n] = flat[n - 1] \o seqs[n]
               /\ FlattenSeq(seqs) = flat[Len(seqs)]
<1>1. PICK L \in Nat : L = Len(seqs)
  BY LenProperties
<1>2. \A n \in 1 .. L : seqs[n] \in Seq(S)
  BY <1>1, LenProperties
<1> DEFINE step == [n \in 1 .. L |-> [x \in Seq(S) |-> x \o seqs[n]]]
           Flat(f) == f = [i \in 1 .. L |-> IF i = 1 THEN seqs[i] ELSE f[i - 1] \o seqs[i]]
           flatten == CHOOSE f : Flat(f)
<1>3. \A n \in 1 .. L, x \in Seq(S) : step[n][x] = x \o seqs[n]
  OBVIOUS
<1>4. step \in [1 .. L -> [Seq(S) -> Seq(S)]]
  <2>1. \A n \in 1 .. L, x \in Seq(S) : x \o seqs[n] \in Seq(S)
    BY <1>2, ConcatProperties
  <2> QED BY <2>1
<1> HIDE DEF step
<1>5. PICK flat : Recurs(flat, L, Seq(S), <<>>, step)
  <2>1. L \in Nat /\ <<>> \in Seq(S)
    BY <1>1, EmptySeq
  <2> QED BY <1>4, <2>1, Recursion
<1>6. flat \in [0 .. L -> Seq(S)] /\ flat[0] = <<>>
  BY <1>5 DEF Recurs
<1>7. ASSUME NEW n \in 1 .. L PROVE flat[n] = flat[n - 1] \o seqs[n]
  <2>1. flat[n] = step[n][flat[n - 1]]
    BY <1>5 DEF Recurs
  <2>2. n - 1 \in 0 .. L
    BY <1>1
  <2>3. flat[n - 1] \in Seq(S)
    BY <1>6, <2>2
  <2> QED BY <1>3, <2>1, <2>3
<1>8. FlattenSeq(seqs) = flat[L]
  <2>1. CASE L = 0
    <3>1. seqs = <<>>
      BY <1>1, <2>1, EmptySeq
    <3> QED BY <1>1, <1>6, <2>1, <3>1 DEF FlattenSeq
  <2>2. CASE L # 0
    <3>1. flat[1] = seqs[1]
      <4>1. 1 \in 1 .. L
        BY <1>1, <2>2
      <4>2. flat[1] = flat[1 - 1] \o seqs[1] /\ seqs[1] \in Seq(S)
        BY <1>2, <1>7, <4>1
      <4>3. flat[1 - 1] = <<>>
        BY <1>6
      <4> QED BY <4>2, <4>3, ConcatEmptySeq
    <3> DEFINE g == [i \in 1 .. L |-> flat[i]]
    <3>2. Flat(g)
      <4>1. ASSUME NEW i \in 1 .. L, i # 1 PROVE g[i] = g[i - 1] \o seqs[i]
        <5>1. i - 1 \in 1 .. L
          BY <1>1, <4>1
        <5>2. g[i] = flat[i] /\ g[i - 1] = flat[i - 1]
          BY <5>1
        <5> QED BY <1>7, <5>2
      <4> QED BY <3>1, <4>1
    <3>3. Flat(flatten)
      BY <3>2
    <3>4. FlattenSeq(seqs) = flatten[L]
      BY <1>1, <2>2 DEF FlattenSeq
    <3> HIDE DEF flatten
    <3> DEFINE P == {i \in 0 .. L : i = 0 \/ flatten[i] = flat[i]}
    <3>5. 0 \in P
      BY <1>1
    <3>6. ASSUME NEW i \in 1 .. L, i - 1 \in P PROVE i \in P
      <4>1. flatten[i] = IF i = 1 THEN seqs[i] ELSE flatten[i - 1] \o seqs[i]
        BY <3>3
      <4>2. flat[i] = flat[i - 1] \o seqs[i]
        BY <1>7
      <4>3. i # 1 => flatten[i - 1] = flat[i - 1]
        BY <3>6
      <4>4. flatten[i] = flat[i] /\ i \in 0 .. L
        <5>1. CASE i = 1
          BY <1>1, <3>1, <4>1, <5>1
        <5>2. CASE i # 1
          <6>1. flatten[i] = flatten[i - 1] \o seqs[i]
            BY <4>1, <5>2
          <6>2. flatten[i - 1] = flat[i - 1]
            BY <4>3, <5>2
          <6>3. flatten[i] = flat[i]
            BY <4>2, <6>1, <6>2, Zenon
          <6> QED BY <1>1, <6>3
        <5> QED BY <5>1, <5>2
      <4> QED BY <4>4
    <3>7. 0 .. L \subseteq P
      <4> HIDE DEF P
      <4> QED BY <1>1, <3>5, <3>6, Induction
    <3> QED BY <1>1, <2>2, <3>4, <3>7
  <2> QED BY <2>1, <2>2
<1> QED BY <1>1, <1>6, <1>7, <1>8

\* A set of indices that goes down to the first.
LEMMA PrefixSet ==
    ASSUME NEW n \in Nat, NEW D \in SUBSET (1 .. n), \A j \in D : 1 .. j \subseteq D
    PROVE  \E b \in 0 .. n : D = 1 .. b
<1> DEFINE Q == (1 .. n + 1) \ D
<1>1. Q \subseteq Nat /\ n + 1 \in Q
  OBVIOUS
<1>2. PICK c \in Q : \A i \in Q : c <= i
  <2> HIDE DEF Q
  <2> QED BY <1>1, Least
<1>3. \A i \in 1 .. c - 1 : i \in D
  BY <1>2
<1>4. ASSUME NEW i \in D PROVE i \in 1 .. c - 1
  <2>1. ~(c <= i)
    BY <1>2, <1>4
  <2> QED BY <1>2, <2>1
<1>5. c - 1 \in 0 .. n
  BY <1>1, <1>2
<1>6. D = 1 .. c - 1
  BY <1>3, <1>4
<1> QED BY <1>5, <1>6
-----------------------------------------------------------------------------
\* What is kept depends on the indices alone.
LEMMA KeptByPlaces ==
    ASSUME NEW S, NEW items \in Seq(S), NEW I \in SUBSET DOMAIN items
    PROVE  \E place \in [1 .. Cardinality(I) -> I] :
               \A list : Kept(list, I) = [p \in 1 .. Cardinality(I) |-> list[place[p]]]
<1> DEFINE ahead == [i \in I |-> {j \in I : j < i}]
           place == [p \in 1 .. Cardinality(I) |-> CHOOSE i \in I : Cardinality(ahead[i]) = p - 1]
<1>1. Cardinality(I) \in Nat
  BY IndicesFinite, FS_Subset, FS_CardinalityType
<1>2. Ordering(ahead) /\ DOMAIN ahead = I
  BY KeptOrdering
<1>3. \A p \in 1 .. Cardinality(I) : \E i \in I : Cardinality(ahead[i]) = p - 1
  <2> SUFFICES ASSUME NEW p \in 1 .. Cardinality(I) PROVE \E i \in I : Cardinality(ahead[i]) = p - 1
    OBVIOUS
  <2> HIDE DEF ahead
  <2>1. PICK i \in I : Cardinality(ahead[i]) + 1 = p
    BY <1>2, RankIsBijection
  <2>2. Cardinality(ahead[i]) \in Nat
    BY <1>2, FS_Subset, FS_CardinalityType DEF Ordering
  <2> QED BY <2>1, <2>2
<1>4. place \in [1 .. Cardinality(I) -> I]
  BY <1>3
<1>5. \A list : Kept(list, I) = [p \in 1 .. Cardinality(I) |-> list[place[p]]]
  BY DEF Kept, Arranged
<1> QED BY <1>4, <1>5

\* What is kept of adjacent items is that part of the list.
LEMMA KeptInterval ==
    ASSUME NEW S, NEW items \in Seq(S), NEW a \in Nat, NEW b \in Nat, a <= b, b <= Len(items)
    PROVE  Kept(items, a + 1 .. b) = [p \in 1 .. b - a |-> items[a + p]]
<1> DEFINE I == a + 1 .. b
           ahead == [i \in I |-> {j \in I : j < i}]
<1>1. Cardinality(I) = b - a
  <2>1. a + 1 \in Int /\ b \in Int
    OBVIOUS
  <2>2. Cardinality(a + 1 .. b) = IF a + 1 > b THEN 0 ELSE b - (a + 1) + 1
    BY <2>1, FS_Interval
  <2> QED BY <2>2
<1>2. \A i \in I : Cardinality(ahead[i]) = i - a - 1
  <2> SUFFICES ASSUME NEW i \in I PROVE Cardinality(ahead[i]) = i - a - 1
    OBVIOUS
  <2>1. ahead[i] = a + 1 .. i - 1
    OBVIOUS
  <2>2. Cardinality(a + 1 .. i - 1) = i - a - 1
    BY FS_Interval
  <2> QED BY <2>1, <2>2
<1>3. ASSUME NEW p \in 1 .. b - a
      PROVE  (CHOOSE i \in I : Cardinality(ahead[i]) = p - 1) = a + p
  <2>1. a + p \in I /\ Cardinality(ahead[a + p]) = p - 1
    BY <1>2
  <2>2. \A i \in I : Cardinality(ahead[i]) = p - 1 => i = a + p
    BY <1>2
  <2> HIDE DEF ahead, I
  <2> QED BY <2>1, <2>2
<1>4. Kept(items, I) = [p \in 1 .. Cardinality(I) |->
                          items[CHOOSE i \in I : Cardinality(ahead[i]) = p - 1]]
  BY DEF Kept, Arranged
<1> HIDE DEF ahead
<1> QED BY <1>1, <1>3, <1>4
=============================================================================
