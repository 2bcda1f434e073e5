------------------------------ MODULE Sampling ------------------------------
(***************************************************************************)
(* sampleByID of util.go: the entities of a feed that a check asks the     *)
(* server about.  The items are records with an id.                        *)
(***************************************************************************)
EXTENDS Lists

CONSTANT Before(_, _)   \* the order of Go strings, on ids

OrderedIds(S) ==
    \A a, b \in S : /\ ~Before(a, a)
                    /\ a # b => Before(a, b) \/ Before(b, a)
                    /\ \A c \in S : Before(a, b) /\ Before(b, c) => Before(a, c)

\* What a stable sort by id puts before items[i].
Ahead(items, i) ==
    {j \in DOMAIN items : \/ Before(items[j].id, items[i].id)
                          \/ items[j].id = items[i].id /\ j < i}

SliceStable(items) == Arranged(items, [i \in DOMAIN items |-> Ahead(items, i)])

Cut(items, n) == IF n < Len(items) THEN SubSeq(items, 1, n) ELSE items

\* Mutants: the first n of the feed are sorted; one item too many.
SortTheFirst(items, n) == SliceStable(Cut(items, n))
OneTooMany(items, n) == Cut(SliceStable(items), n + 1)

\* A copy is sorted and cut.  A negative n, which panics here, is in Validation.
sampleByID(items, n) == Cut(SliceStable(items), n)

\* What a check may rely on: n of the items, or all there are, and none left out
\* whose id comes before that of one chosen; the feed decides among equal ids only.
SmallestChosen(chosen, items, n) ==
    /\ Cardinality(chosen) = IF n < Len(items) THEN n ELSE Len(items)
    /\ chosen \subseteq Range(items)
    /\ \A i, j \in DOMAIN items :
           items[i] \in chosen /\ items[j] \notin chosen =>
               Before(items[i].id, items[j].id) \/ (items[i].id = items[j].id /\ i < j)
=============================================================================
