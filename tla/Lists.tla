------------------------------- MODULE Lists --------------------------------
(***************************************************************************)
(* What the program does with lists: it takes items out of one in an order *)
(* of their indices, as its filters and its sort do, and adds up numbers.  *)
(***************************************************************************)
EXTENDS Functions, FiniteSets, Integers, Sequences

\* The items[i] with i in DOMAIN ahead, each after those that ahead[i] puts before it.
Arranged(items, ahead) ==
    [p \in 1 .. Cardinality(DOMAIN ahead) |->
        items[CHOOSE i \in DOMAIN ahead : Cardinality(ahead[i]) = p - 1]]

\* What a loop over the items keeps: those with an index in I.
Kept(items, I) == Arranged(items, [i \in I |-> {j \in I : j < i}])

\* The sum that a loop over the numbers builds.
Total(numbers) ==
    LET sum[n \in 0 .. Len(numbers)] == IF n = 0 THEN 0 ELSE sum[n - 1] + numbers[n]
    IN  sum[Len(numbers)]
=============================================================================
