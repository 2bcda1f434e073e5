------------------------- MODULE ServerChecksProofs -------------------------
(***************************************************************************)
(* Proofs about the two checks of the server: BasicEndpoints, for any      *)
(* bundles and any moments at which the server loads them, and             *)
(* AgencyUnion, for any sources and mappings, any server and any order in  *)
(* which Go goes through its maps.  The two share no variable; each is     *)
(* proved from its own specification.                                      *)
(***************************************************************************)
EXTENDS BasicEndpoints, AgencyUnion, HelperProofs

Good == {"Pass", "Warn"}
Results == [step : Names, status : Good \cup {"Fail", "Skip"}]

\* What has been reported is the chain up to the step to make, and all of it is good ...
OutInv ==
    /\ out \in Seq(Results)
    /\ at \in Steps => /\ Len(out) = at - 1
                       /\ \A i \in 1 .. at - 1 : out[i].step = Chain[i] /\ out[i].status \in Good

\* ... and what remains is the rest of it; the first step is not in the list.
First == IF at = 1 THEN 2 ELSE at
RestInv ==
    at \in Steps =>
        /\ Len(remaining) = Len(Chain) + 1 - First
        /\ \A k \in 1 .. Len(remaining) : remaining[k] = Chain[First + k - 1]

\* What the check holds of a truthful server was in a bundle that has been loaded.
HeldInv ==
    truthful =>
        /\ agencies = data[1]["agencies-with-coverage"][Server]
        /\ at \in Steps =>
               \A n \in 2 .. at - 1 :
                   \E b \in 1 .. bundle, x \in Things : got[n] \in data[b][Chain[n]][x]

IInv == TypeOK /\ OutInv /\ RestInv /\ HeldInv /\ ChainReported /\ GrowingServerPasses

LEMMA Bounds == Len(Chain) = 7 /\ Steps = 1 .. 7 /\ End = 8
BY DEF Chain, Steps, End

LEMMA UsesEarlier == \A n \in 3 .. 7 : Uses[n] \in 2 .. n - 1
<1> TAKE n \in 3 .. 7
<1>1. n = 3 \/ n = 4 \/ n = 5 \/ n = 6 \/ n = 7
  OBVIOUS
<1> QED BY <1>1 DEF Uses

LEMMA BundleType ==
    ASSUME data \in Histories, NEW b \in 1 .. Len(data)
    PROVE  data[b] \in Bundle
BY HistoryAssumption, LenProperties

LEMMA HistoryLength == data \in Histories => Len(data) \in Nat \ {0}
<1> SUFFICES ASSUME data \in Histories PROVE Len(data) \in Nat \ {0}
  OBVIOUS
<1>1. data \in Seq(Bundle) /\ data # <<>>
  BY HistoryAssumption
<1> QED BY <1>1, EmptySeq, LenProperties

LEMMA ChainIsFunction == Chain = [i \in 1 .. 7 |-> Chain[i]]
BY DEF Chain

LEMMA ChainIsSequence == Chain \in Seq(Names)
<1>1. Chain \in [1 .. 7 -> Names]
  BY Bounds, ChainIsFunction DEF Names
<1> QED BY <1>1, SeqDef

LEMMA InitIInv == Init => IInv
<1> SUFFICES ASSUME Init PROVE IInv
  OBVIOUS
<1> USE Bounds DEF Init
<1>1. /\ Tail(Chain) \in Seq(Names) /\ Len(Tail(Chain)) = 6
      /\ \A k \in 1 .. 6 : Tail(Chain)[k] = Chain[k + 1]
  <2> DEFINE t == Tail(Chain)
  <2>1. Chain # <<>>
    BY DEF Chain
  <2>2. t \in Seq(Names) /\ Len(t) = Len(Chain) - 1 /\ \A k \in 1 .. Len(t) : t[k] = Chain[k + 1]
    BY <2>1, ChainIsSequence, HeadTailProperties
  <2> HIDE DEF t
  <2>3. Len(t) = 6
    BY <2>2
  <2>4. t \in Seq(Names) /\ Len(t) = 6 /\ \A k \in 1 .. 6 : t[k] = Chain[k + 1]
    BY <2>2, <2>3
  <2> QED BY <2>4 DEF t
<1>2. data \in Histories /\ Len(data) \in Nat \ {0} /\ data[1] \in Bundle
  <2>1. data \in Histories /\ Len(data) \in Nat \ {0}
    BY HistoryLength
  <2>2. 1 \in 1 .. Len(data)
    BY <2>1
  <2> QED BY <2>1, <2>2, BundleType
<1>3. TypeOK
  <2>1. agencies \in SUBSET Things
    <3>1. "agencies-with-coverage" \in Names
      BY Bounds DEF Names, Chain
    <3>2. data[1]["agencies-with-coverage"][Server] \in SUBSET Things
      BY <1>2, <3>1, HistoryAssumption DEF Bundle
    <3> QED BY <3>2, HistoryAssumption DEF AnyAnswer
  <2> QED BY <1>1, <1>2, <2>1, HistoryAssumption DEF TypeOK
<1>4. OutInv /\ RestInv /\ HeldInv
  BY <1>1 DEF OutInv, RestInv, First, HeldInv
<1>5. ChainReported /\ GrowingServerPasses
  BY DEF ChainReported, GrowingServerPasses
<1> QED BY <1>3, <1>4, <1>5 DEF IInv

\* After its pop a step leaves the steps behind it.
LEMMA PopLeavesRest ==
    ASSUME IInv, NEW n \in Steps, at = n
    PROVE  /\ Pop(n) \in Seq(Names)
           /\ Len(Pop(n)) = 7 - n
           /\ \A k \in 1 .. 7 - n : Pop(n)[k] = Chain[n + k]
<1> USE Bounds
<1>1. /\ remaining \in Seq(Names)
      /\ Len(remaining) = 8 - First
      /\ \A k \in 1 .. Len(remaining) : remaining[k] = Chain[First + k - 1]
  <2>1. remaining \in Seq(Names)
    BY DEF IInv, TypeOK
  <2>2. /\ Len(remaining) = Len(Chain) + 1 - First
        /\ \A k \in 1 .. Len(remaining) : remaining[k] = Chain[First + k - 1]
    BY DEF IInv, RestInv
  <2>3. First \in 2 .. 7
    BY DEF First
  <2>4. Len(remaining) = 8 - First
    BY <2>2, <2>3
  <2> QED BY <2>1, <2>2, <2>4
<1>2. CASE n = 1
  BY <1>1, <1>2 DEF Pop, First
<1>3. CASE n # 1
  <2>1. First = n /\ Len(remaining) \in Nat \ {0}
    BY <1>1, <1>3 DEF First
  <2>2. /\ Tail(remaining) \in Seq(Names) /\ Len(Tail(remaining)) = Len(remaining) - 1
        /\ \A k \in 1 .. Len(Tail(remaining)) : Tail(remaining)[k] = remaining[k + 1]
    <3>1. remaining # <<>>
      BY <2>1, EmptySeq
    <3> QED BY <1>1, <3>1, HeadTailProperties
  <2>3. Len(Tail(remaining)) = 7 - n /\ Pop(n) = Tail(remaining)
    BY <1>1, <1>3, <2>1, <2>2 DEF Pop
  <2>4. \A k \in 1 .. 7 - n : k + 1 \in 1 .. Len(remaining) /\ n + (k + 1) - 1 = n + k
    BY <1>1, <2>1
  <2> QED BY <1>1, <2>1, <2>2, <2>3, <2>4
<1> QED BY <1>2, <1>3

\* Whatever the server answers is made of things.
LEMMA AnswersAreThings ==
    ASSUME TypeOK, NEW n \in Steps, NEW answer \in Answers(n)
    PROVE  answer \subseteq Things
<1>1. CASE n = 2
  BY <1>1 DEF Answers, TypeOK
<1>2. CASE n # 2 /\ ~truthful
  BY <1>2, HistoryAssumption DEF Answers, AnyAnswer
<1>3. CASE n = 1 /\ truthful
  BY <1>3, HistoryAssumption DEF Answers
<1>4. CASE n \notin {1, 2} /\ truthful
  <2>1. answer = data[bundle][Chain[n]][got[Uses[n]]]
    BY <1>4 DEF Answers
  <2>2. Uses[n] \in Steps
    BY <1>4, Bounds, UsesEarlier
  <2>3. got[Uses[n]] \in Things /\ Chain[n] \in Names /\ data[bundle] \in Bundle
    BY <2>2, BundleType DEF TypeOK, Names
  <2> QED BY <2>1, <2>3 DEF Bundle
<1> QED BY <1>1, <1>2, <1>3, <1>4

\* A truthful server with full bundles that keep what they had has an answer to the next
\* step: what the step asks with is still there, and has something under it.
LEMMA GrowingAnswers ==
    ASSUME IInv, NEW n \in Steps, at = n, truthful, agencies # {},
           \A b \in 1 .. bundle : Full(b) /\ \A c \in b .. bundle : Extends(c, b)
    PROVE  {} \notin Answers(n)
<1>1. CASE n = 1 \/ n = 2
  BY <1>1 DEF Answers
<1>2. CASE n \in 3 .. 7
  <2>1. bundle \in 1 .. bundle /\ bundle \in Nat
    BY HistoryLength DEF IInv, TypeOK
  <2> DEFINE u == Uses[n]
  <2>2. u \in 2 .. n - 1 /\ Chain[u] \in Names
    BY <1>2, UsesEarlier, Bounds DEF Names
  <2>3. PICK b \in 1 .. bundle, x \in Things : got[u] \in data[b][Chain[u]][x]
    BY <2>2 DEF IInv, HeldInv
  <2>4. Extends(bundle, b) /\ Full(bundle)
    <3>1. bundle \in b .. bundle
      BY <2>1, <2>3
    <3> QED BY <2>1, <3>1
  <2>5. got[u] \in data[bundle][Chain[u]][x]
    BY <2>2, <2>3, <2>4 DEF Extends
  <2>6. data[bundle][Chain[n]][got[u]] # {}
    <3>1. n = 3 \/ n = 4 \/ n = 5 \/ n = 6 \/ n = 7
      BY <1>2
    <3>2. CASE n = 3
      BY <2>4, <2>5, <3>2 DEF Full, Uses, Chain
    <3>3. CASE n = 4
      BY <2>4, <2>5, <3>3 DEF Full, Uses, Chain
    <3>4. CASE n = 5
      BY <2>4, <2>5, <3>4 DEF Full, Uses, Chain
    <3>5. CASE n = 6
      BY <2>4, <2>5, <3>5 DEF Full, Uses, Chain
    <3>6. CASE n = 7
      BY <2>4, <2>5, <3>6 DEF Full, Uses, Chain
    <3> QED BY <3>1, <3>2, <3>3, <3>4, <3>5, <3>6
  <2>7. Answers(n) = {data[bundle][Chain[n]][got[u]]}
    BY <1>2 DEF Answers
  <2> QED BY <2>6, <2>7
<1> QED BY <1>1, <1>2, Bounds

LEMMA PassStep ==
    ASSUME IInv, NEW n \in Steps, at = n, NEW answer \in Answers(n), Passes(n, answer),
           UNCHANGED <<server, bundle>>
    PROVE  IInv'
<1> USE Bounds
<1> DEFINE rest == Pop(n)
<1>1. rest \in Seq(Names) /\ Len(rest) = 7 - n /\ \A k \in 1 .. 7 - n : rest[k] = Chain[n + k]
  BY PopLeavesRest
<1>2. PICK s \in Good : out' = Append(out, Result(n, s))
  BY DEF Passes, Verdicts, Append1, Good
<1>3. Result(n, s) \in Results /\ Result(n, s).step = Chain[n] /\ Result(n, s).status = s
  BY <1>2 DEF Result, Results, Names
<1>4. /\ out \in Seq(Results) /\ Len(out) = n - 1
      /\ \A i \in 1 .. n - 1 : out[i].step = Chain[i] /\ out[i].status \in Good
  BY DEF IInv, OutInv
<1>5. /\ out' \in Seq(Results) /\ Len(out') = n
      /\ \A i \in 1 .. n : out'[i].step = Chain[i] /\ out'[i].status \in Good
  <2> HIDE DEF Result
  <2>1. out' \in Seq(Results) /\ Len(out') = n
    BY <1>2, <1>3, <1>4, AppendProperties
  <2>2. \A i \in 1 .. n : out'[i] = IF i = n THEN Result(n, s) ELSE out[i]
    BY <1>2, <1>3, <1>4, AppendProperties
  <2> QED BY <1>2, <1>3, <1>4, <2>1, <2>2
<1>6. PICK first \in answer : got' = [got EXCEPT ![n] = first]
  BY DEF Passes
<1>7. /\ at' = n + 1 /\ remaining' = rest
      /\ UNCHANGED <<truthful, data, bundle, agencies>>
      /\ first \in Things /\ got \in [Steps -> Things]
  BY AnswersAreThings DEF IInv, TypeOK, Passes, server
<1>8. HeldInv'
  <2> SUFFICES ASSUME truthful, at' \in Steps, NEW m \in 2 .. n
               PROVE  \E b \in 1 .. bundle, x \in Things : got'[m] \in data[b][Chain[m]][x]
    BY <1>7 DEF IInv, HeldInv
  <2>1. CASE m # n
    BY <1>6, <1>7, <2>1 DEF IInv, HeldInv
  <2>2. CASE m = n
    <3>1. 1 \in 1 .. bundle /\ bundle \in 1 .. bundle
      BY HistoryLength DEF IInv, TypeOK
    <3>2. CASE n = 2
      BY <1>6, <1>7, <2>2, <3>1, <3>2, HistoryAssumption DEF Answers, IInv, HeldInv, Chain
    <3>3. CASE n # 2
      <4>1. got[Uses[n]] \in Things
        BY <1>7, <2>2, <3>3, UsesEarlier
      <4>2. answer = data[bundle][Chain[n]][got[Uses[n]]]
        BY <2>2, <3>3 DEF Answers
      <4> QED BY <1>6, <1>7, <2>2, <3>1, <4>1, <4>2
    <3> QED BY <3>2, <3>3
  <2> QED BY <2>1, <2>2
<1>9. \A i \in DOMAIN out' : out'[i].status \in Good
  BY <1>5
<1>10. TypeOK'
  <2>1. remaining' \in Seq(Names) /\ Len(remaining') <= 6 /\ Len(out') <= Len(Chain)
    BY <1>1, <1>5, <1>7
  <2>2. \A i \in DOMAIN out' : out'[i].status \in {"Pass", "Warn", "Fail", "Skip"}
    BY <1>9 DEF Good
  <2>3. at' \in 1 .. End
    BY <1>7
  <2>4. got' \in [Steps -> Things]
    BY <1>6, <1>7
  <2> QED BY <1>7, <2>1, <2>2, <2>3, <2>4 DEF IInv, TypeOK
<1>11. OutInv'
  BY <1>5, <1>7 DEF OutInv
<1>12. RestInv'
  BY <1>1, <1>7 DEF RestInv, First
<1>13. GrowingServerPasses'
  BY <1>9 DEF GrowingServerPasses, Good
<1>14. ChainReported'
  <2> SUFFICES ASSUME n = 7 PROVE /\ [i \in DOMAIN out' |-> out'[i].step] = Chain
                                  /\ \A i \in Steps : out'[i].status \in Good
    BY <1>7 DEF ChainReported, Good
  <2>1. DOMAIN out' = 1 .. 7
    BY <1>5, LenProperties
  <2> QED BY <1>5, <2>1, ChainIsFunction
<1> QED BY <1>8, <1>10, <1>11, <1>12, <1>13, <1>14 DEF IInv

LEMMA FailStep ==
    ASSUME IInv, NEW n \in Steps, at = n, NEW answer \in Answers(n), Fails(n, answer),
           UNCHANGED <<server, bundle>>
    PROVE  IInv'
<1> USE Bounds
<1> DEFINE rest == Pop(n)
           bad == Result(n, "Fail")
           skip == Skipped(rest)
<1>1. rest \in Seq(Names) /\ Len(rest) = 7 - n /\ \A k \in 1 .. 7 - n : rest[k] = Chain[n + k]
  BY PopLeavesRest
<1>2. bad \in Results /\ bad.step = Chain[n] /\ bad.status = "Fail"
  BY DEF Result, Results, Names
<1>3. /\ out \in Seq(Results) /\ Len(out) = n - 1
      /\ \A i \in 1 .. n - 1 : out[i].step = Chain[i] /\ out[i].status \in Good
  BY DEF IInv, OutInv
<1>4. /\ skip \in Seq(Results) /\ Len(skip) = 7 - n
      /\ \A k \in 1 .. 7 - n : skip[k].step = Chain[n + k] /\ skip[k].status = "Skip"
  <2>1. DOMAIN rest = 1 .. 7 - n /\ \A k \in 1 .. 7 - n : rest[k] \in Names
    BY <1>1, LenProperties
  <2>2. skip = [k \in 1 .. 7 - n |-> [step |-> rest[k], status |-> "Skip"]]
    BY <2>1 DEF Skipped
  <2>3. skip \in [1 .. 7 - n -> Results]
    BY <2>1, <2>2 DEF Results
  <2>4. 7 - n \in Nat
    OBVIOUS
  <2> HIDE DEF skip, rest
  <2>5. skip \in Seq(Results) /\ Len(skip) = 7 - n
    BY <2>3, <2>4, IsASeq, LenProperties
  <2> QED BY <1>1, <2>2, <2>5
<1> HIDE DEF bad, skip, rest
<1>5. out' = Append(out, bad) \o skip /\ at' = End /\ remaining' = rest /\ got' = got
  BY DEF Fails, Append1, bad, skip, rest
<1>6. /\ Append(out, bad) \in Seq(Results) /\ Len(Append(out, bad)) = n
      /\ \A i \in 1 .. n : Append(out, bad)[i] = IF i = n THEN bad ELSE out[i]
  BY <1>2, <1>3, AppendProperties
<1>7. /\ out' \in Seq(Results) /\ Len(out') = 7
      /\ \A i \in 1 .. 7 : out'[i] = IF i < n THEN out[i] ELSE IF i = n THEN bad ELSE skip[i - n]
  <2> DEFINE a == Append(out, bad)
  <2>1. a \in Seq(Results) /\ Len(a) = n /\ out' = a \o skip
    BY <1>5, <1>6
  <2> HIDE DEF a
  <2>2. /\ out' \in Seq(Results) /\ Len(out') = Len(a) + Len(skip)
        /\ \A i \in 1 .. Len(a) + Len(skip) : out'[i] = IF i <= Len(a) THEN a[i] ELSE skip[i - Len(a)]
    BY <1>4, <2>1, ConcatProperties
  <2>3. Len(a) + Len(skip) = 7
    BY <1>4, <2>1
  <2>4. \A i \in 1 .. n : a[i] = IF i = n THEN bad ELSE out[i]
    BY <1>6 DEF a
  <2>5. \A i \in 1 .. 7 : out'[i] = IF i <= n THEN a[i] ELSE skip[i - n]
    BY <2>1, <2>2, <2>3
  <2>6. \A i \in 1 .. 7 : out'[i] = IF i < n THEN out[i] ELSE IF i = n THEN bad ELSE skip[i - n]
    <3> TAKE i \in 1 .. 7
    <3>1. CASE i <= n
      <4>1. i \in 1 .. n
        BY <3>1
      <4> QED BY <2>4, <2>5, <3>1, <4>1
    <3>2. CASE ~(i <= n)
      BY <2>5, <3>2
    <3> QED BY <3>1, <3>2
  <2> QED BY <2>2, <2>3, <2>6
<1>8. \A i \in 1 .. 7 : /\ out'[i].step = Chain[i]
                        /\ i < n => out'[i].status \in Good
                        /\ i = n => out'[i].status = "Fail"
                        /\ i > n => out'[i].status = "Skip"
  <2> TAKE i \in 1 .. 7
  <2>1. CASE i < n
    BY <1>3, <1>7, <2>1
  <2>2. CASE i = n
    BY <1>2, <1>7, <2>2
  <2>3. CASE i > n
    <3>1. i - n \in 1 .. 7 - n /\ n + (i - n) = i
      BY <2>3
    <3>2. skip[i - n].step = Chain[n + (i - n)] /\ skip[i - n].status = "Skip"
      BY <1>4, <3>1
    <3>3. out'[i] = skip[i - n]
      BY <1>7, <2>3
    <3> QED BY <2>3, <3>1, <3>2, <3>3
  <2> QED BY <2>1, <2>2, <2>3
<1>9. DOMAIN out' = 1 .. 7
  BY <1>7, LenProperties
<1>10. ChainReported'
  <2>1. [i \in DOMAIN out' |-> out'[i].step] = Chain
    BY <1>8, <1>9, ChainIsFunction
  <2>2. \A i \in Steps : out'[i].status = "Skip" <=> \E k \in 1 .. i - 1 : out'[k].status = "Fail"
    <3> TAKE i \in Steps
    <3>1. CASE i > n
      BY <1>8, <3>1
    <3>2. CASE i <= n
      BY <1>8, <3>2 DEF Good
    <3> QED BY <3>1, <3>2
  <2> QED BY <2>1, <2>2 DEF ChainReported
<1>11. GrowingServerPasses'
  <2> SUFFICES ASSUME truthful, agencies # {},
                      \A b \in 1 .. bundle : Full(b) /\ \A c \in b .. bundle : Extends(c, b)
               PROVE  FALSE
    BY DEF GrowingServerPasses, Full, Extends, server
  <2>1. {} \notin Answers(n)
    BY GrowingAnswers
  <2> QED BY <2>1 DEF Fails
<1>12. TypeOK'
  <2>1. \A i \in DOMAIN out' : out'[i].status \in {"Pass", "Warn", "Fail", "Skip"}
    BY <1>8, <1>9 DEF Good
  <2>2. remaining' \in Seq(Names) /\ Len(remaining') <= 6 /\ Len(out') <= Len(Chain)
    <3>1. Len(rest) <= 6 /\ Len(out') <= 7 /\ remaining' = rest
      BY <1>1, <1>5, <1>7 DEF rest
    <3> HIDE DEF rest
    <3> QED BY <1>1, <3>1
  <2>3. at' \in 1 .. End
    BY <1>5
  <2>4. UNCHANGED <<truthful, data, bundle, agencies, got>>
    BY <1>5 DEF server
  <2> QED BY <2>1, <2>2, <2>3, <2>4 DEF IInv, TypeOK
<1>13. OutInv' /\ RestInv' /\ HeldInv'
  BY <1>5, <1>7 DEF IInv, OutInv, RestInv, HeldInv, server
<1> QED BY <1>10, <1>11, <1>12, <1>13 DEF IInv

LEMMA LoadStep == ASSUME IInv, Load PROVE IInv'
<1>1. bundle \in 1 .. Len(data) /\ bundle' = bundle + 1 /\ bundle' \in 1 .. Len(data)
  BY HistoryLength DEF IInv, TypeOK, Load
<1>2. UNCHANGED <<truthful, data, agencies, at, remaining, got, out>>
  BY DEF Load, server
<1>3. TypeOK' /\ OutInv' /\ RestInv' /\ ChainReported'
  BY <1>1, <1>2 DEF IInv, TypeOK, OutInv, RestInv, First, ChainReported
<1>4. Len(data) \in Nat /\ \A b \in 1 .. bundle : b \in 1 .. bundle'
  BY <1>1, HistoryLength DEF IInv, TypeOK
<1>5. HeldInv'
  BY <1>1, <1>2, <1>4 DEF IInv, HeldInv
<1>6. GrowingServerPasses'
  <2>1. \A b \in 1 .. bundle : \A c \in b .. bundle : c \in b .. bundle'
    BY <1>1, <1>4
  <2>2. (\A b \in 1 .. bundle' : Full(b)' /\ \A c \in b .. bundle' : Extends(c, b)')
            => \A b \in 1 .. bundle : Full(b) /\ \A c \in b .. bundle : Extends(c, b)
    BY <1>2, <1>4, <2>1 DEF Full, Extends
  <2> QED BY <1>2, <2>2 DEF IInv, GrowingServerPasses
<1> QED BY <1>3, <1>5, <1>6 DEF IInv

LEMMA Invariance == Spec => []IInv
<1>1. IInv /\ [Next]_vars => IInv'
  <2> SUFFICES ASSUME IInv, [Next]_vars PROVE IInv'
    OBVIOUS
  <2>1. CASE Load
    BY <2>1, LoadStep
  <2>2. ASSUME NEW n \in Steps, Step(n) PROVE IInv'
    <3>1. PICK answer \in Answers(n) : Passes(n, answer) \/ Fails(n, answer)
      BY <2>2 DEF Step
    <3>2. at = n /\ UNCHANGED <<server, bundle>>
      BY <2>2 DEF Step
    <3>3. CASE Passes(n, answer)
      BY <3>2, <3>3, PassStep
    <3>4. CASE Fails(n, answer)
      BY <3>2, <3>4, FailStep
    <3> QED BY <3>1, <3>3, <3>4
  <2>3. CASE UNCHANGED vars
    <3>1. UNCHANGED <<truthful, data, bundle, agencies, at, remaining, got, out>>
      BY <2>3 DEF vars, server
    <3>2. TypeOK' /\ OutInv' /\ RestInv' /\ ChainReported'
      BY <3>1 DEF IInv, TypeOK, OutInv, RestInv, First, ChainReported
    <3>3. HeldInv'
      BY <3>1 DEF IInv, HeldInv
    <3>4. GrowingServerPasses'
      <4>1. \A b, c : Full(b)' = Full(b) /\ Extends(c, b)' = Extends(c, b)
        BY <3>1 DEF Full, Extends
      <4> QED BY <3>1, <4>1 DEF IInv, GrowingServerPasses
    <3> QED BY <3>2, <3>3, <3>4 DEF IInv
  <2> QED BY <2>1, <2>2, <2>3 DEF Next
<1> QED BY InitIInv, <1>1, PTL DEF Spec

\* Every variable of the chain keeps its type (check_endpoints.go:15-129).
THEOREM TypeCorrect == Spec => []TypeOK
<1>1. IInv => TypeOK
  BY DEF IInv
<1> QED BY <1>1, Invariance, PTL

\* Whatever the server answers, each step of the chain has one result, in order, and
\* exactly the steps after a failed one are skipped (check_endpoints.go:15-129).
THEOREM ChainAlwaysReported == Spec => []ChainReported
<1>1. IInv => ChainReported
  BY DEF IInv
<1> QED BY <1>1, Invariance, PTL

\* A truthful server whose bundles are full and keep what they had fails no step of the
\* chain, whatever the bundles are and whenever they are loaded (check_endpoints.go:50-128).
THEOREM GrowingNeverFails == Spec => []GrowingServerPasses
<1>1. IInv => GrowingServerPasses
  BY DEF IInv
<1> QED BY <1>1, Invariance, PTL
-----------------------------------------------------------------------------
(* The union of the agencies.                                              *)
ExpectedIds(n) == {exp[k].obaID : k \in 1 .. n}
UnionResults ==
    [kind : {"unavailable", "expected", "extra"},
     id : {NoHint} \cup AllExpected \cup apiSet,
     status : {"Pass", "Warn", "Fail"},
     hint : {NoHint} \cup DOMAIN ApiName]

\* The result of an agency of a feed, and the hint it may need.
ComparedAt(k) ==
    /\ results[k].kind = "expected" /\ results[k].id = exp[k].obaID
    /\ results[k].status = "Fail" <=> exp[k].mapped /\ exp[k].obaID \notin apiSet
    /\ exp[k].obaID \in apiSet \/ Hints(exp[k], ExpectedIds(k)) = {} \/ results[k].hint # NoHint

\* One result for each agency compared, then one for each other agency of the server.
UnionInv ==
    /\ sources \in SourceLists /\ available \in BOOLEAN /\ IsFiniteSet(apiSet)
    /\ next \in 1 .. Len(exp) + 1
    /\ expectedSet = ExpectedIds(next - 1)
    /\ results \in Seq(UnionResults)
    /\ Len(results) <= next + Cardinality(Reported)
    /\ Reported \subseteq apiSet \ expectedSet
    /\ next <= Len(exp) => Reported = {}
    /\ available => /\ Len(results) = next - 1 + Cardinality(Reported)
                    /\ \A k \in 1 .. next - 1 : ComparedAt(k)
    /\ ~available => next = 1 /\ Reported = {}

LEMMA ExpIsSequence ==
    ASSUME sources \in SourceLists
    PROVE  Len(exp) \in Nat /\ DOMAIN exp = 1 .. Len(exp)
<1> DEFINE lists == [s \in DOMAIN sources |-> Expected(sources[s])]
           S == UNION {Range(Expected(sources[s])) : s \in DOMAIN sources}
<1>1. /\ sources \in Seq(Range(sources))
      /\ \A s \in DOMAIN sources : sources[s].agencies \in Seq(DOMAIN sources[s].names)
  BY UnionAssumption
<1>2. ASSUME NEW s \in DOMAIN sources PROVE lists[s] \in Seq(S)
  <2> DEFINE list == Expected(sources[s])
  <2>1. DOMAIN list = 1 .. Len(sources[s].agencies) /\ Len(sources[s].agencies) \in Nat
    BY <1>1, LenProperties DEF Expected
  <2>2. \A k \in DOMAIN list : list[k] \in S
    BY DEF Range
  <2>3. list = [k \in DOMAIN list |-> list[k]]
    BY DEF Expected
  <2> HIDE DEF list, S
  <2>4. list \in [1 .. Len(sources[s].agencies) -> S]
    BY <2>1, <2>2, <2>3
  <2>5. list \in Seq(S)
    BY <2>1, <2>4, SeqDef
  <2> QED BY <2>5 DEF list
<1>3. PICK n \in Nat : DOMAIN sources = 1 .. n
  BY <1>1, LenProperties
<1>4. lists \in Seq(Seq(S))
  <2> HIDE DEF S
  <2>1. lists \in [1 .. n -> Seq(S)]
    BY <1>2, <1>3
  <2> QED BY <1>3, <2>1, SeqDef
<1>5. exp = FlattenSeq(lists)
  BY DEF exp
<1> HIDE DEF lists, S
<1>6. PICK flat \in [0 .. Len(lists) -> Seq(S)] : FlattenSeq(lists) = flat[Len(lists)]
  BY <1>4, FlattenSteps
<1>7. exp \in Seq(S)
  BY <1>4, <1>5, <1>6, LenProperties
<1> QED BY <1>7, LenProperties

LEMMA AppendReported ==
    ASSUME results \in Seq(UnionResults), NEW r \in UnionResults, results' = Append(results, r)
    PROVE  /\ results' \in Seq(UnionResults) /\ Len(results) \in Nat /\ Len(results') = Len(results) + 1
           /\ \A k \in 1 .. Len(results) : results'[k] = results[k]
           /\ results'[Len(results) + 1] = r
           /\ Reported' = IF r.kind = "extra" THEN Reported \cup {r.id} ELSE Reported
<1>1. PICK n \in Nat : n = Len(results) /\ DOMAIN results = 1 .. n
  BY LenProperties
<1>2. /\ results' \in Seq(UnionResults) /\ Len(results') = n + 1
      /\ \A k \in 1 .. n : results'[k] = results[k]
      /\ results'[n + 1] = r
  BY <1>1, AppendProperties
<1>3. DOMAIN results' = 1 .. n + 1
  BY <1>2, LenProperties
<1>4. \A k : k \in 1 .. n + 1 <=> k \in 1 .. n \/ k = n + 1
  OBVIOUS
<1>5. \A x : x \in Reported' <=> \E k \in 1 .. n + 1 : results'[k].kind = "extra" /\ x = results'[k].id
  BY <1>3 DEF Reported
<1>6. \A x : x \in Reported <=> \E k \in 1 .. n : results[k].kind = "extra" /\ x = results[k].id
  BY <1>1 DEF Reported
<1>7. \A x : x \in Reported' <=> x \in Reported \/ (r.kind = "extra" /\ x = r.id)
  BY <1>2, <1>4, <1>5, <1>6
<1> QED BY <1>1, <1>2, <1>7

LEMMA UnionInvInit == UnionInit => UnionInv
<1> SUFFICES ASSUME UnionInit PROVE UnionInv
  OBVIOUS
<1>1. Len(exp) \in Nat
  BY ExpIsSequence DEF UnionInit
<1>2. IsFiniteSet(apiSet)
  BY UnionAssumption, FS_EmptySet DEF UnionInit
<1>3. Reported = {} /\ Cardinality({}) = 0
  BY FS_EmptySet DEF UnionInit, Reported
<1>4. results \in Seq(UnionResults) /\ Len(results) = 0
  BY EmptySeq DEF UnionInit
<1>5. expectedSet = ExpectedIds(next - 1)
  BY DEF UnionInit, ExpectedIds
<1> QED BY <1>1, <1>2, <1>3, <1>4, <1>5 DEF UnionInit, UnionInv

LEMMA UnionInvStep == UnionInv /\ [UnionNext]_unionVars => UnionInv'
<1> SUFFICES ASSUME UnionInv, [UnionNext]_unionVars PROVE UnionInv'
  OBVIOUS
<1>1. PICK L \in Nat : L = Len(exp) /\ DOMAIN exp = 1 .. L
  BY ExpIsSequence DEF UnionInv
<1>2. sources' = sources /\ available' = available /\ apiSet' = apiSet
  BY DEF UnionNext, unionVars, inputs, Unavailable, Compare, Extra
<1>3. /\ exp' = exp /\ UnionResults' = UnionResults
      /\ \A n : ExpectedIds(n)' = ExpectedIds(n)
  BY <1>2 DEF exp, UnionResults, AllExpected, ExpectedIds
<1>4. IsFiniteSet(Reported) /\ Cardinality(Reported) \in Nat
  BY FS_Subset, FS_CardinalityType DEF UnionInv
<1>5. Cardinality({}) = 0
  BY FS_EmptySet
<1>6. CASE Unavailable
  <2> DEFINE r == UnionResult("unavailable", NoHint, "Fail", NoHint)
  <2>1. r \in UnionResults /\ r.kind = "unavailable"
    BY DEF UnionResult, UnionResults
  <2>2. results' = <<r>> /\ results = <<>> /\ ~available /\ next' = next /\ expectedSet' = expectedSet
    BY <1>6 DEF Unavailable
  <2>3. results' = Append(results, r)
    BY <2>2
  <2> HIDE DEF r
  <2>4. results' \in Seq(UnionResults) /\ Len(results') = 1 /\ Reported' = Reported
    BY <2>1, <2>2, <2>3, AppendReported, EmptySeq DEF UnionInv
  <2>5. next = 1 /\ Reported' = {} /\ Cardinality(Reported') = 0
    BY <1>5, <2>2, <2>4 DEF UnionInv
  <2>6. Len(results') <= next' + Cardinality(Reported')
    BY <2>2, <2>4, <2>5
  <2>7. expectedSet' = ExpectedIds(next - 1)'
    BY <1>3, <2>2 DEF UnionInv, ExpectedIds
  <2>8. next' \in 1 .. Len(exp') + 1
    BY <1>1, <1>3, <2>2, <2>5
  <2> QED BY <1>2, <1>3, <2>2, <2>4, <2>5, <2>6, <2>7, <2>8 DEF UnionInv
<1>7. CASE Compare
  <2> DEFINE e == exp[next]
             status == IF e.obaID \in apiSet THEN "Pass" ELSE IF e.mapped THEN "Fail" ELSE "Warn"
  <2>1. PICK m \in 1 .. L : m = next
    BY <1>1, <1>7 DEF Compare, UnionInv
  <2>2. /\ available /\ next' = m + 1 /\ expectedSet' = expectedSet \cup {e.obaID}
        /\ \E hint \in IF e.obaID \in apiSet \/ Hints(e, expectedSet') = {} THEN {NoHint}
                       ELSE Hints(e, expectedSet') :
               results' = Append(results, UnionResult("expected", e.obaID, status, hint))
    BY <1>7, <2>1 DEF Compare, Expect
  <2>3. PICK hint \in IF e.obaID \in apiSet \/ Hints(e, expectedSet') = {} THEN {NoHint}
                      ELSE Hints(e, expectedSet') :
            results' = Append(results, UnionResult("expected", e.obaID, status, hint))
    BY <2>2
  <2> DEFINE r == UnionResult("expected", e.obaID, status, hint)
  <2>4. expectedSet' = ExpectedIds(m)
    <3>1. expectedSet = {exp[k].obaID : k \in 1 .. m - 1}
      BY <2>1 DEF UnionInv, ExpectedIds
    <3>2. 1 .. m = (1 .. m - 1) \cup {m}
      OBVIOUS
    <3> QED BY <2>1, <2>2, <3>1, <3>2 DEF ExpectedIds
  <2>5. hint \in {NoHint} \cup DOMAIN ApiName
    BY <2>3 DEF Hints, Namesakes
  <2>6. e.obaID \in apiSet \/ Hints(e, ExpectedIds(m)) = {} \/ hint # NoHint
    <3>1. \A x \in Hints(e, ExpectedIds(m)) : x # NoHint
      BY UnionAssumption DEF Hints, Namesakes
    <3> QED BY <2>3, <2>4, <3>1
  <2>7. e.obaID \in AllExpected
    BY <1>1, <2>1 DEF AllExpected
  <2>8. status \in {"Pass", "Warn", "Fail"} /\ (status = "Fail" <=> e.mapped /\ e.obaID \notin apiSet)
    OBVIOUS
  <2> HIDE DEF e, status
  <2>9. /\ r \in UnionResults /\ r.kind = "expected" /\ r.id = e.obaID
        /\ r.status = status /\ r.hint = hint
    BY <2>5, <2>7, <2>8 DEF UnionResult, UnionResults
  <2>10. Reported = {} /\ Len(results) = m - 1
    <3>1. Reported = {} /\ Len(results) = next - 1 + Cardinality(Reported)
      BY <1>1, <2>1, <2>2 DEF UnionInv
    <3>2. Cardinality(Reported) = 0
      BY <1>5, <3>1
    <3> QED BY <2>1, <3>1, <3>2
  <2> HIDE DEF r
  <2>11. /\ results' \in Seq(UnionResults) /\ Len(results') = m
         /\ \A k \in 1 .. m - 1 : results'[k] = results[k]
         /\ results'[m] = r /\ Reported' = {}
    <3>1. results' = Append(results, r) /\ results \in Seq(UnionResults)
      BY <2>3 DEF r, UnionInv
    <3>2. (m - 1) + 1 = m
      OBVIOUS
    <3> QED BY <2>9, <2>10, <3>1, <3>2, AppendReported
  <2>12. ASSUME NEW k \in 1 .. m PROVE ComparedAt(k)'
    <3>1. CASE k = m
      BY <1>2, <1>3, <2>1, <2>6, <2>8, <2>9, <2>11, <3>1 DEF ComparedAt, Hints, Namesakes, e
    <3>2. CASE k # m
      <4>1. k \in 1 .. m - 1
        BY <3>2
      <4>2. ComparedAt(k)
        BY <2>1, <2>2, <4>1 DEF UnionInv
      <4> QED BY <1>2, <1>3, <2>11, <4>1, <4>2 DEF ComparedAt, Hints
    <3> QED BY <3>1, <3>2
  <2>13. next' \in 1 .. Len(exp') + 1 /\ next' - 1 = m
    BY <1>1, <1>3, <2>1, <2>2
  <2>14. Reported' \subseteq apiSet' \ expectedSet' /\ Cardinality(Reported') = 0
    BY <1>5, <2>11
  <2>15. expectedSet' = ExpectedIds(next - 1)'
    BY <1>3, <2>4, <2>13 DEF ExpectedIds
  <2>16. Len(results') = next' - 1 + Cardinality(Reported')
    <3>1. Len(results') = m /\ next' - 1 = m /\ Cardinality(Reported') = 0
      BY <2>11, <2>13, <2>14, Zenon
    <3> QED BY <3>1
  <2>17. Len(results') <= next' + Cardinality(Reported')
    BY <2>1, <2>2, <2>11, <2>14
  <2>18. \A k \in 1 .. next' - 1 : ComparedAt(k)'
    BY <2>12, <2>13
  <2> QED BY <1>2, <1>3, <2>2, <2>11, <2>13, <2>14, <2>15, <2>16, <2>17, <2>18 DEF UnionInv
<1>8. CASE \E id \in apiSet : Extra(id)
  <2>1. PICK id \in apiSet : Extra(id)
    BY <1>8
  <2> DEFINE r == UnionResult("extra", id, "Warn", NoHint)
  <2>2. /\ available /\ next > L /\ id \notin expectedSet /\ id \notin Reported
        /\ results' = Append(results, r) /\ next' = next /\ expectedSet' = expectedSet
    BY <1>1, <2>1 DEF Extra
  <2>3. r \in UnionResults /\ r.kind = "extra" /\ r.id = id
    BY DEF UnionResult, UnionResults
  <2> HIDE DEF r
  <2>4. PICK n \in Nat : n = Len(results)
    BY LenProperties DEF UnionInv
  <2>5. /\ results' \in Seq(UnionResults) /\ Len(results') = n + 1
        /\ \A k \in 1 .. n : results'[k] = results[k]
        /\ Reported' = Reported \cup {id}
    BY <2>2, <2>3, <2>4, AppendReported DEF UnionInv
  <2>6. Cardinality(Reported') = Cardinality(Reported) + 1
    BY <1>4, <2>2, <2>5, FS_AddElement
  <2>7. next = L + 1 /\ n = L + Cardinality(Reported)
    BY <1>1, <2>2, <2>4 DEF UnionInv
  <2>8. ASSUME NEW k \in 1 .. L PROVE ComparedAt(k)'
    <3>1. ComparedAt(k)
      BY <2>2, <2>7 DEF UnionInv
    <3>2. k \in 1 .. n
      BY <1>4, <2>7
    <3> QED BY <1>2, <1>3, <2>5, <3>1, <3>2 DEF ComparedAt, Hints
  <2>9. Len(results') = L + Cardinality(Reported')
    BY <1>4, <2>5, <2>6, <2>7
  <2>10. Reported' \subseteq apiSet' \ expectedSet'
    BY <1>2, <2>1, <2>2, <2>5 DEF UnionInv
  <2>11. /\ next' - 1 = L /\ next' \in 1 .. Len(exp') + 1 /\ ~(next' <= Len(exp'))
    BY <1>1, <1>3, <2>2, <2>7
  <2>12. expectedSet' = ExpectedIds(next - 1)'
    BY <1>3, <2>2 DEF UnionInv, ExpectedIds
  <2>13. /\ Len(results') = next' - 1 + Cardinality(Reported')
         /\ Len(results') <= next' + Cardinality(Reported')
    <3>1. PICK c \in Nat : c = Cardinality(Reported')
      BY <1>4, <2>6
    <3>2. next' = L + 1
      BY <2>2, <2>7
    <3> QED BY <2>9, <3>1, <3>2
  <2>14. \A k \in 1 .. next' - 1 : ComparedAt(k)'
    BY <2>8, <2>11
  <2> QED BY <1>2, <1>3, <2>2, <2>5, <2>10, <2>11, <2>12, <2>13, <2>14 DEF UnionInv
<1>9. CASE UNCHANGED unionVars
  <2>1. next' = next /\ expectedSet' = expectedSet /\ results' = results /\ Reported' = Reported
    BY <1>9 DEF unionVars, Reported
  <2>2. \A k : ComparedAt(k)' = ComparedAt(k)
    BY <1>2, <1>3, <2>1 DEF ComparedAt, Hints, Namesakes
  <2>3. expectedSet' = ExpectedIds(next - 1)'
    BY <1>3, <2>1 DEF UnionInv, ExpectedIds
  <2> QED BY <1>2, <1>3, <2>1, <2>2, <2>3 DEF UnionInv
<1> QED BY <1>6, <1>7, <1>8, <1>9 DEF UnionNext

LEMMA UnionInvariance == UnionSpec => []UnionInv
BY UnionInvInit, UnionInvStep, PTL DEF UnionSpec

\* The types of AgencyUnion, for any sources and any server: no loop reports more than
\* it has agencies (check_agencies.go:12-72).
THEOREM UnionTypeCorrect == UnionSpec => []UnionTypeOK
<1>1. UnionInv => UnionTypeOK
  <2> SUFFICES ASSUME UnionInv PROVE UnionTypeOK
    OBVIOUS
  <2>1. PICK L \in Nat : L = Len(exp) /\ DOMAIN exp = 1 .. L
    BY ExpIsSequence DEF UnionInv
  <2>2. PICK n \in 1 .. L + 1 : n = next
    BY <2>1 DEF UnionInv
  <2>3. expectedSet \subseteq {exp[k].obaID : k \in DOMAIN exp}
    BY <2>1, <2>2 DEF UnionInv, ExpectedIds
  <2>4. Reported \in SUBSET apiSet /\ IsFiniteSet(apiSet)
    BY DEF UnionInv
  <2>5. /\ Cardinality(Reported) \in Nat /\ Cardinality(apiSet) \in Nat
        /\ Cardinality(Reported) <= Cardinality(apiSet)
    BY <2>4, FS_Subset, FS_CardinalityType
  <2>6. available \/ ~available
    OBVIOUS
  <2>7. PICK m \in Nat : m = Len(results)
    BY LenProperties DEF UnionInv
  <2>8. m <= n + Cardinality(Reported)
    BY <2>2, <2>7 DEF UnionInv
  <2>9. m <= L + Cardinality(apiSet) + 1
    BY <2>2, <2>5, <2>8
  <2>10. \A k \in DOMAIN results : results[k] \in UnionResults
    BY LenProperties DEF UnionInv
  <2>11. \A k \in DOMAIN results : results[k].status \in {"Pass", "Warn", "Fail"}
    BY <2>10 DEF UnionResults
  <2> QED BY <2>1, <2>2, <2>3, <2>7, <2>9, <2>11 DEF UnionTypeOK
<1> QED BY <1>1, UnionInvariance, PTL

\* For any sources and mappings: each agency of each feed has its result, a Fail only if
\* it is mapped, and each other agency of the server one Warn (check_agencies.go:42-71).
THEOREM UnionKeepsDesign == UnionSpec => []UnionAsDesigned
<1>1. UnionInv => UnionAsDesigned
  <2> SUFFICES ASSUME UnionInv, Done PROVE
          /\ \A k \in DOMAIN exp :
                 /\ results[k].kind = "expected" /\ results[k].id = exp[k].obaID
                 /\ results[k].status = "Fail" <=> exp[k].mapped /\ exp[k].obaID \notin apiSet
          /\ Reported = apiSet \ AllExpected
          /\ Len(results) = Len(exp) + Cardinality(Reported)
    BY DEF UnionAsDesigned
  <2>1. PICK L \in Nat : L = Len(exp) /\ DOMAIN exp = 1 .. L
    BY ExpIsSequence DEF UnionInv
  <2>2. available /\ next - 1 = L
    BY <2>1 DEF Done, UnionInv
  <2>3. expectedSet = AllExpected
    BY <2>1, <2>2 DEF UnionInv, ExpectedIds, AllExpected
  <2>4. \A k \in 1 .. L : ComparedAt(k)
    BY <2>2 DEF UnionInv
  <2>5. Reported = apiSet \ AllExpected
    BY <2>3 DEF UnionInv, Done
  <2>6. Len(results) = L + Cardinality(Reported)
    BY <2>2 DEF UnionInv
  <2> QED BY <2>1, <2>4, <2>5, <2>6 DEF ComparedAt
<1> QED BY <1>1, UnionInvariance, PTL

\* Whatever the order of the sources, no hint that the complete set would give is missed:
\* the set the search looks at only grows (check_agencies.go:45-54, 76-86).
THEOREM HintsAreGiven == UnionSpec => []HintNotMissed
<1>1. UnionInv => HintNotMissed
  <2> SUFFICES ASSUME UnionInv, Done, NEW k \in DOMAIN exp, exp[k].obaID \notin apiSet,
                      Namesakes(exp[k]) \ AllExpected # {}
               PROVE  results[k].hint # NoHint
    BY DEF HintNotMissed
  <2>1. PICK L \in Nat : L = Len(exp) /\ DOMAIN exp = 1 .. L
    BY ExpIsSequence DEF UnionInv
  <2>2. available /\ next - 1 = L
    BY <2>1 DEF Done, UnionInv
  <2>3. ComparedAt(k)
    BY <2>1, <2>2 DEF UnionInv
  <2>4. ExpectedIds(k) \subseteq AllExpected
    BY <2>1 DEF ExpectedIds, AllExpected
  <2>5. Hints(exp[k], ExpectedIds(k)) # {}
    BY <2>4 DEF Hints
  <2> QED BY <2>3, <2>5 DEF ComparedAt
<1> QED BY <1>1, UnionInvariance, PTL
=============================================================================
