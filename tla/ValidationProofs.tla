-------------------------- MODULE ValidationProofs --------------------------
(***************************************************************************)
(* Proofs about Validation, for any number of data sources, any outcomes   *)
(* of prepare, any findings and any time the checks take: every check      *)
(* reports, staleness is final, a failed feed is told from an empty one,   *)
(* and the document and the text hold every result.  Ids and Sampling come *)
(* with HelperProofs; nothing here depends on them.                        *)
(***************************************************************************)
EXTENDS Validation, HelperProofs

PerSource == 7
First(s) == 2 + PerSource * (s - 1)         \* the steps before those of source s

Kinds == {"basic-endpoints", "agency-union", "gtfs-sanity", "rt-freshness",
          "vehicle-positions-sampling", "trip-update-sampling", "service-alert-crossref"}
AnyStep == [source : Nat, check : Kinds] \cup [source : Nat, check : Kinds, feed : Feeds]

\* The step is one of a data source, and looks at a feed that the check is about.
OfSource(step) ==
    /\ step.source \in DOMAIN sources
    /\ step.check \in Kinds \ {"basic-endpoints", "agency-union"}
    /\ step.feed \in IF step.check = "gtfs-sanity" THEN {"staticGtfs"} ELSE Realtime

InputsOK ==
    /\ sources \in Seq([Feeds -> FeedStates])
    /\ created \in [DOMAIN sources -> [Realtime -> Int \cup {NoTime}]]
    /\ maxAge \in Int /\ sampleSize \in Int
-----------------------------------------------------------------------------
(* The plan.                                                               *)
LEMMA SourceStepsTyped ==
    ASSUME NEW s \in Nat
    PROVE  /\ SourceSteps(s) \in Seq(AnyStep) /\ Len(SourceSteps(s)) = PerSource
           /\ \A i \in 1 .. PerSource :
                  /\ SourceSteps(s)[i].source = s
                  /\ SourceSteps(s)[i].check \in Kinds \ {"basic-endpoints", "agency-union"}
                  /\ SourceSteps(s)[i].feed \in
                         IF SourceSteps(s)[i].check = "gtfs-sanity" THEN {"staticGtfs"} ELSE Realtime
<1> DEFINE On(check, feed) == [source |-> s, check |-> check, feed |-> feed]
<1>1. \A check \in Kinds, feed \in Feeds : On(check, feed) \in AnyStep
  BY DEF AnyStep
<1>2. \A i \in 1 .. 7 : i = 1 \/ i = 2 \/ i = 3 \/ i = 4 \/ i = 5 \/ i = 6 \/ i = 7
  OBVIOUS
<1>3. SourceSteps(s) \in Seq(AnyStep) /\ Len(SourceSteps(s)) = 7
  BY <1>1 DEF SourceSteps, Kinds, Feeds, Realtime
<1> QED BY <1>2, <1>3 DEF SourceSteps, Kinds, Realtime, PerSource

LEMMA SourceStepsDiffer ==
    ASSUME NEW s \in Nat, NEW i \in 1 .. PerSource, NEW j \in 1 .. PerSource,
           SourceSteps(s)[i] = SourceSteps(s)[j]
    PROVE  i = j
<1>1. \A k \in 1 .. 7 : k = 1 \/ k = 2 \/ k = 3 \/ k = 4 \/ k = 5 \/ k = 6 \/ k = 7
  OBVIOUS
<1>2. /\ SourceSteps(s)[i].check = SourceSteps(s)[j].check
      /\ SourceSteps(s)[i].feed = SourceSteps(s)[j].feed
  OBVIOUS
<1> QED BY <1>1, <1>2 DEF SourceSteps, PerSource

LEMMA PlanShape ==
    ASSUME InputsOK
    PROVE  /\ Plan \in Seq(AnyStep)
           /\ Len(sources) \in Nat /\ DOMAIN sources = 1 .. Len(sources)
           /\ Len(Plan) = 2 + PerSource * Len(sources)
           /\ \A k \in 1 .. 2 : Plan[k] = ServerSteps[k]
           /\ \A s \in DOMAIN sources, i \in 1 .. PerSource :
                  Plan[First(s) + i] = SourceSteps(s)[i]
<1> DEFINE seqs == [s \in DOMAIN sources |-> SourceSteps(s)]
<1>1. PICK L \in Nat : L = Len(sources) /\ DOMAIN sources = 1 .. L
  BY LenProperties DEF InputsOK
<1>2. \A s \in 1 .. L : SourceSteps(s) \in Seq(AnyStep) /\ Len(SourceSteps(s)) = PerSource
  BY <1>1, SourceStepsTyped
<1>3. seqs \in [1 .. L -> Seq(AnyStep)]
  BY <1>1, <1>2
<1>4. seqs \in Seq(Seq(AnyStep)) /\ Len(seqs) = L
  BY <1>1, <1>3, SeqDef
<1>5. \A s \in 1 .. L : seqs[s] = SourceSteps(s)
  BY <1>1
<1> HIDE DEF seqs
<1>6. PICK flat \in [0 .. L -> Seq(AnyStep)] :
          /\ flat[0] = <<>>
          /\ \A n \in 1 .. L : flat[n] = flat[n - 1] \o seqs[n]
          /\ FlattenSeq(seqs) = flat[L]
  BY <1>4, FlattenSteps
<1> DEFINE Whole(f, n) ==
               /\ Len(f) = PerSource * n
               /\ \A s \in 1 .. n, i \in 1 .. PerSource :
                      f[PerSource * (s - 1) + i] = SourceSteps(s)[i]
           P == {n \in 0 .. L : Whole(flat[n], n)}
<1>7. 0 \in P
  <2>1. Len(flat[0]) = 0 /\ 1 .. 0 = {}
    BY <1>6, EmptySeq
  <2> QED BY <1>1, <2>1 DEF PerSource
<1>8. ASSUME NEW n \in 1 .. L, n - 1 \in P PROVE n \in P
  <2> n \in Nat \ {0}
    BY <1>1
  <2>1. PICK f \in Seq(AnyStep) : f = flat[n - 1] /\ Len(f) = 7 * (n - 1) /\ Whole(f, n - 1)
    <3>1. n - 1 \in 0 .. L
      BY <1>8
    <3> QED BY <1>6, <1>8, <3>1 DEF PerSource
  <2>2. PICK g \in Seq(AnyStep) : g = SourceSteps(n) /\ Len(g) = 7
    BY <1>2 DEF PerSource
  <2>3. flat[n] = f \o g
    BY <1>5, <1>6, <2>1, <2>2
  <2> HIDE DEF Whole
  <2>4. Len(f \o g) = 7 * n
    <3>1. Len(f \o g) = Len(f) + Len(g)
      BY <2>1, <2>2, ConcatProperties
    <3> QED BY <2>1, <2>2, <3>1
  <2>6. \A k \in 1 .. Len(f) + Len(g) : (f \o g)[k] = IF k <= Len(f) THEN f[k] ELSE g[k - Len(f)]
    BY ConcatProperties, Zenon
  <2>5. ASSUME NEW s \in 1 .. n, NEW i \in 1 .. 7
        PROVE  (f \o g)[7 * (s - 1) + i] = SourceSteps(s)[i]
    <3>1. PICK k \in 1 .. 7 * n : k = 7 * (s - 1) + i
      OBVIOUS
    <3>2. CASE s = n
      <4>1. k > Len(f) /\ k - Len(f) = i /\ k \in 1 .. Len(f) + Len(g)
        BY <2>1, <2>2, <3>1, <3>2
      <4>2. (f \o g)[k] = g[k - Len(f)]
        BY <2>1, <2>6, <4>1
      <4> QED BY <2>2, <3>1, <3>2, <4>1, <4>2
    <3>3. CASE s # n
      <4>1. s \in 1 .. n - 1 /\ k <= Len(f) /\ k \in 1 .. Len(f) + Len(g)
        BY <2>1, <2>2, <3>1, <3>3
      <4>2. (f \o g)[k] = f[k]
        BY <2>6, <4>1
      <4> QED BY <2>1, <3>1, <4>1, <4>2 DEF PerSource, Whole
    <3> QED BY <3>2, <3>3
  <2>7. Whole(flat[n], n)
    BY <2>3, <2>4, <2>5 DEF PerSource, Whole
  <2> QED BY <2>7
<1>9. Whole(FlattenSeq(seqs), L) /\ FlattenSeq(seqs) \in Seq(AnyStep)
  <2>1. 0 .. L \subseteq P
    <3> HIDE DEF P
    <3> QED BY <1>1, <1>7, <1>8, Induction
  <2> QED BY <1>1, <1>6, <2>1
<1>10. PICK f \in Seq(AnyStep) : f = FlattenSeq(seqs) /\ Len(f) = 7 * L /\ Whole(f, L)
  BY <1>9 DEF PerSource
<1>11. Plan = ServerSteps \o f
  BY <1>10 DEF Plan, seqs
<1>12. ServerSteps \in Seq(AnyStep) /\ Len(ServerSteps) = 2
  BY DEF ServerSteps, AnyStep, Kinds
<1> HIDE DEF Whole
<1>13. /\ Plan \in Seq(AnyStep) /\ Len(Plan) = 2 + 7 * L
       /\ \A k \in 1 .. 2 + 7 * L : Plan[k] = IF k <= 2 THEN ServerSteps[k] ELSE f[k - 2]
  <2>1. /\ Plan \in Seq(AnyStep) /\ Len(Plan) = Len(ServerSteps) + Len(f)
        /\ \A k \in 1 .. Len(ServerSteps) + Len(f) :
               Plan[k] = IF k <= Len(ServerSteps) THEN ServerSteps[k] ELSE f[k - Len(ServerSteps)]
    BY <1>10, <1>11, <1>12, ConcatProperties
  <2>2. Len(ServerSteps) + Len(f) = 2 + 7 * L
    BY <1>10, <1>12
  <2> QED BY <1>12, <2>1, <2>2
<1>14. \A k \in 1 .. 2 : Plan[k] = ServerSteps[k]
  BY <1>1, <1>13
<1>15. ASSUME NEW s \in 1 .. L, NEW i \in 1 .. 7 PROVE Plan[2 + 7 * (s - 1) + i] = SourceSteps(s)[i]
  <2>1. 7 * (s - 1) + i \in 1 .. 7 * L
    OBVIOUS
  <2>2. Plan[2 + 7 * (s - 1) + i] = f[7 * (s - 1) + i]
    BY <1>1, <1>13, <2>1
  <2> QED BY <1>10, <2>2 DEF PerSource, Whole
<1> QED BY <1>1, <1>13, <1>14, <1>15 DEF PerSource, First
\* Where a step of the plan stands.
LEMMA PlanPlace ==
    ASSUME InputsOK, NEW k \in 1 .. Len(Plan), k > 2
    PROVE  \E s \in DOMAIN sources, i \in 1 .. PerSource :
               k = First(s) + i /\ Plan[k] = SourceSteps(s)[i]
<1>1. PICK L \in Nat : L = Len(sources) /\ DOMAIN sources = 1 .. L /\ Len(Plan) = 2 + 7 * L
  BY PlanShape DEF PerSource
<1> DEFINE P == {n \in 0 .. L : \A m \in 3 .. 2 + 7 * n :
                     \E s \in 1 .. n, i \in 1 .. 7 : m = 2 + 7 * (s - 1) + i}
<1>2. 0 \in P
  BY <1>1
<1>3. ASSUME NEW n \in 1 .. L, n - 1 \in P PROVE n \in P
  <2> SUFFICES ASSUME NEW m \in 3 .. 2 + 7 * n
               PROVE  \E s \in 1 .. n, i \in 1 .. 7 : m = 2 + 7 * (s - 1) + i
    BY <1>1
  <2>1. CASE m <= 2 + 7 * (n - 1)
    <3>1. m \in 3 .. 2 + 7 * (n - 1)
      BY <1>1, <2>1
    <3>2. PICK s \in 1 .. n - 1, i \in 1 .. 7 : m = 2 + 7 * (s - 1) + i
      BY <1>3, <3>1
    <3>3. s \in 1 .. n
      BY <1>1
    <3> QED BY <3>2, <3>3
  <2>2. CASE m > 2 + 7 * (n - 1)
    <3>1. PICK i \in 1 .. 7 : i = m - 2 - 7 * (n - 1)
      BY <1>1, <2>2
    <3>2. m = 2 + 7 * (n - 1) + i /\ n \in 1 .. n
      BY <1>1, <3>1
    <3> QED BY <3>2
  <2> QED BY <1>1, <2>1, <2>2
<1>4. L \in P
  <2>1. 0 .. L \subseteq P
    <3> HIDE DEF P
    <3> QED BY <1>1, <1>2, <1>3, Induction
  <2> QED BY <1>1, <2>1
<1>5. PICK s \in 1 .. L, i \in 1 .. 7 : k = 2 + 7 * (s - 1) + i
  BY <1>1, <1>4
<1>6. k = First(s) + i /\ s \in DOMAIN sources
  BY <1>1, <1>5 DEF First, PerSource
<1> QED BY <1>6, PlanShape DEF PerSource

LEMMA ServerStepsTyped ==
    ASSUME InputsOK
    PROVE  /\ Plan[1].source = 0 /\ Plan[1].check = "basic-endpoints"
           /\ Plan[2].source = 0 /\ Plan[2].check = "agency-union"
BY PlanShape DEF ServerSteps

\* A step is one of the two of the server, or of a data source.
LEMMA PlanSteps ==
    ASSUME InputsOK, NEW k \in 1 .. Len(Plan)
    PROVE  IF k <= 2 THEN Plan[k].source = 0
                          /\ Plan[k].check = (IF k = 1 THEN "basic-endpoints" ELSE "agency-union")
           ELSE OfSource(Plan[k]) /\ Plan[k].source > 0
<1>1. CASE k <= 2
  BY <1>1, ServerStepsTyped
<1>2. CASE k > 2
  <2>1. PICK s \in DOMAIN sources, i \in 1 .. PerSource : Plan[k] = SourceSteps(s)[i]
    BY <1>2, PlanPlace
  <2>2. s \in Nat /\ s > 0
    BY PlanShape
  <2> QED BY <1>2, <2>1, <2>2, SourceStepsTyped DEF OfSource
<1> QED BY <1>1, <1>2, PlanShape

\* Source by source, and no step twice.
LEMMA PlanOrdered ==
    ASSUME InputsOK, NEW k \in 1 .. Len(Plan), NEW l \in 1 .. Len(Plan), k <= l
    PROVE  /\ Plan[k].source \in Nat /\ Plan[l].source \in Nat
           /\ Plan[k].source <= Plan[l].source
<1>1. \A m \in 1 .. Len(Plan) : Plan[m].source \in Nat /\ (m <= 2 => Plan[m].source = 0)
  BY PlanShape, PlanSteps DEF OfSource
<1>2. CASE k > 2
  <2>1. PICK s \in DOMAIN sources, i \in 1 .. PerSource : k = First(s) + i /\ Plan[k] = SourceSteps(s)[i]
    BY <1>2, PlanPlace
  <2>2. PICK t \in DOMAIN sources, j \in 1 .. PerSource : l = First(t) + j /\ Plan[l] = SourceSteps(t)[j]
    BY <1>2, PlanPlace, PlanShape
  <2>3. s \in Nat /\ t \in Nat
    BY PlanShape
  <2>4. s <= t
    <3>1. k = 2 + 7 * (s - 1) + i /\ i \in 1 .. 7 /\ l = 2 + 7 * (t - 1) + j /\ j \in 1 .. 7
      BY <2>1, <2>2 DEF First, PerSource
    <3> QED BY <2>3, <3>1
  <2>5. Plan[k].source = s /\ Plan[l].source = t
    BY <2>1, <2>2, <2>3, SourceStepsTyped
  <2> QED BY <2>3, <2>4, <2>5
<1> QED BY <1>1, <1>2, PlanShape

LEMMA PlanInjective ==
    ASSUME InputsOK, NEW k \in 1 .. Len(Plan), NEW l \in 1 .. Len(Plan), Plan[k] = Plan[l]
    PROVE  k = l
<1>1. CASE k <= 2 \/ l <= 2
  BY <1>1, PlanSteps, PlanShape
<1>2. CASE k > 2 /\ l > 2
  <2>1. PICK s \in DOMAIN sources, i \in 1 .. PerSource : k = First(s) + i /\ Plan[k] = SourceSteps(s)[i]
    BY <1>2, PlanPlace
  <2>2. PICK t \in DOMAIN sources, j \in 1 .. PerSource : l = First(t) + j /\ Plan[l] = SourceSteps(t)[j]
    BY <1>2, PlanPlace
  <2>3. s \in Nat /\ t \in Nat
    BY PlanShape
  <2>4. s = t
    BY <2>1, <2>2, <2>3, SourceStepsTyped
  <2>5. i = j
    BY <2>1, <2>2, <2>3, <2>4, SourceStepsDiffer
  <2> QED BY <2>1, <2>2, <2>4, <2>5
<1> QED BY <1>1, <1>2, PlanShape

\* Each source has its sanity check, and for each of its feeds a check of what is in it.
LEMMA PlanCovers ==
    ASSUME InputsOK, NEW s \in DOMAIN sources
    PROVE  /\ \A f \in Feeds : \E k \in 1 .. Len(Plan) :
                  /\ OfSource(Plan[k]) /\ Plan[k].source = s /\ Plan[k].feed = f
                  /\ Plan[k].check # "rt-freshness"
           /\ \E k \in 1 .. Len(Plan) : OfSource(Plan[k]) /\ Plan[k].source = s
                                        /\ Plan[k].feed = "staticGtfs" /\ Plan[k].check = "gtfs-sanity"
<1>1. PICK L \in Nat : L = Len(sources) /\ s \in 1 .. L /\ Len(Plan) = 2 + 7 * L
  BY PlanShape DEF PerSource
<1>2. ASSUME NEW i \in 1 .. 7
      PROVE  \E k \in 1 .. Len(Plan) : OfSource(Plan[k]) /\ Plan[k] = SourceSteps(s)[i]
  <2>1. PICK k \in 1 .. Len(Plan) : k = 2 + 7 * (s - 1) + i /\ k > 2
    <3>1. 2 + 7 * (s - 1) + i \in 3 .. 2 + 7 * L
      BY <1>1
    <3> QED BY <1>1, <3>1
  <2>2. Plan[k] = SourceSteps(s)[i]
    <3>1. i \in 1 .. PerSource /\ k = First(s) + i
      BY <2>1 DEF First, PerSource
    <3> QED BY <3>1, PlanShape
  <2>3. OfSource(Plan[k])
    BY <2>1, PlanSteps
  <2> QED BY <2>2, <2>3
<1>3. /\ \A i \in {1, 5, 6, 7} : SourceSteps(s)[i].source = s /\ SourceSteps(s)[i].check # "rt-freshness"
      /\ SourceSteps(s)[1].feed = "staticGtfs" /\ SourceSteps(s)[1].check = "gtfs-sanity"
      /\ SourceSteps(s)[5].feed = "vehiclePositions"
      /\ SourceSteps(s)[6].feed = "tripUpdates"
      /\ SourceSteps(s)[7].feed = "serviceAlerts"
  BY DEF SourceSteps
<1>4. \A f \in Feeds : \E i \in {1, 5, 6, 7} : SourceSteps(s)[i].feed = f
  BY <1>3 DEF Feeds, Realtime
<1>5. {1, 5, 6, 7} \subseteq 1 .. 7
  OBVIOUS
<1>6. ASSUME NEW f \in Feeds
      PROVE  \E k \in 1 .. Len(Plan) : /\ OfSource(Plan[k]) /\ Plan[k].source = s /\ Plan[k].feed = f
                                       /\ Plan[k].check # "rt-freshness"
  <2>1. PICK i \in {1, 5, 6, 7} : SourceSteps(s)[i].feed = f
    BY <1>4
  <2>2. PICK k \in 1 .. Len(Plan) : OfSource(Plan[k]) /\ Plan[k] = SourceSteps(s)[i]
    BY <1>2, <1>5, <2>1
  <2> QED BY <1>3, <2>1, <2>2
<1>7. PICK k \in 1 .. Len(Plan) : OfSource(Plan[k]) /\ Plan[k] = SourceSteps(s)[1]
  BY <1>2, <1>5
<1>8. Plan[k].source = s /\ Plan[k].feed = "staticGtfs" /\ Plan[k].check = "gtfs-sanity"
  BY <1>3, <1>7
<1> QED BY <1>6, <1>7, <1>8
-----------------------------------------------------------------------------
(* The inductive invariant.                                                *)
Results == [step : Range(Plan), status : Statuses]

Types ==
    /\ InputsOK
    /\ now \in Ready .. MaxTime
    /\ at \in 0 .. Len(Plan)
    /\ panicked \in BOOLEAN
    /\ results \in Seq(Results)

\* Results are of the steps made, and those of a source stand together.
PlaceInv ==
    /\ \A j \in DOMAIN results : \E k \in 1 .. at : results[j].step = Plan[k]
    /\ \A i, j \in DOMAIN results : i < j => results[i].step.source <= results[j].step.source

AboutFeed == {"gtfs-sanity", "rt-freshness"}
ResultsOf(k) == {j \in DOMAIN results : results[j].step = Plan[k]}

\* What EveryCheckReports says, of the steps made.
OnceInv ==
    \A k \in 1 .. at :
        /\ ResultsOf(k) # {} \/ (Plan[k].check = "agency-union" /\ NoAgencies)
        /\ Plan[k].check \in AboutFeed => \A i, j \in ResultsOf(k) : i = j

\* The result says what prepare has made of the feed.
Told(r) ==
    LET state == sources[r.step.source][r.step.feed] IN
    OfSource(r.step) =>
        IF r.step.check = "gtfs-sanity" THEN r.status = IF state = "usable" THEN "Pass" ELSE "Fail"
        ELSE /\ state = "failed" => r.status = "Fail"
             /\ state = "none" => r.status = "Warn"
             /\ state = "unusable" =>
                    IF r.step.check # "rt-freshness" THEN r.status = "Warn"
                    ELSE created[r.step.source][r.step.feed] = NoTime => r.status # "Fail"

ToldInv == \A j \in DOMAIN results : Told(results[j])

IsStamped(r) ==
    /\ r.step.check = "rt-freshness"
    /\ sources[r.step.source][r.step.feed] \in {"usable", "unusable"}
    /\ created[r.step.source][r.step.feed] # NoTime

\* A feed found stale is stale now, as time does not go back.
StaleInv ==
    /\ \A j \in DOMAIN results :
           IsStamped(results[j]) /\ results[j].status = "Fail" =>
               now - created[results[j].step.source][results[j].step.feed] > maxAge
    /\ StaleIsFinal

Inv == Types /\ PlaceInv /\ OnceInv /\ ToldInv /\ StaleInv

LEMMA InputsFit == ASSUME Init PROVE InputsOK
BY ValidationAssumption DEF Init, InputsOK

LEMMA InvInit == Init => Inv
<1> SUFFICES ASSUME Init PROVE Inv
  OBVIOUS
<1>1. InputsOK
  BY InputsFit
<1>2. Len(Plan) \in Nat
  BY <1>1, PlanShape
<1>3. results = <<>> /\ results \in Seq(Results) /\ DOMAIN results = {}
  BY EmptySeq DEF Init
<1>4. Types
  <2>1. now \in Ready .. MaxTime /\ at \in 0 .. Len(Plan)
    <3>1. Ready \in Int /\ MaxTime \in Int /\ Ready <= MaxTime
      BY ValidationAssumption
    <3>2. now = Ready /\ at = 0
      BY DEF Init
    <3> QED BY <1>2, <3>1, <3>2
  <2>2. panicked \in BOOLEAN
    BY DEF Init
  <2> QED BY <1>1, <1>3, <2>1, <2>2 DEF Types
<1>5. PlaceInv /\ OnceInv /\ ToldInv /\ StaleInv
  BY <1>3 DEF Init, PlaceInv, OnceInv, ToldInv, StaleInv, StaleIsFinal
<1> QED BY <1>4, <1>5 DEF Inv

\* The plan and what is told of a step depend on the inputs alone.
LEMMA SameInputs ==
    ASSUME UNCHANGED inputs
    PROVE  /\ Plan' = Plan /\ InputsOK' = InputsOK /\ NoAgencies' = NoAgencies
           /\ \A r : Told(r)' = Told(r) /\ IsStamped(r)' = IsStamped(r)
<1>1. sources' = sources /\ created' = created /\ maxAge' = maxAge /\ sampleSize' = sampleSize
  BY DEF inputs
<1>2. Plan' = Plan /\ InputsOK' = InputsOK /\ NoAgencies' = NoAgencies
  BY <1>1 DEF Plan, InputsOK, NoAgencies
<1>3. \A r : Told(r)' = Told(r)
  BY <1>1 DEF Told, OfSource
<1>4. \A r : IsStamped(r)' = IsStamped(r)
  BY <1>1 DEF IsStamped
<1> QED BY <1>2, <1>3, <1>4
-----------------------------------------------------------------------------
(* What one check reports.                                                 *)
New(status) == [step |-> Step, status |-> status]

Fits(statuses) ==
    /\ statuses \in Seq(Statuses)
    /\ statuses # <<>> \/ (Step.check = "agency-union" /\ NoAgencies)
    /\ Step.check \in AboutFeed => Len(statuses) = 1
    /\ \A n \in DOMAIN statuses :
           /\ Told(New(statuses[n]))
           /\ IsStamped(New(statuses[n])) => statuses[n] = AgeVerdict(created[Step.source][Step.feed])

LEMMA StepPlace ==
    ASSUME Types, Running
    PROVE  /\ at + 1 \in 1 .. Len(Plan) /\ Step = Plan[at + 1] /\ Step \in Range(Plan)
           /\ Step.check \in Kinds
           /\ Step.source = 0 => ~OfSource(Step) /\ Step.check \notin AboutFeed
           /\ Step.source # 0 => OfSource(Step)
           /\ OfSource(Step) => State \in FeedStates
<1>1. InputsOK /\ Len(Plan) \in Nat /\ Plan \in Seq(AnyStep) /\ 0 \notin DOMAIN sources
  BY PlanShape DEF Types
<1>2. at + 1 \in 1 .. Len(Plan)
  BY <1>1 DEF Types, Running
<1>3. Step = Plan[at + 1] /\ Step \in Range(Plan) /\ Step \in AnyStep
  BY <1>1, <1>2, LenProperties DEF Step, Range
<1>4. Step.check \in Kinds
  BY <1>3 DEF AnyStep
<1>5. (Step.source = 0 /\ Step.check \in {"basic-endpoints", "agency-union"}) \/ OfSource(Step)
  BY <1>1, <1>2, <1>3, PlanSteps
<1>6. OfSource(Step) => Step.source # 0
  BY <1>1 DEF OfSource
<1>7. OfSource(Step) => State \in FeedStates
  <2>1. ASSUME OfSource(Step) PROVE Step.source \in DOMAIN sources /\ Step.feed \in Feeds
    BY <2>1 DEF OfSource, Feeds, Realtime
  <2>2. \A s \in DOMAIN sources : sources[s] \in [Feeds -> FeedStates]
    BY <1>1, LenProperties DEF InputsOK
  <2> QED BY <2>1, <2>2 DEF State
<1> QED BY <1>2, <1>3, <1>4, <1>5, <1>6, <1>7 DEF AboutFeed

LEMMA AgeIsStatus == ASSUME NEW c PROVE AgeVerdict(c) \in Statuses
BY DEF AgeVerdict, Statuses

\* A check of one result.
LEMMA OneFits ==
    ASSUME NEW status \in Statuses, Told(New(status)),
           IsStamped(New(status)) => status = AgeVerdict(created[Step.source][Step.feed])
    PROVE  Fits(<<status>>)
<1>1. <<status>> \in Seq(Statuses) /\ Len(<<status>>) = 1 /\ <<status>> # <<>>
  BY OneElement, EmptySeq
<1>2. DOMAIN <<status>> = {1} /\ <<status>>[1] = status
  OBVIOUS
<1> QED BY <1>1, <1>2 DEF Fits

\* A check of the server, or of entities that are asked for one by one.
LEMMA FindingsFit ==
    ASSUME NEW f \in Findings, Step.check \notin AboutFeed,
           OfSource(Step) => State = "usable"
    PROVE  Fits(f)
<1>1. f \in Seq(Statuses) /\ f # <<>>
  BY ValidationAssumption
<1>2. \A status : Told(New(status)) /\ ~IsStamped(New(status))
  BY DEF Told, IsStamped, New, State, AboutFeed
<1> QED BY <1>1, <1>2 DEF Fits

LEMMA CheckReports ==
    ASSUME Types, Check
    PROVE  /\ Running
           /\ \/ \E statuses : Fits(statuses) /\ Report(statuses)
              \/ panicked' = TRUE /\ UNCHANGED <<inputs, now, at, results>>
<1>1. Running
  BY DEF Check, ServerCheck, Sanity, Freshness, Unsampled, Sampled, SampleByIDPanics, Samples
<1>2. /\ Step.source = 0 => ~OfSource(Step) /\ Step.check \notin AboutFeed
      /\ Step.source # 0 => OfSource(Step)
      /\ OfSource(Step) => State \in FeedStates
  BY <1>1, StepPlace
<1>3. CASE ServerCheck
  <2>1. PICK f \in Findings \cup (IF Step.check = "agency-union" /\ NoAgencies THEN {<<>>} ELSE {}) :
            Report(f)
    BY <1>3 DEF ServerCheck
  <2>2. CASE f \in Findings
    BY <1>2, <1>3, <2>1, <2>2, FindingsFit DEF ServerCheck
  <2>3. CASE f \notin Findings
    <3>1. f = <<>> /\ Step.check = "agency-union" /\ NoAgencies
      BY <2>1, <2>3
    <3>2. f \in Seq(Statuses) /\ DOMAIN f = {}
      BY <3>1, EmptySeq
    <3>3. Fits(f)
      BY <3>1, <3>2 DEF Fits, AboutFeed
    <3> QED BY <1>1, <2>1, <3>3
  <2> QED BY <1>1, <2>2, <2>3
<1>4. CASE Sanity
  <2> DEFINE status == IF State = "usable" THEN "Pass" ELSE "Fail"
  <2>1. Report(<<status>>)
    BY <1>4 DEF Sanity
  <2>2. status \in Statuses
    BY DEF Statuses
  <2>3. Told(New(status)) /\ ~IsStamped(New(status))
    BY <1>4 DEF Sanity, Told, New, State, IsStamped
  <2> HIDE DEF status
  <2>4. Fits(<<status>>)
    BY <2>2, <2>3, OneFits
  <2> QED BY <1>1, <2>1, <2>4
<1>5. CASE Freshness
  <2>1. PICK status : status = CASE State = "failed" -> "Fail"
                                 [] State = "none" -> "Warn"
                                 [] OTHER -> AgeVerdict(created[Step.source][Step.feed])
    OBVIOUS
  <2>2. Report(<<status>>)
    BY <1>5, <2>1 DEF Freshness
  <2>3. status \in Statuses
    BY <2>1, AgeIsStatus DEF Statuses
  <2>4. Told(New(status))
    BY <1>5, <2>1 DEF Freshness, Told, New, State, AgeVerdict
  <2>5. IsStamped(New(status)) => status = AgeVerdict(created[Step.source][Step.feed])
    BY <1>5, <2>1 DEF Freshness, IsStamped, New, State
  <2> QED BY <1>1, <2>2, <2>3, <2>4, <2>5, OneFits
<1>6. CASE Unsampled
  <2>1. PICK status : status = IF State = "failed" THEN "Fail" ELSE "Warn"
    OBVIOUS
  <2>2. Report(<<status>>)
    BY <1>6, <2>1 DEF Unsampled
  <2>3. status \in Statuses
    BY <2>1 DEF Statuses
  <2>4. Told(New(status)) /\ ~IsStamped(New(status))
    BY <1>6, <2>1 DEF Unsampled, Samples, Told, New, State, IsStamped
  <2> QED BY <1>1, <2>2, <2>3, <2>4, OneFits
<1>7. CASE Sampled
  <2>1. PICK f \in Findings : Report(f)
    BY <1>7 DEF Sampled
  <2>2. Step.check \notin AboutFeed /\ State = "usable"
    BY <1>7 DEF Sampled, Samples, AboutFeed
  <2> QED BY <1>1, <2>1, <2>2, FindingsFit
<1>8. CASE SampleByIDPanics
  BY <1>1, <1>8 DEF SampleByIDPanics
<1> QED BY <1>3, <1>4, <1>5, <1>6, <1>7, <1>8 DEF Check

Old == DOMAIN results

\* The results of the step follow those there are.
LEMMA ReportAppends ==
    ASSUME Types, Running, NEW statuses, Fits(statuses), Report(statuses)
    PROVE  LET all == DOMAIN results' IN
           /\ results' \in Seq(Results) /\ Old \subseteq all
           /\ \A j \in Old : results'[j] = results[j]
           /\ \A j \in all \ Old :
                  \E n \in DOMAIN statuses : results'[j] = New(statuses[n])
           /\ \A j \in all \ Old, i \in Old : i < j
           /\ statuses # <<>> => all \ Old # {}
           /\ Len(statuses) = 1 => \A i, j \in all \ Old : i = j
<1> DEFINE new == [n \in DOMAIN statuses |-> New(statuses[n])]
<1>1. statuses \in Seq(Statuses) /\ results \in Seq(Results)
  BY DEF Fits, Types
<1>2. PICK m \in Nat : m = Len(statuses) /\ DOMAIN statuses = 1 .. m
  BY <1>1, LenProperties
<1>3. PICK n \in Nat : n = Len(results) /\ Old = 1 .. n
  BY <1>1, LenProperties DEF Old
<1>4. \A k \in 1 .. m : New(statuses[k]) \in Results
  BY <1>1, <1>2, StepPlace DEF New, Results
<1>5. new \in Seq(Results) /\ Len(new) = m /\ \A k \in 1 .. m : new[k] = New(statuses[k])
  <2>1. new \in [1 .. m -> Results]
    BY <1>2, <1>4
  <2> QED BY <1>2, <2>1, SeqDef
<1>6. results' = results \o new
  BY DEF Report, New
<1> HIDE DEF new
<1>7. /\ results' \in Seq(Results) /\ Len(results') = n + m
      /\ \A k \in 1 .. n + m : results'[k] = IF k <= n THEN results[k] ELSE new[k - n]
  <2>1. /\ results \o new \in Seq(Results) /\ Len(results \o new) = Len(results) + Len(new)
        /\ \A k \in 1 .. Len(results) + Len(new) :
               (results \o new)[k] = IF k <= Len(results) THEN results[k] ELSE new[k - Len(results)]
    BY <1>1, <1>5, ConcatProperties, Zenon
  <2> QED BY <1>3, <1>5, <1>6, <2>1
<1>8. DOMAIN results' = 1 .. n + m
  BY <1>7, LenProperties
<1>9. Old \subseteq DOMAIN results' /\ \A j \in Old : results'[j] = results[j]
  BY <1>3, <1>7, <1>8
<1>10. ASSUME NEW j \in (DOMAIN results') \ Old
       PROVE  j \in n + 1 .. n + m /\ \E k \in DOMAIN statuses : results'[j] = New(statuses[k])
  <2>1. j \in n + 1 .. n + m
    BY <1>3, <1>8
  <2>2. j - n \in 1 .. m /\ results'[j] = new[j - n]
    BY <1>7, <2>1
  <2> QED BY <1>2, <1>5, <2>1, <2>2
<1>11. statuses # <<>> => n + 1 \in (DOMAIN results') \ Old
  <2>1. statuses # <<>> => m > 0
    BY <1>1, <1>2, EmptySeq
  <2> QED BY <1>3, <1>8, <2>1
<1>12. Len(statuses) = 1 => \A i, j \in (DOMAIN results') \ Old : i = j
  BY <1>2, <1>10
<1>13. \A j \in (DOMAIN results') \ Old, i \in Old : i < j
  BY <1>3, <1>10
<1>14. \A j \in (DOMAIN results') \ Old :
           \E k \in DOMAIN statuses : results'[j] = New(statuses[k])
  BY <1>10
<1> QED BY <1>7, <1>9, <1>11, <1>12, <1>13, <1>14

LEMMA ReportInv ==
    ASSUME Inv, Running, NEW statuses, Fits(statuses), Report(statuses)
    PROVE  Inv'
<1> DEFINE all == DOMAIN results'
<1>1. at' = at + 1 /\ UNCHANGED inputs /\ now' = now /\ panicked' = panicked
  BY DEF Report
<1>2. /\ Plan' = Plan /\ InputsOK' = InputsOK /\ NoAgencies' = NoAgencies
      /\ \A r : Told(r)' = Told(r) /\ IsStamped(r)' = IsStamped(r)
      /\ created' = created /\ sources' = sources /\ maxAge' = maxAge
  BY <1>1, SameInputs DEF inputs
<1>3. /\ results' \in Seq(Results) /\ Old \subseteq all
      /\ \A j \in Old : results'[j] = results[j]
      /\ \A j \in all \ Old : \E n \in DOMAIN statuses : results'[j] = New(statuses[n])
      /\ \A j \in all \ Old, i \in Old : i < j
      /\ statuses # <<>> => all \ Old # {}
      /\ Len(statuses) = 1 => \A i, j \in all \ Old : i = j
  BY ReportAppends DEF Inv
<1>4. /\ at + 1 \in 1 .. Len(Plan) /\ Step = Plan[at + 1]
  BY StepPlace DEF Inv
<1>5. InputsOK /\ Len(Plan) \in Nat /\ at \in Nat
  BY PlanShape DEF Inv, Types
<1>6. all \subseteq Nat
  BY <1>3, LenProperties
<1>7. \A j \in all \ Old : results'[j].step = Plan[at + 1]
  BY <1>3, <1>4 DEF New
<1>8. \A j \in Old : \E k \in 1 .. at : results[j].step = Plan[k]
  BY DEF Inv, PlaceInv, Old
<1> HIDE DEF all
<1>9. Types'
  <2>1. Results' = Results
    BY <1>2 DEF Results
  <2>2. at' \in 0 .. Len(Plan)
    BY <1>1, <1>4
  <2> QED BY <1>1, <1>2, <1>3, <2>1, <2>2 DEF Inv, Types
<1>10. PlaceInv'
  <2>1. ASSUME NEW j \in all PROVE \E k \in 1 .. at + 1 : results'[j].step = Plan[k]
    <3>1. CASE j \in Old
      <4>1. PICK k \in 1 .. at : results[j].step = Plan[k]
        BY <1>8, <3>1
      <4>2. k \in 1 .. at + 1 /\ results'[j].step = Plan[k]
        BY <1>3, <1>5, <3>1, <4>1
      <4> QED BY <4>2
    <3>2. CASE j \notin Old
      BY <1>5, <1>7, <3>2
    <3> QED BY <3>1, <3>2
  <2>2. ASSUME NEW i \in all, NEW j \in all, i < j
        PROVE  results'[i].step.source <= results'[j].step.source
    <3>1. CASE i \in Old /\ j \in Old
      BY <1>3, <2>2, <3>1 DEF Inv, PlaceInv, Old
    <3>2. CASE i \in Old /\ j \notin Old
      <4>1. PICK k \in 1 .. at : results[i].step = Plan[k]
        BY <1>8, <3>2
      <4>2. k \in 1 .. Len(Plan) /\ k <= at + 1
        BY <1>4, <1>5
      <4>3. Plan[k].source <= Plan[at + 1].source
        BY <1>4, <1>5, <4>2, PlanOrdered
      <4> QED BY <1>3, <1>7, <3>2, <4>1, <4>3
    <3>3. CASE i \notin Old /\ j \in Old
      <4>1. j < i
        BY <1>3, <3>3
      <4>2. i \in Nat /\ j \in Nat
        BY <1>6
      <4> QED BY <2>2, <4>1, <4>2
    <3>4. CASE i \notin Old /\ j \notin Old
      <4>1. results'[i].step = Plan[at + 1] /\ results'[j].step = Plan[at + 1]
        BY <1>7, <3>4
      <4>2. Plan[at + 1].source \in Nat
        BY <1>4, <1>5, PlanOrdered
      <4> QED BY <4>1, <4>2
    <3> QED BY <3>1, <3>2, <3>3, <3>4
  <2> QED BY <1>1, <1>2, <2>1, <2>2 DEF PlaceInv, all
<1>11. OnceInv'
  <2> SUFFICES ASSUME NEW k \in 1 .. at + 1
               PROVE  /\ ResultsOf(k)' # {} \/ (Plan[k].check = "agency-union" /\ NoAgencies)
                      /\ Plan[k].check \in AboutFeed => \A i, j \in ResultsOf(k)' : i = j
    BY <1>1, <1>2 DEF OnceInv
  <2>1. ResultsOf(k)' = {j \in all : results'[j].step = Plan[k]}
    BY <1>2 DEF ResultsOf, all
  <2>2. k \in 1 .. Len(Plan)
    BY <1>4, <1>5
  <2>3. CASE k = at + 1
    <3>1. ResultsOf(k)' = all \ Old
      <4>1. \A j \in Old : results'[j].step # Plan[at + 1]
        <5> SUFFICES ASSUME NEW j \in Old, results'[j].step = Plan[at + 1] PROVE FALSE
          OBVIOUS
        <5>1. PICK l \in 1 .. at : results[j].step = Plan[l]
          BY <1>8
        <5>2. l \in 1 .. Len(Plan) /\ Plan[l] = Plan[at + 1]
          BY <1>3, <1>4, <1>5, <5>1
        <5>3. l = at + 1
          BY <1>4, <1>5, <5>2, PlanInjective
        <5> QED BY <1>5, <5>3
      <4> QED BY <1>7, <2>1, <2>3, <4>1
    <3> QED BY <1>3, <1>4, <2>3, <3>1 DEF Fits
  <2>4. CASE k # at + 1
    <3>1. k \in 1 .. at
      BY <1>5, <2>4
    <3>2. \A j \in all \ Old : results'[j].step # Plan[k]
      BY <1>4, <1>5, <1>7, <2>2, <2>4, PlanInjective
    <3>3. ResultsOf(k)' = ResultsOf(k)
      BY <1>3, <2>1, <3>2 DEF ResultsOf, Old
    <3> QED BY <3>1, <3>3 DEF Inv, OnceInv
  <2> QED BY <2>3, <2>4
<1>12. ToldInv'
  <2>1. \A j \in all : Told(results'[j])
    BY <1>3 DEF Inv, ToldInv, Old, Fits
  <2>2. \A r : Told(r)' = Told(r)
    BY <1>2
  <2> QED BY <2>1, <2>2 DEF ToldInv, all, Told, OfSource
<1>13. StaleInv'
  <2> DEFINE c(r) == created[r.step.source][r.step.feed]
  <2>1. ASSUME NEW j \in all, IsStamped(results'[j])
        PROVE  c(results'[j]) \in Int /\ maxAge \in Int /\ now \in Int
    <3>1. PICK k \in 1 .. Len(Plan) : results'[j].step = Plan[k]
      <4>1. CASE j \in Old
        <5>1. PICK k \in 1 .. at : results[j].step = Plan[k]
          BY <1>8, <4>1
        <5> QED BY <1>3, <1>4, <1>5, <4>1, <5>1
      <4>2. CASE j \notin Old
        BY <1>4, <1>7, <4>2
      <4> QED BY <4>1, <4>2
    <3>2. OfSource(Plan[k]) /\ Plan[k].check = "rt-freshness"
      BY <1>5, <2>1, <3>1, PlanSteps DEF IsStamped
    <3>3. results'[j].step.source \in DOMAIN sources /\ results'[j].step.feed \in Realtime
      BY <3>1, <3>2 DEF OfSource
    <3>4. c(results'[j]) \in Int
      BY <1>5, <2>1, <3>3 DEF IsStamped, InputsOK
    <3>5. now \in Int
      BY ValidationAssumption DEF Inv, Types
    <3> QED BY <1>5, <3>4, <3>5 DEF InputsOK
  <2>2. \A j \in Old : IsStamped(results[j]) /\ results[j].status = "Fail" =>
                           now - c(results[j]) > maxAge
    BY DEF Inv, StaleInv, Old
  <2>3. ASSUME NEW j \in all \ Old, IsStamped(results'[j])
        PROVE  results'[j].status = AgeVerdict(c(results'[j]))
    <3>1. PICK n \in DOMAIN statuses : results'[j] = New(statuses[n])
      BY <1>3
    <3>2. statuses[n] = AgeVerdict(created[Step.source][Step.feed])
      BY <2>3, <3>1 DEF Fits
    <3> QED BY <3>1, <3>2 DEF New
  <2>4. ASSUME NEW j \in all \ Old, IsStamped(results'[j])
        PROVE  results'[j].status = "Fail" <=> now - c(results'[j]) > maxAge
    <3>1. c(results'[j]) # NoTime
      BY <2>4 DEF IsStamped
    <3> QED BY <2>1, <2>3, <2>4, <3>1 DEF AgeVerdict
  <2>5. \A j \in all : IsStamped(results'[j]) /\ results'[j].status = "Fail" =>
                           now - c(results'[j]) > maxAge
    BY <1>3, <2>2, <2>4
  <2>6. ASSUME NEW i \in all, NEW j \in all, i < j,
               IsStamped(results'[i]), IsStamped(results'[j]),
               c(results'[j]) <= c(results'[i]), results'[i].status = "Fail"
        PROVE  results'[j].status = "Fail"
    <3>1. CASE j \in Old
      <4>1. i \in Old
        BY <1>3, <1>6, <2>6, <3>1
      <4> QED BY <1>3, <2>6, <3>1, <4>1 DEF Inv, StaleInv, StaleIsFinal, IsStamped, Old
    <3>2. CASE j \notin Old
      <4>1. now - c(results'[i]) > maxAge
        BY <2>5, <2>6
      <4>2. now - c(results'[j]) > maxAge
        BY <2>1, <2>6, <4>1
      <4> QED BY <2>4, <2>6, <3>2, <4>2
    <3> QED BY <3>1, <3>2
  <2>7. StaleIsFinal'
    BY <1>2, <2>6 DEF StaleIsFinal, IsStamped, all
  <2> QED BY <1>1, <1>2, <2>5, <2>7 DEF StaleInv, all
<1> QED BY <1>9, <1>10, <1>11, <1>12, <1>13 DEF Inv

\* A clock that moves on, or a crash, changes nothing that was reported.
LEMMA QuietInv ==
    ASSUME Inv, UNCHANGED <<inputs, at, results>>, now' \in Ready .. MaxTime, now <= now',
           panicked' \in BOOLEAN
    PROVE  Inv'
<1>1. /\ Plan' = Plan /\ InputsOK' = InputsOK /\ NoAgencies' = NoAgencies
      /\ created' = created /\ sources' = sources /\ maxAge' = maxAge
      /\ at' = at /\ results' = results
  BY SameInputs DEF inputs
<1>2. Types' /\ PlaceInv' /\ OnceInv' /\ ToldInv'
  <2>1. Types'
    BY <1>1 DEF Inv, Types, Results
  <2>2. PlaceInv'
    BY <1>1 DEF Inv, PlaceInv
  <2>3. \A k : ResultsOf(k)' = ResultsOf(k)
    BY <1>1 DEF ResultsOf
  <2>4. OnceInv'
    BY <1>1, <2>3 DEF Inv, OnceInv
  <2>5. ToldInv'
    BY <1>1 DEF Inv, ToldInv, Told, OfSource
  <2> QED BY <2>1, <2>2, <2>4, <2>5
<1>3. StaleIsFinal'
  BY <1>1 DEF Inv, StaleInv, StaleIsFinal
<1>4. ASSUME NEW j \in DOMAIN results, IsStamped(results[j]), results[j].status = "Fail"
      PROVE  now' - created[results[j].step.source][results[j].step.feed] > maxAge
  <2>1. now - created[results[j].step.source][results[j].step.feed] > maxAge
    BY <1>4 DEF Inv, StaleInv
  <2>2. PICK k \in 1 .. Len(Plan) : results[j].step = Plan[k]
    <3>1. PICK k \in 1 .. at : results[j].step = Plan[k]
      BY DEF Inv, PlaceInv
    <3>2. at \in 0 .. Len(Plan) /\ Len(Plan) \in Nat
      BY PlanShape DEF Inv, Types
    <3> QED BY <3>1, <3>2
  <2>3. results[j].step.source \in DOMAIN sources /\ results[j].step.feed \in Realtime
    BY <1>4, <2>2, PlanSteps DEF IsStamped, OfSource, Inv, Types
  <2>4. created[results[j].step.source][results[j].step.feed] \in Int /\ maxAge \in Int
    BY <1>4, <2>3 DEF IsStamped, Inv, Types, InputsOK
  <2>5. now \in Int /\ now' \in Int
    BY ValidationAssumption DEF Inv, Types
  <2> QED BY <2>1, <2>4, <2>5
<1>5. StaleInv'
  BY <1>1, <1>3, <1>4 DEF StaleInv, IsStamped
<1> QED BY <1>2, <1>5 DEF Inv

LEMMA InvStep == Inv /\ [Next]_vars => Inv'
<1> SUFFICES ASSUME Inv, [Next]_vars PROVE Inv'
  OBVIOUS
<1>1. now \in Int /\ now \in Ready .. MaxTime /\ Ready \in Int /\ MaxTime \in Int /\ panicked \in BOOLEAN
  BY ValidationAssumption DEF Inv, Types
<1>2. CASE Check
  <2>1. CASE \E statuses : Fits(statuses) /\ Report(statuses)
    BY <1>2, <2>1, CheckReports, ReportInv DEF Inv
  <2>2. CASE panicked' = TRUE /\ UNCHANGED <<inputs, now, at, results>>
    BY <1>1, <2>2, QuietInv
  <2> QED BY <1>2, <2>1, <2>2, CheckReports DEF Inv
<1>3. CASE Tick
  BY <1>1, <1>3, QuietInv DEF Tick
<1>4. CASE UNCHANGED vars
  BY <1>1, <1>4, QuietInv DEF vars
<1> QED BY <1>2, <1>3, <1>4 DEF Next

LEMMA Invariance == Spec => []Inv
BY InvInit, InvStep, PTL DEF Spec
-----------------------------------------------------------------------------
\* The types of Validation, for any number of sources.
THEOREM TypeCorrect == Spec => []TypeOK
<1>1. Inv => TypeOK
  <2>1. Inv => \A r \in Range(results) : r \in Results
    BY LenProperties DEF Inv, Types, Range
  <2> QED BY <2>1 DEF Inv, Types, TypeOK, Results
<1> QED BY <1>1, Invariance, PTL

\* However long the checks take and however many sources there are, a feed as old as one
\* that was found stale does not pass any more (check_freshness.go:33-48).
THEOREM StalenessFinal == Spec => []StaleIsFinal
<1>1. Inv => StaleIsFinal
  BY DEF Inv, StaleInv
<1> QED BY <1>1, Invariance, PTL

\* Whatever prepare made of the feeds, each check reports, and one about a feed as a whole
\* once; only the union of no agencies may report nothing (validator.go:26-33).
THEOREM ChecksReport == Spec => []EveryCheckReports
<1>1. Inv => EveryCheckReports
  <2> SUFFICES ASSUME Inv, Reported, NEW k \in 1 .. Len(Plan)
               PROVE  LET n == Cardinality(ResultsOf(k))
                      IN  /\ n > 0 \/ (Plan[k].check = "agency-union" /\ NoAgencies)
                          /\ Plan[k].check \in AboutFeed => n = 1
    BY DEF EveryCheckReports, ResultsOf, AboutFeed
  <2>1. IsFiniteSet(ResultsOf(k)) /\ Cardinality(ResultsOf(k)) \in Nat
    <3>1. IsFiniteSet(DOMAIN results)
      BY IndicesFinite DEF Inv, Types
    <3> QED BY <3>1, FS_Subset, FS_CardinalityType DEF ResultsOf
  <2>2. k \in 1 .. at
    BY DEF Reported
  <2>3. ResultsOf(k) # {} => Cardinality(ResultsOf(k)) # 0
    BY <2>1, FS_EmptySet
  <2>4. ASSUME ResultsOf(k) # {}, \A i, j \in ResultsOf(k) : i = j
        PROVE  Cardinality(ResultsOf(k)) = 1
    <3>1. PICK j : ResultsOf(k) = {j}
      BY <2>4
    <3> QED BY <3>1, FS_Singleton
  <2>5. Plan[k].check \in AboutFeed => Plan[k].check # "agency-union"
    BY DEF AboutFeed
  <2> QED BY <2>1, <2>2, <2>3, <2>4, <2>5 DEF Inv, OnceInv
<1> QED BY <1>1, Invariance, PTL

\* For any number of sources: of a feed that failed something fails and nothing passes or
\* warns; of a realtime feed that is empty or not configured every check of what is in it
\* warns and only an empty one fails, for a timestamp that is too old; a static feed that
\* is not usable fails the run (validator.go:26-33, the five checks, result.go:17-32).
THEOREM PreparationIsTold == Spec => []PreparationTold
<1>1. Inv => PreparationTold
  <2> SUFFICES ASSUME Inv, Reported PROVE PreparationTold
    BY DEF PreparationTold
  <2> SUFFICES ASSUME NEW s \in DOMAIN sources, NEW f \in Feeds
               PROVE  LET of == {r \in Range(results) : r.step.source = s /\ r.step.feed = f}
                          content == {r \in of : r.step.check # "rt-freshness"}
                          empty == f \in Realtime /\ sources[s][f] \in {"none", "unusable"}
                      IN  /\ content # {}
                          /\ sources[s][f] = "failed" =>
                                 (\E r \in of : r.status = "Fail")
                                 /\ \A r \in of : r.status \in {"Fail", "Skip"}
                          /\ empty =>
                                 /\ \A r \in content : r.status = "Warn"
                                 /\ \A r \in of : r.status = "Fail" =>
                                        /\ sources[s][f] = "unusable" /\ created[s][f] # NoTime
                                        /\ now - created[s][f] > maxAge
                          /\ sources[s]["staticGtfs"] # "usable" => Summary.verdict = "FAIL"
    BY DEF PreparationTold
  <2> DEFINE of == {r \in Range(results) : r.step.source = s /\ r.step.feed = f}
             content == {r \in of : r.step.check # "rt-freshness"}
             empty == f \in Realtime /\ sources[s][f] \in {"none", "unusable"}
  <2>1. InputsOK /\ at = Len(Plan) /\ s > 0 /\ s \in Nat
    BY PlanShape DEF Inv, Types, Reported
  <2>2. ASSUME NEW r \in of
        PROVE  /\ r.step.source = s /\ r.step.feed = f /\ OfSource(r.step) /\ Told(r)
               /\ IsStamped(r) /\ r.status = "Fail" => now - created[s][f] > maxAge
    <3>1. PICK j \in DOMAIN results : r = results[j]
      BY DEF Range
    <3>2. PICK k \in 1 .. Len(Plan) : r.step = Plan[k]
      BY <2>1, <3>1 DEF Inv, PlaceInv
    <3>3. OfSource(r.step)
      BY <2>1, <3>2, PlanSteps
    <3> QED BY <3>1, <3>3 DEF Inv, ToldInv, StaleInv
  <2>3. \A k \in 1 .. Len(Plan) : Plan[k].check # "agency-union" =>
            \E j \in DOMAIN results : results[j].step = Plan[k]
    BY <2>1 DEF Inv, OnceInv, ResultsOf
  <2>4. ASSUME sources[s][f] = "failed", NEW r \in of PROVE r.status = "Fail"
    BY <2>2, <2>4 DEF Told
  <2>5. ASSUME empty, NEW r \in content PROVE r.status = "Warn"
    <3>1. r \in of /\ r.step.check # "rt-freshness"
      OBVIOUS
    <3>2. r.step.check # "gtfs-sanity"
      BY <2>2, <2>5, <3>1 DEF OfSource, Realtime
    <3> QED BY <2>2, <2>5, <3>1, <3>2 DEF Told
  <2>6. ASSUME empty, NEW r \in of, r.status = "Fail"
        PROVE  /\ sources[s][f] = "unusable" /\ created[s][f] # NoTime
               /\ now - created[s][f] > maxAge
    <3>1. r.step.check = "rt-freshness"
      BY <2>5, <2>6
    <3>2. r.step.source = s /\ r.step.feed = f /\ Told(r) /\ OfSource(r.step)
      BY <2>2
    <3>3. sources[s][f] = "unusable"
      BY <2>6, <3>1, <3>2 DEF Told
    <3>4. created[s][f] # NoTime
      BY <2>6, <3>1, <3>2, <3>3 DEF Told
    <3>5. IsStamped(r)
      BY <3>1, <3>2, <3>3, <3>4 DEF IsStamped
    <3> QED BY <2>2, <2>6, <3>3, <3>4, <3>5
  <2>7. content # {}
    <3>1. PICK k \in 1 .. Len(Plan) : /\ OfSource(Plan[k]) /\ Plan[k].source = s
                                      /\ Plan[k].feed = f /\ Plan[k].check # "rt-freshness"
      BY <2>1, PlanCovers
    <3>2. PICK j \in DOMAIN results : results[j].step = Plan[k]
      BY <2>3, <3>1 DEF OfSource
    <3>3. results[j] \in content
      BY <3>1, <3>2 DEF Range
    <3> QED BY <3>3
  <2>8. ASSUME sources[s]["staticGtfs"] # "usable" PROVE Summary.verdict = "FAIL"
    <3>1. PICK k \in 1 .. Len(Plan) : OfSource(Plan[k]) /\ Plan[k].source = s
                                      /\ Plan[k].feed = "staticGtfs" /\ Plan[k].check = "gtfs-sanity"
      BY <2>1, PlanCovers
    <3>2. PICK j \in DOMAIN results : results[j].step = Plan[k]
      BY <2>3, <3>1
    <3>3. results[j].status = "Fail"
      BY <2>8, <3>1, <3>2 DEF Inv, ToldInv, Told
    <3>4. Worst = "Fail"
      BY <3>3 DEF Worst, Range
    <3> QED BY <3>4 DEF Summary
  <2> QED BY <2>4, <2>5, <2>6, <2>7, <2>8
<1> QED BY <1>1, Invariance, PTL
-----------------------------------------------------------------------------
(* The document and the text.                                              *)
Of(s) == {k \in DOMAIN results : results[k].step.source = s}
Sections == Len(sources) + 1
GroupResults == [g \in DOMAIN Groups |-> Groups[g].results]
With(rs, status) == {k \in DOMAIN rs : rs[k].status = status}

\* One group for the server and one for each source: no result is left over.
LEMMA GroupsShape ==
    ASSUME Inv
    PROVE  /\ Sections \in Nat /\ Sections > 0
           /\ DOMAIN Groups = 1 .. Sections /\ Len(Groups) = Sections
           /\ \A g \in 1 .. Sections : Groups[g] = buildGroup(g - 1)
<1>1. PICK L \in Nat : L = Len(sources) /\ DOMAIN sources = 1 .. L
  BY PlanShape DEF Inv, Types
<1>2. Leftover = {}
  <2> SUFFICES ASSUME NEW j \in DOMAIN results PROVE results[j].step.source \in 0 .. L
    BY <1>1 DEF Leftover, Range
  <2>1. PICK k \in 1 .. at : results[j].step = Plan[k]
    BY DEF Inv, PlaceInv
  <2>2. k \in 1 .. Len(Plan)
    BY PlanShape DEF Inv, Types
  <2>3. Plan[k].source = 0 \/ OfSource(Plan[k])
    BY <2>2, PlanSteps DEF Inv, Types
  <2> QED BY <1>1, <2>1, <2>3 DEF OfSource
<1> DEFINE T == {buildGroup(s) : s \in 0 .. L}
           first == <<buildGroup(0)>>
           middle == [s \in DOMAIN sources |-> buildGroup(s)]
           rest == Kept([s \in Leftover |-> buildGroup(s)], Leftover)
<1>3. first \in Seq(T) /\ Len(first) = 1 /\ first[1] = buildGroup(0)
  <2>1. buildGroup(0) \in T
    BY <1>1
  <2> QED BY <2>1
<1>4. middle \in Seq(T) /\ Len(middle) = L /\ \A s \in 1 .. L : middle[s] = buildGroup(s)
  <2>1. middle \in [1 .. L -> T]
    BY <1>1
  <2> QED BY <1>1, <2>1, SeqDef
<1>5. rest = <<>>
  <2>1. DOMAIN [i \in Leftover |-> {j \in Leftover : j < i}] = {}
    BY <1>2
  <2>2. Cardinality({}) = 0
    BY FS_EmptySet
  <2>3. DOMAIN rest = 1 .. 0
    BY <2>1, <2>2 DEF Kept, Arranged
  <2>4. rest \in [1 .. 0 -> T]
    BY <2>3 DEF Kept, Arranged
  <2>5. rest \in Seq(T) /\ Len(rest) = 0
    BY <2>4, SeqDef
  <2> QED BY <2>5, EmptySeq
<1>6. Groups = first \o middle
  <2>1. first \o middle \in Seq(T)
    BY <1>3, <1>4, ConcatProperties
  <2>2. Groups = (first \o middle) \o rest
    BY DEF Groups
  <2> HIDE DEF first, middle, rest, T
  <2> QED BY <1>5, <2>1, <2>2, ConcatEmptySeq
<1> HIDE DEF first, middle, T
<1>7. /\ Groups \in Seq(T) /\ Len(Groups) = L + 1
      /\ \A g \in 1 .. L + 1 : Groups[g] = IF g <= 1 THEN first[g] ELSE middle[g - 1]
  <2>1. /\ Groups \in Seq(T) /\ Len(Groups) = Len(first) + Len(middle)
        /\ \A g \in 1 .. Len(first) + Len(middle) :
               Groups[g] = IF g <= Len(first) THEN first[g] ELSE middle[g - Len(first)]
    BY <1>3, <1>4, <1>6, ConcatProperties
  <2> QED BY <1>1, <1>3, <1>4, <2>1
<1>8. ASSUME NEW g \in 1 .. L + 1 PROVE Groups[g] = buildGroup(g - 1)
  <2>1. CASE g = 1
    BY <1>1, <1>3, <1>7, <2>1
  <2>2. CASE g # 1
    <3>1. g - 1 \in 1 .. L
      BY <1>1, <2>2
    <3> QED BY <1>1, <1>4, <1>7, <2>2, <3>1
  <2> QED BY <2>1, <2>2
<1> QED BY <1>1, <1>7, <1>8, LenProperties DEF Sections

LEMMA GroupHolds ==
    ASSUME Inv, NEW s
    PROVE  /\ buildGroup(s).id = s
           /\ buildGroup(s).results = Kept(results, Of(s))
           /\ buildGroup(s).results \in Seq(Results)
           /\ Range(buildGroup(s).results) = {results[k] : k \in Of(s)}
           /\ \A st \in Statuses :
                  buildGroup(s).counts[st] = Cardinality(With(buildGroup(s).results, st))
<1>1. Of(s) \in SUBSET DOMAIN results /\ results \in Seq(Results)
  BY DEF Of, Inv, Types
<1>2. buildGroup(s).id = s /\ buildGroup(s).results = Kept(results, Of(s))
  BY DEF buildGroup, Of
<1>3. \A st \in Statuses : buildGroup(s).counts[st] = Cardinality(With(buildGroup(s).results, st))
  BY DEF buildGroup, Count, With
<1> QED BY <1>1, <1>2, <1>3, KeptProperties

\* The groups put together again are the results of the run.
LEMMA GroupsFlatten ==
    ASSUME Inv
    PROVE  /\ GroupResults \in Seq(Seq(Results)) /\ Len(GroupResults) = Sections
           /\ FlattenSeq(GroupResults) = results
<1>1. PICK S \in Nat : S = Sections /\ S > 0 /\ DOMAIN Groups = 1 .. S
  BY GroupsShape
<1>2. \A g \in 1 .. S : GroupResults[g] = Kept(results, Of(g - 1)) /\ GroupResults[g] \in Seq(Results)
  BY <1>1, GroupsShape, GroupHolds DEF GroupResults
<1>3. GroupResults \in Seq(Seq(Results)) /\ Len(GroupResults) = S
  <2>1. GroupResults \in [1 .. S -> Seq(Results)]
    BY <1>1, <1>2 DEF GroupResults
  <2> QED BY <1>1, <2>1, SeqDef
<1>4. PICK flat \in [0 .. S -> Seq(Results)] :
          /\ flat[0] = <<>>
          /\ \A g \in 1 .. S : flat[g] = flat[g - 1] \o GroupResults[g]
          /\ FlattenSeq(GroupResults) = flat[S]
  BY <1>3, FlattenSteps
<1>5. PICK N \in Nat : N = Len(results) /\ DOMAIN results = 1 .. N /\ results \in Seq(Results)
  BY LenProperties DEF Inv, Types
<1> DEFINE Below(g) == {k \in 1 .. N : results[k].step.source < g}
<1>6. \A k \in 1 .. N : results[k].step.source \in Nat /\ results[k].step.source < S
  <2> SUFFICES ASSUME NEW j \in 1 .. N
               PROVE  results[j].step.source \in Nat /\ results[j].step.source < S
    OBVIOUS
  <2>1. PICK k \in 1 .. at : results[j].step = Plan[k]
    BY <1>5 DEF Inv, PlaceInv
  <2>2. k \in 1 .. Len(Plan) /\ InputsOK
    BY PlanShape DEF Inv, Types
  <2>3. Plan[k].source = 0 \/ OfSource(Plan[k])
    BY <2>2, PlanSteps
  <2>4. Plan[k].source = 0 \/ Plan[k].source \in 1 .. Len(sources)
    BY <2>2, <2>3, PlanShape DEF OfSource
  <2>5. Len(sources) \in Nat /\ S = Len(sources) + 1
    BY <1>1, <2>2, PlanShape DEF Sections
  <2> QED BY <2>1, <2>4, <2>5
<1>7. \A i, j \in 1 .. N : i < j => results[i].step.source <= results[j].step.source
  BY <1>5 DEF Inv, PlaceInv
<1>8. ASSUME NEW g \in Nat PROVE \E b \in 0 .. N : Below(g) = 1 .. b
  <2>1. ASSUME NEW j \in Below(g), NEW i \in 1 .. j PROVE i \in Below(g)
    <3>1. i \in 1 .. N /\ j \in 1 .. N /\ (i = j \/ i < j)
      BY <1>5
    <3>2. results[i].step.source <= results[j].step.source
      BY <1>6, <1>7, <3>1
    <3> QED BY <1>6, <3>1, <3>2
  <2> HIDE DEF Below
  <2>2. Below(g) \in SUBSET (1 .. N)
    BY DEF Below
  <2>3. \A j \in Below(g) : 1 .. j \subseteq Below(g)
    BY <2>1
  <2> QED BY <1>5, <2>2, <2>3, PrefixSet
<1> DEFINE P == {g \in 0 .. S : \A b \in 0 .. N : Below(g) = 1 .. b => flat[g] = [p \in 1 .. b |-> results[p]]}
<1>9. 0 \in P
  <2>1. Below(0) = {}
    BY <1>6
  <2>2. \A b \in 0 .. N : 1 .. b = {} => [p \in 1 .. b |-> results[p]] = <<>>
    <3> SUFFICES ASSUME NEW b \in 0 .. N, 1 .. b = {} PROVE [p \in 1 .. b |-> results[p]] = <<>>
      OBVIOUS
    <3>1. b = 0
      BY <1>5
    <3> DEFINE none == [p \in 1 .. b |-> results[p]]
    <3>2. none \in [1 .. 0 -> Results]
      BY <3>1
    <3>3. none \in Seq(Results) /\ Len(none) = 0
      BY <3>1, <3>2, SeqDef
    <3> QED BY <3>3, EmptySeq
  <2> HIDE DEF Below
  <2>3. \A b \in 0 .. N : Below(0) = 1 .. b => flat[0] = [p \in 1 .. b |-> results[p]]
    BY <1>4, <2>1, <2>2
  <2> QED BY <1>1, <2>3
<1>10. ASSUME NEW g \in 1 .. S, g - 1 \in P PROVE g \in P
  <2> SUFFICES ASSUME NEW b \in 0 .. N, Below(g) = 1 .. b PROVE flat[g] = [p \in 1 .. b |-> results[p]]
    <3> HIDE DEF Below
    <3> QED BY <1>1
  <2>1. g - 1 \in Nat
    BY <1>1
  <2>2. PICK a \in 0 .. N : Below(g - 1) = 1 .. a
    BY <1>8, <2>1
  <2>3. flat[g - 1] = [p \in 1 .. a |-> results[p]]
    BY <1>10, <2>2
  <2>4. a <= b
    <3>1. Below(g - 1) \subseteq Below(g)
      <4> SUFFICES ASSUME NEW k \in 1 .. N, results[k].step.source < g - 1
                   PROVE  results[k].step.source < g
        OBVIOUS
      <4>1. results[k].step.source \in Nat
        BY <1>6
      <4> QED BY <1>1, <4>1
    <3>2. a \in 1 .. a => a \in 1 .. b
      BY <2>2, <3>1
    <3> QED BY <1>5, <3>2
  <2>5. Of(g - 1) = a + 1 .. b
    <3>1. \A k \in 1 .. N : k \in Of(g - 1) <=> k \in Below(g) /\ k \notin Below(g - 1)
      <4> SUFFICES ASSUME NEW k \in 1 .. N
                   PROVE  k \in Of(g - 1) <=> k \in Below(g) /\ k \notin Below(g - 1)
        OBVIOUS
      <4>1. results[k].step.source \in Nat
        BY <1>6
      <4>2. k \in Of(g - 1) <=> results[k].step.source = g - 1
        BY <1>5 DEF Of
      <4>3. k \in Below(g) <=> results[k].step.source < g
        OBVIOUS
      <4>4. k \in Below(g - 1) <=> results[k].step.source < g - 1
        OBVIOUS
      <4>5. \A t \in Nat : t = g - 1 <=> t < g /\ ~(t < g - 1)
        BY <1>1
      <4> HIDE DEF Below
      <4> QED BY <4>1, <4>2, <4>3, <4>4, <4>5, Zenon
    <3>2. \A k \in 1 .. N : k \in Of(g - 1) <=> k \in 1 .. b /\ k \notin 1 .. a
      BY <2>2, <3>1
    <3>3. Of(g - 1) \subseteq 1 .. N
      BY <1>5 DEF Of
    <3>4. a + 1 .. b \subseteq 1 .. N
      BY <1>5
    <3>5. \A k \in 1 .. N : k \in 1 .. b /\ k \notin 1 .. a <=> k \in a + 1 .. b
      BY <1>5
    <3> HIDE DEF Below
    <3> QED BY <3>2, <3>3, <3>4, <3>5
  <2>6. GroupResults[g] = [p \in 1 .. b - a |-> results[a + p]]
    <3>1. a \in Nat /\ b \in Nat /\ b <= Len(results)
      BY <1>5
    <3>2. Kept(results, a + 1 .. b) = [p \in 1 .. b - a |-> results[a + p]]
      BY <1>5, <2>4, <3>1, KeptInterval
    <3>3. GroupResults[g] = Kept(results, Of(g - 1))
      BY <1>2
    <3> QED BY <2>5, <3>2, <3>3
  <2> DEFINE l == [p \in 1 .. a |-> results[p]]
             r == [p \in 1 .. b - a |-> results[a + p]]
  <2>7. \A k \in 1 .. N : results[k] \in Results
    BY <1>5, LenProperties
  <2>8. l \in Seq(Results) /\ Len(l) = a
    <3>1. l \in [1 .. a -> Results] /\ a \in Nat
      BY <1>5, <2>7
    <3> HIDE DEF l
    <3> QED BY <3>1, ListOf
  <2>9. r \in Seq(Results) /\ Len(r) = b - a
    <3>1. r \in [1 .. b - a -> Results] /\ b - a \in Nat
      BY <1>5, <2>4, <2>7
    <3> HIDE DEF r
    <3> QED BY <3>1, ListOf
  <2>10. \A p \in 1 .. a : l[p] = results[p]
    OBVIOUS
  <2>11. \A p \in 1 .. b - a : r[p] = results[a + p]
    OBVIOUS
  <2>12. flat[g] = l \o r
    BY <1>4, <2>3, <2>6
  <2> HIDE DEF l, r, Below
  <2>13. /\ l \o r \in Seq(Results) /\ Len(l \o r) = Len(l) + Len(r)
         /\ \A k \in 1 .. Len(l) + Len(r) : (l \o r)[k] = IF k <= Len(l) THEN l[k] ELSE r[k - Len(l)]
    BY <2>8, <2>9, ConcatProperties, Zenon
  <2>14. l \o r \in Seq(Results) /\ Len(l \o r) = b
    BY <1>5, <2>8, <2>9, <2>13
  <2>15. ASSUME NEW k \in 1 .. b PROVE (l \o r)[k] = results[k]
    <3>1. CASE k <= a
      <4>1. k \in 1 .. a /\ k <= Len(l) /\ k \in 1 .. Len(l) + Len(r)
        BY <1>5, <2>4, <2>8, <2>9, <3>1
      <4>2. (l \o r)[k] = l[k]
        BY <2>13, <4>1
      <4> QED BY <2>10, <4>1, <4>2
    <3>2. CASE k > a
      <4>1. PICK q \in 1 .. b - a : k = a + q
        BY <1>5, <2>4, <3>2
      <4>2. k \in 1 .. Len(l) + Len(r) /\ ~(k <= Len(l)) /\ k - Len(l) = q
        BY <1>5, <2>4, <2>8, <2>9, <4>1
      <4>3. (l \o r)[k] = r[q]
        BY <2>13, <4>2
      <4>4. r[q] = results[a + q]
        BY <2>11
      <4> QED BY <4>1, <4>3, <4>4
    <3>3. k <= a \/ k > a
      BY <1>5
    <3> QED BY <3>1, <3>2, <3>3
  <2>16. l \o r = [p \in 1 .. b |-> results[p]]
    <3>1. l \o r \in [1 .. b -> Results]
      BY <2>14, LenProperties
    <3> QED BY <2>15, <3>1
  <2> QED BY <2>12, <2>16
<1>11. flat[S] = results
  <2>1. 0 .. S \subseteq P
    <3> HIDE DEF P
    <3> QED BY <1>1, <1>9, <1>10, Induction
  <2>2. Below(S) = 1 .. N
    BY <1>6
  <2>3. S \in 0 .. S /\ N \in 0 .. N
    BY <1>1, <1>5
  <2>4. flat[S] = [p \in 1 .. N |-> results[p]]
    BY <2>1, <2>2, <2>3
  <2>5. results = [p \in 1 .. N |-> results[p]]
    BY <1>5, LenProperties
  <2> QED BY <2>4, <2>5
<1> QED BY <1>1, <1>3, <1>4, <1>11

LEMMA WithFinite ==
    ASSUME NEW S, NEW rs \in Seq(S), NEW st
    PROVE  IsFiniteSet(With(rs, st)) /\ Cardinality(With(rs, st)) \in Nat
BY IndicesFinite, FS_Subset, FS_CardinalityType DEF With

\* Results that are put together are counted together.
LEMMA WithConcat ==
    ASSUME NEW S, NEW a \in Seq(S), NEW b \in Seq(S), NEW st
    PROVE  Cardinality(With(a \o b, st)) = Cardinality(With(a, st)) + Cardinality(With(b, st))
<1>1. PICK n \in Nat : n = Len(a) /\ DOMAIN a = 1 .. n
  BY LenProperties
<1>2. PICK m \in Nat : m = Len(b) /\ DOMAIN b = 1 .. m
  BY LenProperties
<1>3. /\ a \o b \in Seq(S) /\ Len(a \o b) = n + m
      /\ \A k \in 1 .. n + m : (a \o b)[k] = IF k <= n THEN a[k] ELSE b[k - n]
  <2>1. /\ a \o b \in Seq(S) /\ Len(a \o b) = Len(a) + Len(b)
        /\ \A k \in 1 .. Len(a) + Len(b) : (a \o b)[k] = IF k <= Len(a) THEN a[k] ELSE b[k - Len(a)]
    BY ConcatProperties, Zenon
  <2> QED BY <1>1, <1>2, <2>1
<1>4. DOMAIN (a \o b) = 1 .. n + m
  BY <1>3, LenProperties
<1> DEFINE A == With(a, st)
           B == With(b, st)
           shift == [k \in B |-> n + k]
           Shifted == {n + k : k \in B}
<1>5. /\ IsFiniteSet(A) /\ Cardinality(A) \in Nat /\ A \subseteq 1 .. n
      /\ IsFiniteSet(B) /\ Cardinality(B) \in Nat /\ B \subseteq 1 .. m
  BY <1>1, <1>2, WithFinite DEF With
<1>6. IsFiniteSet(Shifted) /\ Cardinality(Shifted) = Cardinality(B)
  <2>1. shift \in Bijection(B, Shifted)
    <3>1. \A i, j \in B : n + i = n + j => i = j
      BY <1>5
    <3> HIDE DEF B
    <3> QED BY <3>1 DEF Bijection, Injection, Surjection, IsInjective
  <2> HIDE DEF shift, B, Shifted
  <2> QED BY <1>5, <2>1, FS_Bijection DEF ExistsBijection
<1>7. ASSUME NEW k \in 1 .. n + m
      PROVE  k \in With(a \o b, st) <=> k \in A \cup Shifted
  <2>1. CASE k <= n
    <3>1. k \in 1 .. n /\ (a \o b)[k] = a[k] /\ k \notin Shifted
      BY <1>3, <1>5, <2>1
    <3> QED BY <1>1, <1>4, <3>1 DEF With
  <2>2. CASE ~(k <= n)
    <3>1. PICK q \in 1 .. m : k = n + q
      <4>1. k - n \in 1 .. m /\ k = n + (k - n)
        BY <2>2
      <4> QED BY <4>1
    <3>2. (a \o b)[k] = b[q] /\ k \notin A
      <4>1. k - n = q
        BY <3>1
      <4> QED BY <1>3, <1>5, <2>2, <4>1
    <3>3. k \in Shifted <=> q \in B
      <4>1. \A i \in B : n + i = n + q => i = q
        BY <1>5
      <4> HIDE DEF B
      <4> QED BY <3>1, <4>1
    <3> QED BY <1>2, <1>4, <3>2, <3>3 DEF With
  <2> QED BY <2>1, <2>2
<1>8. With(a \o b, st) = A \cup Shifted
  <2>1. With(a \o b, st) \subseteq 1 .. n + m
    BY <1>4 DEF With
  <2>2. A \cup Shifted \subseteq 1 .. n + m
    BY <1>5
  <2> HIDE DEF A, Shifted
  <2> QED BY <1>7, <2>1, <2>2
<1>9. A \cap Shifted = {}
  BY <1>5
<1> HIDE DEF A, B, Shifted
<1>10. Cardinality(A \cup Shifted) = Cardinality(A) + Cardinality(Shifted) - Cardinality({})
  BY <1>5, <1>6, <1>9, FS_Union
<1> QED BY <1>5, <1>6, <1>8, <1>10, FS_EmptySet DEF A, B

\* Every result has one of the four statuses.
LEMMA StatusesCounted ==
    ASSUME NEW rs \in Seq(Results)
    PROVE  LET n(st) == Cardinality(With(rs, st))
           IN  n("Pass") + n("Warn") + n("Fail") + n("Skip") = Len(rs)
<1> DEFINE P == With(rs, "Pass")
           W == With(rs, "Warn")
           F == With(rs, "Fail")
           K == With(rs, "Skip")
<1>1. /\ IsFiniteSet(P) /\ Cardinality(P) \in Nat /\ IsFiniteSet(W) /\ Cardinality(W) \in Nat
      /\ IsFiniteSet(F) /\ Cardinality(F) \in Nat /\ IsFiniteSet(K) /\ Cardinality(K) \in Nat
  BY WithFinite
<1>2. P \cap W = {} /\ (P \cup W) \cap F = {} /\ ((P \cup W) \cup F) \cap K = {}
  BY DEF With
<1>3. ((P \cup W) \cup F) \cup K = DOMAIN rs
  <2>1. \A k \in DOMAIN rs : rs[k] \in Results
    BY LenProperties
  <2>2. \A k \in DOMAIN rs : rs[k].status \in Statuses
    BY <2>1 DEF Results
  <2> QED BY <2>2 DEF With, Statuses
<1>4. Cardinality(DOMAIN rs) = Len(rs)
  BY IndicesFinite
<1> HIDE DEF P, W, F, K
<1>5. IsFiniteSet(P \cup W) /\ Cardinality(P \cup W) = Cardinality(P) + Cardinality(W) - Cardinality({})
  BY <1>1, <1>2, FS_Union
<1>6. /\ IsFiniteSet((P \cup W) \cup F)
      /\ Cardinality((P \cup W) \cup F) = Cardinality(P \cup W) + Cardinality(F) - Cardinality({})
  BY <1>1, <1>2, <1>5, FS_Union
<1>7. Cardinality(((P \cup W) \cup F) \cup K)
          = Cardinality((P \cup W) \cup F) + Cardinality(K) - Cardinality({})
  BY <1>1, <1>2, <1>6, FS_Union
<1>8. Cardinality({}) = 0
  BY FS_EmptySet
<1> QED BY <1>1, <1>3, <1>4, <1>5, <1>6, <1>7, <1>8 DEF P, W, F, K

\* What the summary adds up from its groups is what the run's results count.
LEMMA CountTotals ==
    ASSUME Inv, NEW st \in Statuses
    PROVE  Summary.counts[st] = Cardinality(With(results, st))
<1> DEFINE counts == [g \in DOMAIN Groups |-> Groups[g].counts[st]]
<1>1. PICK S \in Nat : S = Sections /\ DOMAIN Groups = 1 .. S
  BY GroupsShape
<1>2. GroupResults \in Seq(Seq(Results)) /\ Len(GroupResults) = S
  BY <1>1, GroupsFlatten
<1>3. \A g \in 1 .. S : GroupResults[g] \in Seq(Results)
                        /\ counts[g] = Cardinality(With(GroupResults[g], st))
  BY <1>1, GroupsShape, GroupHolds DEF GroupResults
<1>4. counts \in Seq(Nat) /\ Len(counts) = S
  <2>1. \A g \in 1 .. S : counts[g] \in Nat
    <3> HIDE DEF counts
    <3> QED BY <1>3, WithFinite
  <2>2. counts \in [1 .. S -> Nat]
    BY <1>1, <2>1
  <2> QED BY <1>1, <2>2, SeqDef
<1>5. Summary.counts[st] = Total(counts)
  BY DEF Summary
<1> HIDE DEF counts
<1>6. PICK sum \in [0 .. S -> Nat] :
          /\ sum[0] = 0
          /\ \A g \in 1 .. S : sum[g] = sum[g - 1] + counts[g]
          /\ Total(counts) = sum[S]
  BY <1>4, TotalSums
<1>7. PICK flat \in [0 .. S -> Seq(Results)] :
          /\ flat[0] = <<>>
          /\ \A g \in 1 .. S : flat[g] = flat[g - 1] \o GroupResults[g]
          /\ FlattenSeq(GroupResults) = flat[S]
  BY <1>2, FlattenSteps
<1> DEFINE P == {g \in 0 .. S : sum[g] = Cardinality(With(flat[g], st))}
<1>8. 0 \in P
  <2>1. With(<<>>, st) = {}
    BY DEF With
  <2>2. Cardinality({}) = 0
    BY FS_EmptySet
  <2>3. sum[0] = Cardinality(With(flat[0], st))
    BY <1>6, <1>7, <2>1, <2>2, Zenon
  <2> QED BY <1>1, <2>3
<1>9. ASSUME NEW g \in 1 .. S, g - 1 \in P PROVE g \in P
  <2>1. flat[g - 1] \in Seq(Results) /\ GroupResults[g] \in Seq(Results)
    BY <1>3, <1>7, <1>9
  <2>2. Cardinality(With(flat[g - 1] \o GroupResults[g], st))
            = Cardinality(With(flat[g - 1], st)) + Cardinality(With(GroupResults[g], st))
    BY <2>1, WithConcat
  <2>3. sum[g] = Cardinality(With(flat[g], st))
    BY <1>3, <1>6, <1>7, <1>9, <2>2
  <2> QED BY <1>1, <2>3
<1>10. 0 .. S \subseteq P
  <2> HIDE DEF P
  <2> QED BY <1>1, <1>8, <1>9, Induction
<1>11. S \in P
  BY <1>1, <1>10
<1> QED BY <1>5, <1>6, <1>7, <1>11, GroupsFlatten

LEMMA VerdictCounts ==
    ASSUME Inv
    PROVE  (Summary.verdict = "FAIL") <=> \E g \in Range(Groups) : g.counts["Fail"] > 0
<1>1. Summary.verdict = "FAIL" <=> \E k \in DOMAIN results : results[k].status = "Fail"
  BY DEF Summary, Worst, Range
<1>2. PICK S \in Nat : S = Sections /\ DOMAIN Groups = 1 .. S
  BY GroupsShape
<1>3. ASSUME NEW g \in 1 .. S
      PROVE  Groups[g].counts["Fail"] > 0 <=> \E k \in Of(g - 1) : results[k].status = "Fail"
  <2> DEFINE rs == buildGroup(g - 1).results
  <2>1. /\ Groups[g] = buildGroup(g - 1) /\ rs \in Seq(Results)
        /\ Range(rs) = {results[k] : k \in Of(g - 1)}
        /\ Groups[g].counts["Fail"] = Cardinality(With(rs, "Fail"))
    BY <1>2, GroupsShape, GroupHolds DEF Statuses
  <2> HIDE DEF rs
  <2>2. Cardinality(With(rs, "Fail")) > 0 <=> With(rs, "Fail") # {}
    BY <2>1, WithFinite, FS_EmptySet
  <2>3. With(rs, "Fail") # {} <=> \E r \in Range(rs) : r.status = "Fail"
    BY DEF With, Range
  <2> QED BY <2>1, <2>2, <2>3
<1>4. \A k \in DOMAIN results : \E g \in 1 .. S : k \in Of(g - 1)
  <2> SUFFICES ASSUME NEW j \in DOMAIN results PROVE \E g \in 1 .. S : j \in Of(g - 1)
    OBVIOUS
  <2>1. PICK k \in 1 .. at : results[j].step = Plan[k]
    BY DEF Inv, PlaceInv
  <2>2. k \in 1 .. Len(Plan) /\ InputsOK
    BY PlanShape DEF Inv, Types
  <2>3. Plan[k].source \in 0 .. Len(sources)
    BY <2>2, PlanSteps, PlanShape DEF OfSource
  <2>4. results[j].step.source + 1 \in 1 .. S /\ results[j].step.source = (results[j].step.source + 1) - 1
    BY <1>2, <2>1, <2>2, <2>3, PlanShape DEF Sections
  <2> QED BY <2>4 DEF Of
<1>5. (\E g \in Range(Groups) : g.counts["Fail"] > 0) <=> \E g \in 1 .. S : Groups[g].counts["Fail"] > 0
  BY <1>2 DEF Range
<1>6. \A g : Of(g) \subseteq DOMAIN results
  BY DEF Of
<1> QED BY <1>1, <1>3, <1>4, <1>5, <1>6

\* For any number of sources and of results: the groups of the document hold every result
\* once and in order, under the server and its sources, and the totals and the verdict are
\* those of the groups (document.go:131-161, 200-218).
THEOREM DocumentHoldsAll == Spec => []DocumentComplete
<1>1. Inv => DocumentComplete
  <2> SUFFICES ASSUME Inv PROVE DocumentComplete
    OBVIOUS
  <2>1. FlattenSeq([g \in DOMAIN Groups |-> Groups[g].results]) = results
    BY GroupsFlatten DEF GroupResults
  <2>2. [g \in DOMAIN Groups |-> Groups[g].id] = [g \in 1 .. Len(sources) + 1 |-> g - 1]
    BY GroupsShape, GroupHolds DEF Sections
  <2>3. Summary.total = Summary.counts["Pass"] + Summary.counts["Warn"]
                            + Summary.counts["Fail"] + Summary.counts["Skip"]
    <3>1. \A st \in Statuses : Summary.counts[st] = Cardinality(With(results, st))
      BY CountTotals
    <3>2. Summary.total = Len(results)
      BY DEF Summary
    <3>3. results \in Seq(Results)
      BY DEF Inv, Types
    <3> QED BY <3>1, <3>2, <3>3, StatusesCounted DEF Statuses
  <2>4. (Summary.verdict = "FAIL") = (\E g \in Range(Groups) : g.counts["Fail"] > 0)
    BY VerdictCounts
  <2> QED BY <2>1, <2>2, <2>3, <2>4 DEF DocumentComplete
<1> QED BY <1>1, Invariance, PTL

\* For any run: the text tells under each source what the document has in its group, and
\* the two agree in their totals (report.go:60-84, document.go:200-218).
THEOREM TextTellsTheSame == Spec => []TextAgrees
<1>1. Inv => TextAgrees
  <2> SUFFICES ASSUME Inv PROVE TextAgrees
    OBVIOUS
  <2> DEFINE lines == WriteText.lines
             line(k) == <<results[k].step.source, results[k].status>>
  <2>1. lines = [k \in DOMAIN results |-> line(k)]
    BY DEF WriteText, TextWith
  <2>2. ASSUME NEW g \in Range(Groups)
        PROVE  Kept(lines, {k \in DOMAIN lines : lines[k][1] = g.id})
                   = [k \in DOMAIN g.results |-> <<g.id, g.results[k].status>>]
    <3>1. PICK s : g = buildGroup(s)
      BY GroupsShape DEF Range
    <3>2. g.id = s /\ g.results = Kept(results, Of(s))
      BY <3>1, GroupHolds
    <3>3. Of(s) \in SUBSET DOMAIN results /\ results \in Seq(Results)
      BY DEF Of, Inv, Types
    <3>4. {k \in DOMAIN lines : lines[k][1] = g.id} = Of(s)
      BY <2>1, <3>2 DEF Of
    <3>5. PICK place \in [1 .. Cardinality(Of(s)) -> Of(s)] :
              \A list : Kept(list, Of(s)) = [p \in 1 .. Cardinality(Of(s)) |-> list[place[p]]]
      BY <3>3, KeptByPlaces
    <3>6. g.results = [p \in 1 .. Cardinality(Of(s)) |-> results[place[p]]]
      BY <3>2, <3>5
    <3>7. Kept(lines, Of(s)) = [p \in 1 .. Cardinality(Of(s)) |-> lines[place[p]]]
      BY <3>5
    <3>8. \A p \in 1 .. Cardinality(Of(s)) : lines[place[p]] = <<s, results[place[p]].status>>
      BY <2>1, <3>3 DEF Of
    <3>9. DOMAIN g.results = 1 .. Cardinality(Of(s))
          /\ \A p \in 1 .. Cardinality(Of(s)) : g.results[p] = results[place[p]]
      BY <3>6
    <3> HIDE DEF lines
    <3>10. Kept(lines, Of(s)) = [p \in 1 .. Cardinality(Of(s)) |-> <<s, g.results[p].status>>]
      BY <3>7, <3>8, <3>9
    <3> QED BY <3>2, <3>4, <3>9, <3>10
  <2>3. WriteText.verdict = Summary.verdict /\ WriteText.checks = Summary.total
    BY DEF WriteText, TextWith, Summary
  <2>4. \A st \in Statuses : Summary.counts[st] = Count(results, st)
    BY CountTotals DEF Count, With
  <2>5. WriteText.failed = Summary.counts["Fail"] /\ WriteText.warnings = Summary.counts["Warn"]
    BY <2>4 DEF WriteText, TextWith, Statuses
  <2> QED BY <2>2, <2>3, <2>5 DEF TextAgrees
<1> QED BY <1>1, Invariance, PTL
=============================================================================
