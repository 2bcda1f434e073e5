----------------------- MODULE VehicleSamplingProofs ------------------------
(***************************************************************************)
(* Proofs about VehicleSampling, for any fleet, any agencies, static feed  *)
(* and mapping, and any sample size.                                       *)
(***************************************************************************)
EXTENDS VehicleSampling, HelperProofs

Sample == sampleByID(Candidates, sampleSize)
Judged == {r.vehicle : r \in results}
Current == IF pc \in Steps THEN {cur} ELSE {}

\* The questions asked about the current vehicle.
Made ==
    CASE pc = "vehicles-for-agency" -> {}
      [] pc = "trip-for-vehicle" -> {"vehicles-for-agency"}
      [] pc = "trips-for-location" -> {"vehicles-for-agency", "trip-for-vehicle"}
      [] OTHER -> Steps

InputsOK ==
    /\ feed \in Seq(Fleet) /\ Unique(feed)
    /\ sampleSize \in Nat \ {0}
    /\ server \in {"faithful", "silent", "arbitrary"}
    /\ StaticFeedAndMapping(static, mapping)

WorldInv ==
    /\ doing \in [Fleet -> {"feed", "none", "next", "gone"}]
    /\ near \subseteq Fleet

\* The vehicle being judged is one of the sample, under an agency it resolves to.
CurInv ==
    /\ pc \in Steps \cup {"start", "next", "done"}
    /\ cur \in Fleet \cup {NoRef} /\ agency \in Id
    /\ pc = "start" => cur = NoRef
    /\ pc \in Steps => /\ cur \in Range(Sample) /\ cur.trip # NoRef
                       /\ agency \in Resolved(cur.trip, cur.route)

TodoInv ==
    /\ todo \in Seq(Fleet) /\ Unique(todo) /\ Len(todo) <= sampleSize
    /\ pc \in {"start", "done"} => todo = <<>>
    /\ pc \in Steps \cup {"next"} => feed # <<>>

\* The vehicles judged, the one being judged and those left make up the sample, none
\* of them twice.
SplitInv ==
    pc # "start" /\ feed # <<>> =>
        /\ Judged \cup Current \cup Range(todo) = Range(Sample)
        /\ Range(todo) \cap (Judged \cup Current) = {}
        /\ \A v \in Judged \ Current : StepsOf(v) \in {{"agency"}, Steps}
        /\ \A v \in Current : StepsOf(v) = Made

ResultsInv ==
    /\ pc = "start" => results = {}
    /\ \A r \in results : /\ r = Verdict(r.vehicle, r.step, r.status)
                          /\ r.vehicle \in Range(feed) \cup {NoRef}
                          /\ r.step # "feed" => r.vehicle \in Range(feed)
                          /\ r.step \in Steps \cup {"feed", "agency"}
                          /\ r.status \in {"Pass", "Warn", "Fail"}

FrameInv == InputsOK /\ WorldInv /\ CurInv /\ TodoInv /\ SplitInv /\ ResultsInv
-----------------------------------------------------------------------------
LEMMA CandidatesProperties ==
    ASSUME InputsOK
    PROVE  /\ Candidates \in Seq(Fleet) /\ Unique(Candidates)
           /\ Range(Candidates) \subseteq Range(feed)
<1> DEFINE both == {i \in DOMAIN feed : feed[i].trip # NoRef /\ feed[i].position # "none"}
<1>1. feed \in Seq(Fleet) /\ Unique(feed) /\ both \in SUBSET DOMAIN feed
  BY DEF InputsOK
<1>2. Candidates = IF both = {} THEN feed ELSE Kept(feed, both)
  BY DEF Candidates
<1> HIDE DEF both
<1>3. /\ Kept(feed, both) \in Seq(Fleet) /\ Unique(Kept(feed, both))
      /\ Range(Kept(feed, both)) = {feed[i] : i \in both}
  BY <1>1, KeptProperties
<1>4. {feed[i] : i \in both} \subseteq Range(feed)
  BY <1>1 DEF Range
<1> QED BY <1>1, <1>2, <1>3, <1>4

LEMMA SampleProperties ==
    ASSUME InputsOK
    PROVE  /\ Sample \in Seq(Fleet) /\ Unique(Sample)
           /\ Range(Sample) \subseteq Range(feed) /\ Range(Sample) \subseteq Fleet
           /\ Range(feed) \subseteq Fleet
           /\ Len(Sample) \in Nat /\ Len(Sample) <= sampleSize
           /\ SmallestChosen(Range(Sample), Candidates, sampleSize)
<1>1. /\ Candidates \in Seq(Fleet) /\ Unique(Candidates)
      /\ Len(Candidates) \in Nat /\ Candidates \in [1 .. Len(Candidates) -> Fleet]
      /\ DOMAIN Candidates = 1 .. Len(Candidates)
      /\ Range(Candidates) \subseteq Range(feed)
  BY CandidatesProperties, LenProperties
<1>2. OrderedIds({Candidates[i].id : i \in DOMAIN Candidates})
  <2>1. OrderedIds({v.id : v \in Fleet})
    BY FleetAssumption
  <2>2. {Candidates[i].id : i \in DOMAIN Candidates} \subseteq {v.id : v \in Fleet}
    BY <1>1
  <2> QED BY <2>1, <2>2 DEF OrderedIds
<1>3. sampleSize \in Nat
  BY DEF InputsOK
<1>4. /\ Sample \in Seq(Fleet) /\ Unique(Sample)
      /\ Len(Sample) = IF sampleSize < Len(Candidates) THEN sampleSize ELSE Len(Candidates)
      /\ Range(Sample) \subseteq Range(Candidates)
      /\ SmallestChosen(Range(Sample), Candidates, sampleSize)
  BY <1>1, <1>2, <1>3, SampleChosen DEF Sample
<1>5. Range(feed) \subseteq Fleet
  BY LenProperties DEF InputsOK, Range
<1> QED BY <1>1, <1>3, <1>4, <1>5

LEMMA InputsStay ==
    ASSUME [Next]_vars
    PROVE  /\ UNCHANGED inputs
           /\ Sample' = Sample /\ Candidates' = Candidates
           /\ InputsOK => InputsOK'
           /\ \A t, r : Resolved(t, r)' = Resolved(t, r)
           /\ \A v : ToldApart(v)' = ToldApart(v)
           /\ MappingRight' = MappingRight
<1>1. UNCHANGED inputs
  BY DEF Next, Check, Start, Judge, AskVehicles, AskTrip, AskLocation, Finish, Move, vars
<1>2. UNCHANGED <<static, mapping, feed, sampleSize, server, naming>>
  BY <1>1 DEF inputs
<1>3. Candidates' = Candidates
  BY <1>2 DEF Candidates
<1>4. Sample' = Sample
  BY <1>2, <1>3 DEF Sample
<1>5. InputsOK => InputsOK'
  BY <1>2 DEF InputsOK
<1>6. \A t, r : Resolved(t, r)' = Resolved(t, r)
  BY <1>2 DEF Resolved, TripAgency, RouteAgency, MapAgency
<1>7. \A g : MapAgency(g)' = MapAgency(g)
  BY <1>2 DEF MapAgency
<1>8. \A v : ServedId(v)' = ServedId(v)
  BY <1>2 DEF ServedId
<1>9. \A v : ToldApart(v)' = ToldApart(v)
  BY <1>6, <1>7, <1>8 DEF ToldApart
<1>10. MappingRight' = MappingRight
  BY <1>7 DEF MappingRight
<1> QED BY <1>1, <1>3, <1>4, <1>5, <1>6, <1>9, <1>10

\* One result more.
LEMMA OneResult ==
    ASSUME NEW v, NEW step, NEW status, results' = results \cup {Verdict(v, step, status)}
    PROVE  /\ Judged' = Judged \cup {v}
           /\ \A w : StepsOf(w)' = IF w = v THEN StepsOf(w) \cup {step} ELSE StepsOf(w)
           /\ v \notin Judged => StepsOf(v) = {}
           /\ \A w : StepsOf(w) # {} => w \in Judged
<1> DEFINE new == Verdict(v, step, status)
<1>1. new.vehicle = v /\ new.step = step
  BY DEF Verdict
<1> HIDE DEF new
<1>2. Judged' = Judged \cup {v}
  <2>1. \A x : x \in Judged' <=> \E r \in results \cup {new} : x = r.vehicle
    BY DEF Judged, new
  <2> QED BY <1>1, <2>1 DEF Judged
<1>3. ASSUME NEW w PROVE StepsOf(w)' = IF w = v THEN StepsOf(w) \cup {step} ELSE StepsOf(w)
  <2>1. \A x : x \in StepsOf(w)' <=> \E r \in results \cup {new} : r.vehicle = w /\ x = r.step
    BY DEF StepsOf, new
  <2>2. \A x : x \in StepsOf(w) <=> \E r \in results : r.vehicle = w /\ x = r.step
    BY DEF StepsOf
  <2>3. \A x : x \in StepsOf(w)' <=> x \in StepsOf(w) \/ (w = v /\ x = step)
    BY <1>1, <2>1, <2>2
  <2>4. CASE w = v
    BY <2>3, <2>4
  <2>5. CASE w # v
    BY <2>3, <2>5
  <2> QED BY <2>4, <2>5
<1>4. \A w : StepsOf(w) # {} => w \in Judged
  BY DEF StepsOf, Judged
<1> QED BY <1>2, <1>3, <1>4
-----------------------------------------------------------------------------
LEMMA FeedIsSequence ==
    ASSUME NEW f \in Feeds
    PROVE  f \in Seq(Fleet) /\ Unique(f)
<1>1. PICK n \in 0 .. MaxFeed : f \in [1 .. n -> Fleet]
  BY DEF Feeds
<1>2. n \in Nat
  BY FleetAssumption
<1>3. f \in Seq(Fleet)
  BY <1>1, <1>2, SeqDef
<1> QED BY <1>3 DEF Feeds, Unique

LEMMA FrameInit == Init => FrameInv
<1> SUFFICES ASSUME Init PROVE FrameInv
  OBVIOUS
<1>1. sampleSize \in Nat \ {0} /\ StaticFeedAndMapping(static, mapping)
  BY FleetAssumption DEF Init
<1>2. feed \in Seq(Fleet) /\ Unique(feed)
  BY FeedIsSequence DEF Init
<1>3. InputsOK
  BY <1>1, <1>2 DEF InputsOK, Init
<1>4. <<>> \in Seq(Fleet) /\ Len(<<>>) = 0 /\ Unique(<<>>)
  BY EmptySeq DEF Unique, IsInjective
<1>5. TodoInv
  BY <1>1, <1>4 DEF TodoInv, Init, Steps
<1>6. CurInv
  BY BlankIsId DEF CurInv, Init, Steps
<1> QED BY <1>3, <1>5, <1>6 DEF FrameInv, WorldInv, SplitInv, ResultsInv, Init

LEMMA FrameStart == ASSUME FrameInv, Start PROVE FrameInv'
<1>1. UNCHANGED inputs /\ Sample' = Sample /\ InputsOK'
  BY InputsStay DEF FrameInv, Next, Check
<1>2. feed' = feed /\ sampleSize' = sampleSize
  BY <1>1 DEF inputs
<1>3. WorldInv'
  BY DEF FrameInv, WorldInv, Start, world
<1>4. pc = "start" /\ cur = NoRef /\ cur' = cur /\ agency' = agency /\ results = {} /\ todo = <<>>
  BY DEF FrameInv, CurInv, ResultsInv, TodoInv, Start
<1>5. CASE feed = <<>>
  <2>1. PICK st \in {"Fail", "Warn"} : /\ pc' = "done" /\ todo' = todo
                                       /\ results' = {Verdict(NoRef, "feed", st)}
    BY <1>4, <1>5 DEF Start, Report
  <2>2. CurInv'
    BY <1>4, <2>1 DEF FrameInv, CurInv, Steps
  <2>3. TodoInv'
    BY <1>2, <1>4, <2>1 DEF FrameInv, TodoInv, Steps
  <2>4. SplitInv'
    BY <1>2, <1>5 DEF SplitInv
  <2>5. ResultsInv'
    BY <2>1 DEF ResultsInv, Verdict
  <2> QED BY <1>1, <1>3, <2>2, <2>3, <2>4, <2>5 DEF FrameInv
<1>6. CASE feed # <<>>
  <2>1. pc' = "next" /\ todo' = Sample /\ results' = {}
    BY <1>4, <1>6 DEF Start, Sample
  <2>2. CurInv'
    BY <1>4, <2>1 DEF FrameInv, CurInv, Steps
  <2>3. TodoInv'
    BY <1>2, <1>6, <2>1, SampleProperties DEF FrameInv, TodoInv, Steps
  <2>4. SplitInv'
    <3>1. Judged' = {} /\ Current' = {}
      BY <2>1 DEF Judged, Current, Steps
    <3> QED BY <1>1, <2>1, <3>1 DEF SplitInv
  <2>5. ResultsInv'
    BY <2>1 DEF ResultsInv
  <2> QED BY <1>1, <1>3, <2>2, <2>3, <2>4, <2>5 DEF FrameInv
<1> QED BY <1>5, <1>6

LEMMA ResolvedIsId ==
    ASSUME InputsOK, NEW t, NEW r, NEW a \in Resolved(t, r)
    PROVE  a \in Id
<1>1. \A g \in Id : MapAgency(g) \in Id
  BY DEF InputsOK, StaticFeedAndMapping, MapAgency
<1>2. /\ \A x \in DOMAIN RouteAgency : RouteAgency[x] \in Id
      /\ \A x \in DOMAIN TripAgency : TripAgency[x] \in Id
  BY DEF InputsOK, StaticFeedAndMapping, RouteAgency, TripAgency
<1> QED BY <1>1, <1>2 DEF Resolved

LEMMA FrameJudge == ASSUME FrameInv, Judge PROVE FrameInv'
<1>0. PICK v : v = Head(todo)
  OBVIOUS
<1> DEFINE owners == IF v.trip = NoRef THEN {} ELSE Resolved(v.trip, v.route)
<1>1. UNCHANGED inputs /\ Sample' = Sample /\ InputsOK' /\ \A t, r : Resolved(t, r)' = Resolved(t, r)
  BY InputsStay DEF FrameInv, Next, Check
<1>2. feed' = feed /\ sampleSize' = sampleSize
  BY <1>1 DEF inputs
<1>3. WorldInv'
  BY DEF FrameInv, WorldInv, Judge, world
<1>4. /\ pc = "next" /\ todo \in Seq(Fleet) /\ todo # <<>> /\ Unique(todo) /\ todo' = Tail(todo)
      /\ feed # <<>> /\ Len(todo) <= sampleSize /\ sampleSize \in Nat /\ Current = {}
  BY DEF FrameInv, InputsOK, TodoInv, Judge, Current, Steps
<1>5. /\ v \in Fleet /\ Tail(todo) \in Seq(Fleet) /\ Unique(Tail(todo))
      /\ Len(todo) \in Nat /\ Len(Tail(todo)) = Len(todo) - 1
      /\ v \in Range(todo) /\ Range(todo') = Range(todo) \ {v}
  BY <1>0, <1>4, TailRange, LoopStep
<1>6. /\ Judged \cup Range(todo) = Range(Sample) /\ Range(todo) \cap Judged = {}
      /\ \A w \in Judged : StepsOf(w) \in {{"agency"}, Steps}
  BY <1>4 DEF FrameInv, SplitInv
<1>7. v \notin Judged /\ v \in Range(Sample) /\ v \in Range(feed)
  BY <1>5, <1>6, SampleProperties DEF FrameInv
<1>8. CASE owners = {}
  <2>1. pc' = "next" /\ cur' = cur /\ agency' = agency /\ results' = results \cup {Verdict(v, "agency", "Warn")}
    BY <1>0, <1>4, <1>8 DEF Judge
  <2>2. CurInv'
    BY <1>4, <2>1 DEF FrameInv, CurInv, Steps
  <2>3. TodoInv'
    BY <1>2, <1>4, <1>5, <2>1 DEF TodoInv, Steps
  <2>4. /\ Judged' = Judged \cup {v} /\ StepsOf(v)' = {"agency"}
        /\ \A w \in Judged : StepsOf(w)' = StepsOf(w)
    BY <1>7, <2>1, OneResult
  <2>5. Current' = {}
    BY <2>1 DEF Current, Steps
  <2>6. SplitInv'
    BY <1>1, <1>5, <1>6, <2>4, <2>5 DEF SplitInv
  <2>7. ResultsInv'
    BY <1>2, <1>7, <2>1 DEF FrameInv, ResultsInv, Verdict
  <2> QED BY <1>1, <1>3, <2>2, <2>3, <2>6, <2>7 DEF FrameInv
<1>9. CASE owners # {}
  <2>1. /\ pc' = "vehicles-for-agency" /\ cur' = v /\ agency' \in owners /\ results' = results
        /\ owners = Resolved(v.trip, v.route) /\ v.trip # NoRef
    BY <1>0, <1>4, <1>9 DEF Judge
  <2>2. CurInv'
    BY <1>1, <1>5, <1>7, <2>1, ResolvedIsId DEF FrameInv, CurInv, Steps
  <2>3. TodoInv'
    BY <1>2, <1>4, <1>5, <2>1 DEF TodoInv, Steps
  <2>4. Judged' = Judged /\ \A w : StepsOf(w)' = StepsOf(w)
    BY <2>1 DEF Judged, StepsOf
  <2>5. Current' = {v} /\ Made' = {}
    BY <2>1 DEF Current, Steps, Made
  <2>6. StepsOf(v) = {}
    BY <1>7 DEF StepsOf, Judged
  <2>7. SplitInv'
    BY <1>1, <1>5, <1>6, <2>4, <2>5, <2>6 DEF SplitInv
  <2>8. ResultsInv'
    BY <1>2, <2>1 DEF FrameInv, ResultsInv
  <2> QED BY <1>1, <1>3, <2>2, <2>3, <2>7, <2>8 DEF FrameInv
<1> QED BY <1>8, <1>9

\* The three questions have the same effect: one result, and on to the next.
Asks ==
    /\ pc \in Steps
    /\ \E st \in {"Pass", "Warn", "Fail"} : results' = results \cup {Verdict(cur, pc, st)}
    /\ pc' = CASE pc = "vehicles-for-agency" -> "trip-for-vehicle"
               [] pc = "trip-for-vehicle" -> "trips-for-location"
               [] pc = "trips-for-location" -> "next"
    /\ UNCHANGED <<inputs, world, todo, cur, agency>>

LEMMA AsksOnly ==
    /\ AskVehicles => Asks
    /\ AskTrip => Asks
    /\ AskLocation => Asks
<1>1. \A ans : ListVerdict(ans) \in {"Pass", "Warn", "Fail"} /\ TripVerdict(ans) \in {"Pass", "Warn", "Fail"}
  BY DEF ListVerdict, TripVerdict
<1>2. AskVehicles => Asks
  BY <1>1 DEF AskVehicles, Asks, Report, Steps
<1>3. AskTrip => Asks
  BY <1>1 DEF AskTrip, Asks, Report, Steps
<1>4. AskLocation => Asks
  BY DEF AskLocation, Asks, Report, Steps
<1> QED BY <1>2, <1>3, <1>4

LEMMA FrameAsk == ASSUME FrameInv, Asks, [Next]_vars PROVE FrameInv'
<1>1. UNCHANGED inputs /\ Sample' = Sample /\ InputsOK' /\ \A t, r : Resolved(t, r)' = Resolved(t, r)
  BY InputsStay DEF FrameInv
<1>2. /\ feed' = feed /\ sampleSize' = sampleSize /\ todo' = todo /\ cur' = cur /\ agency' = agency
  BY <1>1 DEF inputs, Asks
<1>3. WorldInv'
  BY DEF FrameInv, WorldInv, Asks, world
<1>4. PICK st \in {"Pass", "Warn", "Fail"} : results' = results \cup {Verdict(cur, pc, st)}
  BY DEF Asks
<1>5. /\ pc \in Steps /\ pc' \in Steps \cup {"next"} /\ pc # "start" /\ pc' # "start"
      /\ feed # <<>> /\ Current = {cur} /\ cur \in Range(Sample) /\ cur \in Range(feed)
  BY SampleProperties DEF Asks, Steps, Current, FrameInv, TodoInv, CurInv
<1>6. /\ Judged \cup {cur} \cup Range(todo) = Range(Sample)
      /\ Range(todo) \cap (Judged \cup {cur}) = {}
      /\ \A v \in Judged \ {cur} : StepsOf(v) \in {{"agency"}, Steps}
      /\ StepsOf(cur) = Made
  BY <1>5 DEF FrameInv, SplitInv
<1>7. /\ Judged' = Judged \cup {cur} /\ StepsOf(cur)' = Made \cup {pc}
      /\ \A v \in Judged \ {cur} : StepsOf(v)' = StepsOf(v)
  <2>1. Judged' = Judged \cup {cur} /\ \A v : StepsOf(v)' = IF v = cur THEN StepsOf(v) \cup {pc} ELSE StepsOf(v)
    BY <1>4, OneResult
  <2> QED BY <1>2, <1>6, <2>1
<1>8. Made \cup {pc} = Made' /\ (pc' = "next" => Made' = Steps)
  BY DEF Asks, Made, Steps
<1>9. Current' = IF pc' = "next" THEN {} ELSE {cur}
  BY <1>2, <1>5 DEF Current, Steps
<1>10. SplitInv'
  <2>1. CASE pc' = "next"
    BY <1>1, <1>2, <1>6, <1>7, <1>8, <1>9, <2>1 DEF SplitInv
  <2>2. CASE pc' # "next"
    BY <1>1, <1>2, <1>6, <1>7, <1>8, <1>9, <2>2 DEF SplitInv
  <2> QED BY <2>1, <2>2
<1>11. CurInv'
  BY <1>1, <1>2, <1>5 DEF FrameInv, CurInv
<1>12. TodoInv'
  BY <1>2, <1>5 DEF FrameInv, TodoInv, Steps
<1>13. ResultsInv'
  BY <1>2, <1>4, <1>5 DEF FrameInv, ResultsInv, Verdict
<1> QED BY <1>1, <1>3, <1>10, <1>11, <1>12, <1>13 DEF FrameInv

\* The inductive invariant: the vehicles judged, the one being judged and those left are
\* the sample, and each has the results of the steps made (check_vehicles.go:35-149).
THEOREM Frame == Spec => []FrameInv
<1>1. FrameInv /\ [Next]_vars => FrameInv'
  <2> SUFFICES ASSUME FrameInv, [Next]_vars PROVE FrameInv'
    OBVIOUS
  <2>1. CASE Start
    BY <2>1, FrameStart
  <2>2. CASE Judge
    BY <2>2, FrameJudge
  <2>3. CASE AskVehicles \/ AskTrip \/ AskLocation
    BY <2>3, AsksOnly, FrameAsk
  <2>4. UNCHANGED inputs /\ Sample' = Sample /\ InputsOK' /\ \A t, r : Resolved(t, r)' = Resolved(t, r)
    BY InputsStay DEF FrameInv
  <2>5. feed' = feed /\ sampleSize' = sampleSize
    BY <2>4 DEF inputs
  <2>6. CASE Finish
    <3>1. /\ pc = "next" /\ pc' = "done" /\ todo = <<>>
          /\ UNCHANGED <<doing, near, todo, cur, agency, results>>
      BY <2>6 DEF Finish, world
    <3>2. Judged' = Judged /\ Current' = {} /\ Current = {} /\ \A v : StepsOf(v)' = StepsOf(v)
      BY <3>1 DEF Judged, Current, StepsOf, Steps
    <3>3. SplitInv'
      BY <2>4, <2>5, <3>1, <3>2 DEF FrameInv, SplitInv
    <3>4. CurInv'
      BY <3>1 DEF FrameInv, CurInv, Steps
    <3>5. TodoInv'
      BY <2>5, <3>1 DEF FrameInv, TodoInv, Steps
    <3> QED BY <2>4, <2>5, <3>1, <3>3, <3>4, <3>5 DEF FrameInv, WorldInv, ResultsInv
  <2>7. CASE UNCHANGED <<pc, todo, cur, agency, results>> /\ WorldInv'
    <3>1. Judged' = Judged /\ Current' = Current /\ Made' = Made /\ \A v : StepsOf(v)' = StepsOf(v)
      BY <2>7 DEF Judged, Current, StepsOf, Made
    <3> QED BY <2>4, <2>5, <2>7, <3>1 DEF FrameInv, CurInv, TodoInv, SplitInv, ResultsInv
  <2>8. CASE \E v \in Range(feed) : Move(v)
    <3>1. WorldInv'
      BY <2>8 DEF Move, FrameInv, WorldInv
    <3> QED BY <2>7, <2>8, <3>1 DEF Move
  <2>9. CASE UNCHANGED vars
    BY <2>7, <2>9 DEF vars, world, FrameInv, WorldInv
  <2> QED BY <2>1, <2>2, <2>3, <2>6, <2>8, <2>9 DEF Next, Check
<1> QED BY FrameInit, <1>1, PTL DEF Spec

\* The types, and a loop that never holds more vehicles than the sample size (util.go:37).
THEOREM TypeCorrect == Spec => []TypeOK
<1>1. FrameInv => TypeOK
  <2> SUFFICES ASSUME FrameInv PROVE TypeOK
    OBVIOUS
  <2>1. Range(todo) \subseteq Range(feed)
    <3>1. CASE pc = "start"
      BY <3>1 DEF FrameInv, TodoInv, Range
    <3>2. CASE pc # "start" /\ feed # <<>>
      BY <3>2, SampleProperties DEF FrameInv, SplitInv
    <3>3. CASE pc # "start" /\ feed = <<>>
      BY <3>3 DEF FrameInv, TodoInv, CurInv, Range
    <3> QED BY <3>1, <3>2, <3>3
  <2> QED BY <2>1 DEF FrameInv, WorldInv, CurInv, TodoInv, ResultsInv, TypeOK
<1> QED BY Frame, <1>1, PTL

\* Each vehicle of the sample is asked about on all three endpoints, or is unresolvable
\* (check_vehicles.go:41-148).
THEOREM VehiclesJudged == Spec => []EveryVehicleJudged
<1>1. FrameInv => EveryVehicleJudged
  <2> SUFFICES ASSUME FrameInv, pc = "done", feed # <<>>
               PROVE  /\ SmallestChosen(Judged, Candidates, sampleSize)
                      /\ \A v \in Judged : StepsOf(v) \in {{"agency"}, Steps}
    BY DEF EveryVehicleJudged, Judged
  <2>1. Current = {} /\ Range(todo) = {}
    BY DEF FrameInv, TodoInv, Current, Steps, Range
  <2>2. Judged = Range(Sample) /\ \A v \in Judged : StepsOf(v) \in {{"agency"}, Steps}
    BY <2>1 DEF FrameInv, SplitInv
  <2> QED BY <2>2, SampleProperties DEF FrameInv
<1> QED BY Frame, <1>1, PTL
-----------------------------------------------------------------------------
\* An empty list fails at the first question about a vehicle, before the others.
SilentInv ==
    server = "silent" /\ (pc \in {"trip-for-vehicle", "trips-for-location"} \/ \E r \in results : r.step \in Steps)
    => \E r \in results : r.status = "Fail"

\* A server that answers with nothing fails for the first vehicle that resolves, by its
\* empty list of vehicles (check_vehicles.go:67-69).
THEOREM SilenceFails == Spec => []SilentServerCaught
<1>1. Init => SilentInv
  BY DEF Init, SilentInv
<1>2. ASSUME FrameInv, SilentInv, [Next]_vars PROVE SilentInv'
  <2>1. server' = server
    BY <1>2, InputsStay DEF inputs
  <2>2. CASE AskVehicles /\ server = "silent"
    <3>1. PICK ans \in Answers(VehiclesOf(agency), Body({}),
                               SUBSET ({PrefixedID(agency, cur.id)} \cup Others)) :
              results' = results \cup {Verdict(cur, pc, ListVerdict(ans))}
      BY <2>2 DEF AskVehicles, Report
    <3>2. ans = Body({})
      BY <2>2, <3>1 DEF Answers
    <3>3. ListVerdict(ans) = "Fail"
      BY <3>2 DEF ListVerdict, Body
    <3>4. Verdict(cur, pc, "Fail") \in results' /\ Verdict(cur, pc, "Fail").status = "Fail"
      BY <3>1, <3>3 DEF Verdict
    <3>5. \E r \in results' : r.status = "Fail"
      BY <3>4
    <3> QED BY <3>5 DEF SilentInv
  <2>3. CASE Start
    BY <1>2, <2>1, <2>3 DEF FrameInv, ResultsInv, Start, Report, SilentInv, Steps, Verdict
  <2>4. CASE Judge
    <3>1. \/ results' = results \cup {Verdict(Head(todo), "agency", "Warn")} /\ pc' = "next"
          \/ results' = results /\ pc' = "vehicles-for-agency"
      BY <2>4 DEF Judge
    <3>2. results \subseteq results' /\ pc' \notin {"trip-for-vehicle", "trips-for-location"}
      BY <3>1
    <3>3. \A r \in results' : r.step \in Steps => r \in results
      BY <3>1 DEF Steps, Verdict
    <3> QED BY <1>2, <2>1, <3>2, <3>3 DEF SilentInv
  <2>5. CASE AskTrip \/ AskLocation
    <3>1. pc \in {"trip-for-vehicle", "trips-for-location"} /\ results \subseteq results'
      BY <2>5 DEF AskTrip, AskLocation, Report
    <3> QED BY <1>2, <2>1, <3>1 DEF SilentInv
  <2>6. CASE server # "silent"
    BY <2>1, <2>6 DEF SilentInv
  <2>7. CASE Finish \/ UNCHANGED <<pc, results>>
    BY <1>2, <2>1, <2>7 DEF Finish, SilentInv
  <2>8. (\E v \in Range(feed) : Move(v)) \/ UNCHANGED vars => UNCHANGED <<pc, results>>
    BY DEF Move, vars
  <2> QED BY <1>2, <2>2, <2>3, <2>4, <2>5, <2>6, <2>7, <2>8 DEF Next, Check
<1>3. SilentInv => SilentServerCaught
  BY DEF SilentInv, SilentServerCaught
<1> QED BY Frame, <1>1, <1>2, <1>3, PTL DEF Spec
-----------------------------------------------------------------------------
\* Under its own agency the vehicle is in the list of a faithful server, which cannot
\* fail for it while it is in service.
LEMMA OwnListNoFail ==
    ASSUME FrameInv, MappingRight, pc \in Steps, ToldApart(cur)
    PROVE  /\ agency = ObaAgency[cur.agency] /\ cur \in Fleet
           /\ doing[cur] # "gone" => ListVerdict(VehiclesOf(agency)) # "Fail"
<1>1. cur \in Fleet /\ cur.agency \in DOMAIN ObaAgency
  BY SampleProperties, FleetAssumption DEF FrameInv, CurInv
<1>2. agency = MapAgency(cur.agency)
  BY DEF FrameInv, CurInv, ToldApart
<1>3. agency = ObaAgency[cur.agency]
  BY <1>1, <1>2 DEF MappingRight
<1>4. VehiclesOf(agency) = Body({ServedId(v) : v \in {v \in InService : ObaAgency[v.agency] = agency}})
  BY <1>1, <1>3 DEF VehiclesOf
<1>5. ASSUME doing[cur] # "gone"
      PROVE  VehiclesOf(agency).kind = "body" /\ ServedId(cur) \in VehiclesOf(agency).ids
  BY <1>1, <1>3, <1>4, <1>5 DEF Body, InService
<1>6. doing[cur] # "gone" => ListVerdict(VehiclesOf(agency)) # "Fail"
  BY <1>5 DEF ListVerdict
<1> QED BY <1>1, <1>3, <1>6

\* ... and its trip is that of the feed, or none, until it starts another.
LEMMA OwnTripNoFail ==
    ASSUME FrameInv, MappingRight, pc \in Steps, ToldApart(cur), doing[cur] # "next"
    PROVE  TripVerdict(TripOf(PrefixedID(agency, cur.id))) # "Fail"
<1> DEFINE ans == TripOf(PrefixedID(agency, cur.id))
           them == {v \in InService : ServedId(v) = PrefixedID(agency, cur.id)}
<1>1. agency = ObaAgency[cur.agency] /\ cur \in Fleet
  BY OwnListNoFail
<1>2. agency \in Id /\ cur.trip \in Id
  BY <1>1, FleetAssumption DEF FrameInv, CurInv
<1>3. doing[cur] \in {"feed", "none", "gone"}
  BY <1>1 DEF FrameInv, WorldInv
<1>4. \A v \in them : v = cur
  BY <1>1 DEF ToldApart, InService
<1>5. ans = IF them = {} THEN Error ELSE Body({ServedTrip(v) : v \in them})
  BY DEF TripOf
<1>6. CASE them = {}
  BY <1>5, <1>6 DEF TripVerdict, Error
<1>7. CASE them # {}
  <2>1. them = {cur} /\ doing[cur] # "gone"
    BY <1>4, <1>7 DEF InService
  <2>2. ans.kind = "body" /\ ServedTrip(cur) \in ans.ids
    BY <1>5, <2>1 DEF Body
  <2>3. CASE doing[cur] = "feed"
    <3>1. ServedTrip(cur) = PrefixedID(agency, cur.trip)
      BY <1>1, <2>3 DEF ServedTrip
    <3>2. IDMatch(ServedTrip(cur), cur.trip, agency)
      BY <1>2, <3>1, PrefixedMatches
    <3> QED BY <2>2, <3>2 DEF TripVerdict
  <2>4. CASE doing[cur] = "none"
    <3>1. ServedTrip(cur) = Blank
      BY <2>4 DEF ServedTrip
    <3> QED BY <2>2, <3>1 DEF TripVerdict
  <2> QED BY <1>3, <2>1, <2>3, <2>4
<1> QED BY <1>6, <1>7

\* Evidence-based severity: with a right mapping (MappingRight) no vehicle fails on a
\* faithful server but one that has started another trip or, for the list, gone out of
\* service, provided that the vehicle is told apart (ToldApart): the static feed gives it
\* no agency but its own, and no other vehicle is served under the id that is asked for
\* (check_vehicles.go:56-147).
THEOREM FaithfulPasses == Spec => []FaithfulServerPasses
<1>1. Init => FaithfulServerPasses
  BY DEF Init, FaithfulServerPasses
<1>2. ASSUME FrameInv, FaithfulServerPasses, [Next]_vars PROVE FaithfulServerPasses'
  <2>1. /\ server' = server /\ MappingRight' = MappingRight
        /\ \A v : ToldApart(v)' = ToldApart(v)
    BY <1>2, InputsStay DEF inputs
  <2>2. \A v \in Fleet : doing[v] \in {"next", "gone"} => doing'[v] = doing[v]
    <3>1. CASE \E x \in Range(feed) : Move(x)
      <4>1. PICK x \in Range(feed) : Move(x)
        BY <3>1
      <4>2. x \in Fleet /\ doing \in [Fleet -> {"feed", "none", "next", "gone"}]
        BY <1>2, SampleProperties DEF FrameInv, WorldInv
      <4> QED BY <4>1, <4>2 DEF Move
    <3>2. CASE doing' = doing
      BY <3>2
    <3>3. Check \/ UNCHANGED vars => doing' = doing
      BY DEF Check, Start, Judge, AskVehicles, AskTrip, AskLocation, Finish, world, vars
    <3> QED BY <1>2, <3>1, <3>2, <3>3 DEF Next
  <2>3. SUFFICES ASSUME server = "faithful", MappingRight,
                        NEW r \in results', r.status = "Fail", r.step # "feed", ToldApart(r.vehicle)
                 PROVE  \/ r \in results
                        \/ doing'[r.vehicle] = "next"
                        \/ doing'[r.vehicle] = "gone" /\ r.step = "vehicles-for-agency"
    <3>1. \A r \in results : r.step # "feed" => r.vehicle \in Fleet
      BY <1>2, SampleProperties DEF FrameInv, ResultsInv
    <3> QED BY <1>2, <2>1, <2>2, <3>1 DEF FaithfulServerPasses
  <2>4. CASE AskVehicles
    <3>1. pc \in Steps /\ results' = results \cup {Verdict(cur, pc, ListVerdict(VehiclesOf(agency)))}
      BY <2>3, <2>4 DEF AskVehicles, Report, Answers, Steps
    <3>2. (cur \in Fleet /\ doing[cur] = "gone") \/ r \in results
      BY <1>2, <2>3, <3>1, OwnListNoFail DEF Verdict
    <3> QED BY <2>2, <2>3, <2>4, <3>1, <3>2 DEF Verdict, AskVehicles
  <2>5. CASE AskTrip
    <3>1. /\ pc \in Steps
          /\ results' = results \cup {Verdict(cur, pc, TripVerdict(TripOf(PrefixedID(agency, cur.id))))}
      BY <2>3, <2>5 DEF AskTrip, Report, Answers, Steps
    <3>2. cur \in Fleet
      BY <1>2, <3>1, SampleProperties DEF FrameInv, CurInv
    <3> QED BY <1>2, <2>2, <2>3, <3>1, <3>2, OwnTripNoFail DEF Verdict
  <2>6. CASE AskLocation
    <3>1. \E st \in {"Pass", "Warn"} : results' = results \cup {Verdict(cur, pc, st)}
      BY <2>6 DEF AskLocation, Report
    <3> QED BY <2>3, <3>1 DEF Verdict
  <2>7. CASE Start
    BY <2>3, <2>7 DEF Start, Report, Verdict
  <2>8. CASE Judge
    BY <2>3, <2>8 DEF Judge, Verdict
  <2>9. CASE results' = results
    BY <2>3, <2>9
  <2>10. Finish \/ (\E v \in Range(feed) : Move(v)) \/ UNCHANGED vars => results' = results
    BY DEF Finish, Move, vars
  <2> QED BY <1>2, <2>4, <2>5, <2>6, <2>7, <2>8, <2>9, <2>10 DEF Next, Check
<1> QED BY Frame, <1>1, <1>2, PTL DEF Spec
=============================================================================
