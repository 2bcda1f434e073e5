----------------------- MODULE ArrivalsCrossrefProofs -----------------------
(***************************************************************************)
(* Proofs about ArrivalsCrossref, for any trip updates and alerts, any     *)
(* agencies, static feed and mapping, and any sample size.                 *)
(***************************************************************************)
EXTENDS ArrivalsCrossref, HelperProofs

Sample == sampleByID(Usable, sampleSize)
Judged == {r.entity : r \in results}

InputsOK ==
    /\ feed \in Seq(Entities) /\ Unique(feed)
    /\ alerts \in BOOLEAN
    /\ Range(feed) \subseteq IF alerts THEN Alerts ELSE Updates
    /\ sampleSize \in Nat \ {0}
    /\ server \in {"faithful", "silent", "arbitrary"}
    /\ StaticFeedAndMapping(static, mapping)

\* What is judged and what is left to do are the sample.
LoopInv ==
    /\ todo \in Seq(Entities)
    /\ pc \in {"start", "next", "done"}
    /\ pc = "start" => todo = <<>> /\ results = {}
    /\ pc = "next" => Usable # <<>> /\ Judged \cup Range(todo) = Range(Sample)
    /\ pc = "done" => todo = <<>> /\ Judged = IF Usable = <<>> THEN {NoRef} ELSE Range(Sample)

CountInv == IsFiniteSet(results) /\ Len(todo) + Cardinality(results) <= sampleSize

ResultsInv ==
    /\ expired \subseteq Range(feed)
    /\ \A r \in results : r = Verdict(r.entity, r.status) /\ r.status \in {"Pass", "Warn", "Fail"}

FrameInv == InputsOK /\ LoopInv /\ CountInv /\ ResultsInv
-----------------------------------------------------------------------------
LEMMA FeedIsSequence ==
    ASSUME NEW of, NEW f \in Feeds(of)
    PROVE  f \in Seq(of) /\ Unique(f) /\ Range(f) \subseteq of
<1>1. PICK n \in 0 .. MaxFeed : f \in [1 .. n -> of]
  BY DEF Feeds
<1>2. n \in Nat
  BY EntityAssumption
<1>3. f \in Seq(of)
  BY <1>1, <1>2, SeqDef
<1>4. Range(f) \subseteq of
  BY <1>1 DEF Range
<1>5. Unique(f)
  BY DEF Feeds, Unique
<1> QED BY <1>3, <1>4, <1>5

LEMMA UsableProperties ==
    ASSUME InputsOK
    PROVE  /\ Usable \in Seq(Entities) /\ Unique(Usable)
           /\ Range(Usable) \subseteq Range(feed)
           /\ \A e \in Range(Usable) : e.stop # NoRef
<1> DEFINE I == {i \in DOMAIN feed : feed[i].stop # NoRef}
<1>1. feed \in Seq(Entities) /\ Unique(feed) /\ I \in SUBSET DOMAIN feed
  BY DEF InputsOK
<1>2. Usable = Kept(feed, I)
  BY DEF Usable
<1> HIDE DEF I
<1>3. Usable \in Seq(Entities) /\ Unique(Usable) /\ Range(Usable) = {feed[i] : i \in I}
  BY <1>1, <1>2, KeptProperties
<1> QED BY <1>3 DEF I, Range

LEMMA SampleProperties ==
    ASSUME InputsOK
    PROVE  /\ Sample \in Seq(Entities) /\ Unique(Sample)
           /\ Range(Sample) \subseteq Range(Usable)
           /\ Len(Sample) \in Nat /\ Len(Sample) <= sampleSize
           /\ Usable = <<>> => Sample = <<>>
           /\ SmallestChosen(Range(Sample), Usable, sampleSize)
<1>1. /\ Usable \in Seq(Entities) /\ Unique(Usable)
      /\ Len(Usable) \in Nat /\ Usable \in [1 .. Len(Usable) -> Entities]
      /\ DOMAIN Usable = 1 .. Len(Usable)
  BY UsableProperties, LenProperties
<1>2. OrderedIds({Usable[i].id : i \in DOMAIN Usable})
  <2>1. OrderedIds({e.id : e \in Entities})
    BY EntityAssumption
  <2>2. {Usable[i].id : i \in DOMAIN Usable} \subseteq {e.id : e \in Entities}
    BY <1>1
  <2> QED BY <2>1, <2>2 DEF OrderedIds
<1>3. sampleSize \in Nat
  BY DEF InputsOK
<1>4. /\ Sample \in Seq(Entities) /\ Unique(Sample)
      /\ Len(Sample) = IF sampleSize < Len(Usable) THEN sampleSize ELSE Len(Usable)
      /\ Range(Sample) \subseteq Range(Usable)
      /\ SmallestChosen(Range(Sample), Usable, sampleSize)
  BY <1>1, <1>2, <1>3, SampleChosen DEF Sample
<1>5. Usable = <<>> => Sample = <<>>
  BY <1>3, <1>4, EmptySeq
<1> QED BY <1>1, <1>3, <1>4, <1>5

\* The inputs do not change, nor what is derived from them.
LEMMA InputsStay ==
    ASSUME [Next]_vars
    PROVE  /\ UNCHANGED inputs
           /\ Sample' = Sample /\ Usable' = Usable
           /\ InputsOK => InputsOK'
           /\ \A e : AgencyOf(e)' = AgencyOf(e) /\ AsksOwnStop(e)' = AsksOwnStop(e)
<1>1. UNCHANGED inputs
  BY DEF Next, Check, Start, Judge, Finish, Expire, vars
<1>2. UNCHANGED <<static, mapping, alerts, feed, sampleSize, server>>
  BY <1>1 DEF inputs
<1>3. Usable' = Usable
  BY <1>2 DEF Usable
<1>4. Sample' = Sample
  BY <1>2, <1>3 DEF Sample
<1>5. InputsOK => InputsOK'
  BY <1>2 DEF InputsOK
<1>6. \A t, r : Resolved(t, r)' = Resolved(t, r)
  BY <1>2 DEF Resolved, TripAgency, RouteAgency, MapAgency
<1>7. \A g : MapAgency(g)' = MapAgency(g)
  BY <1>2 DEF MapAgency
<1>8. ASSUME NEW e PROVE AgencyOf(e)' = AgencyOf(e)
  <2>1. Resolved(e.id, e.route)' = Resolved(e.id, e.route)
    BY <1>6
  <2>2. MapAgency(static.agencies[1])' = MapAgency(static.agencies[1])
    BY <1>2, <1>7
  <2>3. CASE alerts
    BY <1>2, <2>2, <2>3 DEF AgencyOf
  <2>4. CASE ~alerts
    BY <1>2, <2>1, <2>4 DEF AgencyOf
  <2> QED BY <2>3, <2>4
<1>9. \A e : AsksOwnStop(e)' = AsksOwnStop(e)
  BY <1>8 DEF AsksOwnStop
<1> QED BY <1>1, <1>3, <1>4, <1>5, <1>8, <1>9
-----------------------------------------------------------------------------
LEMMA FrameInit == Init => FrameInv
<1> SUFFICES ASSUME Init PROVE FrameInv
  OBVIOUS
<1>1. sampleSize \in Nat \ {0}
  BY EntityAssumption DEF Init
<1>2. StaticFeedAndMapping(static, mapping)
  BY EntityAssumption DEF Init
<1>3. feed \in Seq(Entities) /\ Unique(feed) /\ Range(feed) \subseteq IF alerts THEN Alerts ELSE Updates
  <2>1. CASE alerts
    <3>1. feed \in Seq(Alerts) /\ Unique(feed) /\ Range(feed) \subseteq Alerts
      BY <2>1, FeedIsSequence DEF Init
    <3> QED BY <2>1, <3>1, SeqMonotonic DEF Entities
  <2>2. CASE ~alerts
    <3>1. feed \in Seq(Updates) /\ Unique(feed) /\ Range(feed) \subseteq Updates
      BY <2>2, FeedIsSequence DEF Init
    <3> QED BY <2>2, <3>1, SeqMonotonic DEF Entities
  <2> QED BY <2>1, <2>2
<1>4. InputsOK
  BY <1>1, <1>2, <1>3 DEF InputsOK, Init
<1>5. LoopInv /\ ResultsInv
  BY EmptySeq DEF LoopInv, ResultsInv, Init
<1>6. CountInv
  <2>1. todo = <<>> /\ results = {}
    BY DEF Init
  <2>2. Len(<<>>) = 0
    BY EmptySeq
  <2> QED BY <1>1, <2>1, <2>2, FS_EmptySet DEF CountInv
<1> QED BY <1>4, <1>5, <1>6 DEF FrameInv

LEMMA FrameStart == ASSUME FrameInv, Start PROVE FrameInv'
<1>1. UNCHANGED inputs /\ Sample' = Sample /\ Usable' = Usable /\ InputsOK'
  BY InputsStay DEF FrameInv, Next, Check
<1>2. /\ Sample \in Seq(Entities) /\ Len(Sample) \in Nat /\ Len(Sample) <= sampleSize
      /\ Usable = <<>> => Sample = <<>>
  BY SampleProperties DEF FrameInv
<1>3. /\ todo' = Sample /\ results = {} /\ expired' = expired /\ feed' = feed
      /\ sampleSize' = sampleSize /\ sampleSize \in Nat \ {0}
  BY DEF FrameInv, LoopInv, InputsOK, Start, Sample, inputs
<1>4. CASE Usable = <<>>
  <2>1. PICK st \in {"Fail", "Warn"} : pc' = "done" /\ results' = {Verdict(NoRef, st)}
    BY <1>4 DEF Start
  <2>2. Judged' = {NoRef}
    BY <2>1 DEF Judged, Verdict
  <2>3. todo' = <<>> /\ Len(todo') = 0
    BY <1>2, <1>3, <1>4, EmptySeq
  <2>4. LoopInv'
    BY <1>1, <1>2, <1>3, <1>4, <2>1, <2>2, <2>3 DEF LoopInv
  <2>5. IsFiniteSet(results') /\ Cardinality(results') = 1
    BY <2>1, FS_Singleton
  <2>6. CountInv'
    BY <1>3, <2>3, <2>5 DEF CountInv
  <2>7. ResultsInv'
    BY <1>3, <2>1 DEF FrameInv, ResultsInv, Verdict
  <2> QED BY <1>1, <2>4, <2>6, <2>7 DEF FrameInv
<1>5. CASE Usable # <<>>
  <2>1. pc' = "next" /\ results' = {}
    BY <1>3, <1>5 DEF Start
  <2>2. Judged' = {}
    BY <2>1 DEF Judged
  <2>3. LoopInv'
    BY <1>1, <1>2, <1>3, <1>5, <2>1, <2>2 DEF LoopInv
  <2>4. CountInv'
    BY <1>2, <1>3, <2>1, FS_EmptySet DEF CountInv
  <2>5. ResultsInv'
    BY <1>3, <2>1 DEF FrameInv, ResultsInv
  <2> QED BY <1>1, <2>3, <2>4, <2>5 DEF FrameInv
<1> QED BY <1>4, <1>5

\* What a round of the loop does: the head of the sample is asked for and judged.
LEMMA JudgeStep ==
    ASSUME FrameInv, Judge
    PROVE  LET e == Head(todo)
               obaStop == PrefixedID(AgencyOf(e), e.stop)
           IN  /\ pc = "next" /\ pc' = "next" /\ expired' = expired
               /\ e \in Range(Sample) /\ e \in Entities /\ e # NoRef
               /\ e \in Range(feed) /\ e.stop \in Id
               /\ todo \in Seq(Entities) /\ todo # <<>> /\ todo' = Tail(todo)
               /\ \E ans \in Arrivals(obaStop, PrefixedID(AgencyOf(e), e.id)) :
                      results' = results \cup {Verdict(e, StopVerdict(ans, e.id, AgencyOf(e)))}
<1> DEFINE e == Head(todo)
<1>1. pc = "next" /\ todo \in Seq(Entities) /\ todo # <<>> /\ Judged \cup Range(todo) = Range(Sample)
  BY DEF FrameInv, LoopInv, Judge
<1>2. e \in Entities /\ e \in Range(todo)
  <2>1. Head(todo) = todo[1] /\ 1 \in DOMAIN todo
    BY <1>1, EmptySeq, LenProperties
  <2> QED BY <1>1, <2>1, HeadTailProperties DEF Range
<1>3. e \in Range(Sample) /\ e \in Range(Usable) /\ e \in Range(feed) /\ e.stop # NoRef
  BY <1>1, <1>2, SampleProperties, UsableProperties DEF FrameInv
<1>4. e # NoRef /\ e.stop \in Id
  BY <1>2, <1>3, EntityAssumption
<1> QED BY <1>1, <1>2, <1>3, <1>4 DEF Judge, Ask

LEMMA FrameJudge == ASSUME FrameInv, Judge PROVE FrameInv'
<1>1. UNCHANGED inputs /\ Sample' = Sample /\ Usable' = Usable /\ InputsOK'
  BY InputsStay DEF FrameInv, Next, Check
<1>2. sampleSize' = sampleSize /\ feed' = feed /\ sampleSize \in Nat
  BY <1>1 DEF inputs, FrameInv, InputsOK
<1> DEFINE e == Head(todo)
<1>3. /\ pc = "next" /\ pc' = "next" /\ expired' = expired /\ e \in Range(Sample)
      /\ todo \in Seq(Entities) /\ todo # <<>> /\ todo' = Tail(todo)
  BY JudgeStep
<1>4. PICK st \in {"Pass", "Warn", "Fail"} : results' = results \cup {Verdict(e, st)}
  <2>1. PICK ans : results' = results \cup {Verdict(e, StopVerdict(ans, e.id, AgencyOf(e)))}
    BY JudgeStep
  <2>2. StopVerdict(ans, e.id, AgencyOf(e)) \in {"Pass", "Warn", "Fail"}
    BY DEF StopVerdict
  <2> QED BY <2>1, <2>2
<1>5. /\ Tail(todo) \in Seq(Entities) /\ Len(todo) \in Nat /\ Len(Tail(todo)) = Len(todo) - 1
      /\ Range(todo) = {e} \cup Range(Tail(todo))
  BY <1>3, TailRange
<1>6. Judged' = Judged \cup {e}
  <2>1. Verdict(e, st).entity = e
    BY DEF Verdict
  <2>2. \A x : x \in Judged' <=> \E r \in results \cup {Verdict(e, st)} : x = r.entity
    BY <1>4 DEF Judged
  <2> QED BY <2>1, <2>2 DEF Judged
<1>7. LoopInv'
  BY <1>1, <1>3, <1>5, <1>6 DEF FrameInv, LoopInv
<1>8. /\ IsFiniteSet(results')
      /\ Cardinality(results) \in Nat /\ Cardinality(results') \in Nat
      /\ Cardinality(results') <= Cardinality(results) + 1
  BY <1>4, FS_AddElement, FS_CardinalityType DEF FrameInv, CountInv
<1>9. CountInv'
  BY <1>2, <1>3, <1>5, <1>8 DEF FrameInv, CountInv
<1>10. ResultsInv'
  BY <1>2, <1>3, <1>4 DEF FrameInv, ResultsInv, Verdict
<1> QED BY <1>1, <1>7, <1>9, <1>10 DEF FrameInv

\* The inductive invariant: at every step of the loop what has a result and what is left
\* to do are the sample of the feed (check_tripupdates.go:36-65, check_alerts.go:36-58).
THEOREM Frame == Spec => []FrameInv
<1>1. FrameInv /\ [Next]_vars => FrameInv'
  <2> SUFFICES ASSUME FrameInv, [Next]_vars PROVE FrameInv'
    OBVIOUS
  <2>1. CASE Start
    BY <2>1, FrameStart
  <2>2. CASE Judge
    BY <2>2, FrameJudge
  <2>3. UNCHANGED inputs /\ Sample' = Sample /\ Usable' = Usable /\ InputsOK'
    BY InputsStay DEF FrameInv
  <2>4. feed' = feed /\ sampleSize' = sampleSize
    BY <2>3 DEF inputs
  <2>5. CASE Finish
    <3>1. /\ pc = "next" /\ pc' = "done" /\ todo = <<>> /\ todo' = todo /\ results' = results
          /\ expired' = expired
      BY <2>5 DEF Finish
    <3>2. Range(todo) = {}
      BY <3>1 DEF Range
    <3>3. LoopInv'
      BY <2>3, <3>1, <3>2 DEF FrameInv, LoopInv, Judged
    <3> QED BY <2>3, <2>4, <3>1, <3>3 DEF FrameInv, CountInv, ResultsInv
  <2>6. CASE \E e \in Range(feed) : Expire(e)
    <3>1. /\ expired' \subseteq Range(feed)
          /\ UNCHANGED <<pc, todo, results>>
      BY <2>6 DEF Expire, FrameInv, ResultsInv
    <3> QED BY <2>3, <2>4, <3>1 DEF FrameInv, LoopInv, CountInv, ResultsInv, Judged
  <2>7. CASE UNCHANGED vars
    BY <2>3, <2>4, <2>7 DEF vars, FrameInv, LoopInv, CountInv, ResultsInv, Judged
  <2> QED BY <2>1, <2>2, <2>5, <2>6, <2>7 DEF Next, Check
<1> QED BY FrameInit, <1>1, PTL DEF Spec

\* The types, and never more results than the sample size together with what is left
\* (util.go:31-41).
THEOREM TypeCorrect == Spec => []TypeOK
<1>1. FrameInv => TypeOK
  <2> SUFFICES ASSUME FrameInv PROVE TypeOK
    OBVIOUS
  <2>1. Range(Sample) \subseteq Range(feed) /\ (Usable # <<>> => Judged \subseteq Range(Sample) \cup {NoRef})
    BY SampleProperties, UsableProperties DEF FrameInv, LoopInv, Judged
  <2>2. Judged \subseteq Range(feed) \cup {NoRef}
    BY <2>1 DEF FrameInv, LoopInv, Judged
  <2>3. results \subseteq [entity : Range(feed) \cup {NoRef}, status : {"Pass", "Warn", "Fail"}]
    <3> SUFFICES ASSUME NEW r \in results
                 PROVE  r \in [entity : Range(feed) \cup {NoRef}, status : {"Pass", "Warn", "Fail"}]
      OBVIOUS
    <3>1. r.entity \in Judged
      BY DEF Judged
    <3> QED BY <2>2, <3>1 DEF FrameInv, ResultsInv, Verdict
  <2>4. Range(todo) \subseteq Range(feed)
    <3>1. CASE pc = "next"
      BY <2>1, <3>1 DEF FrameInv, LoopInv
    <3>2. CASE pc # "next"
      BY <3>2 DEF FrameInv, LoopInv, Range
    <3> QED BY <3>1, <3>2
  <2> QED BY <2>3, <2>4 DEF FrameInv, LoopInv, CountInv, ResultsInv, TypeOK
<1> QED BY Frame, <1>1, PTL

\* The entities judged are the usable ones with the smallest ids, whatever became of the
\* requests (check_alerts.go:36-58, util.go:31-41).
THEOREM EntitiesJudged == Spec => []EveryEntityJudged
<1>1. FrameInv => EveryEntityJudged
  BY SampleProperties DEF FrameInv, LoopInv, EveryEntityJudged, Judged
<1> QED BY Frame, <1>1, PTL
-----------------------------------------------------------------------------
\* A property of each result holds once it holds of those that a round adds and the
\* passing of time does not break it.
LEMMA OldResults ==
    ASSUME [Next]_vars, FrameInv
    PROVE  /\ server' = server /\ renames' = renames /\ mapping' = mapping /\ MappingRight' = MappingRight
           /\ expired \subseteq expired'
           /\ Judge \/ results' = results
                    \/ \A r \in results' : r.entity = NoRef
<1>1. server' = server /\ renames' = renames /\ mapping' = mapping
  BY InputsStay DEF inputs
<1>2. MappingRight' = MappingRight
  BY <1>1 DEF MappingRight, MapAgency
<1>3. expired \subseteq expired'
  BY DEF Next, Check, Start, Judge, Finish, Expire, vars
<1>4. Start => results' = results \/ \A r \in results' : r.entity = NoRef
  BY DEF Start, Verdict
<1>5. Judge \/ results' = results \/ \A r \in results' : r.entity = NoRef
  BY <1>4 DEF Next, Check, Finish, Expire, vars
<1> QED BY <1>1, <1>2, <1>3, <1>5

\* A server whose stops are empty contradicts every entity, whatever its agency
\* (check_tripupdates.go:66-79, check_alerts.go:59-84).
THEOREM SilenceFails == Spec => []SilentServerCaught
<1>1. Init => SilentServerCaught
  BY DEF Init, SilentServerCaught
<1>2. ASSUME FrameInv, SilentServerCaught, [Next]_vars PROVE SilentServerCaught'
  <2>1. CASE Judge /\ server = "silent"
    <3> DEFINE e == Head(todo)
    <3>1. PICK ans \in Arrivals(PrefixedID(AgencyOf(e), e.stop), PrefixedID(AgencyOf(e), e.id)) :
              results' = results \cup {Verdict(e, StopVerdict(ans, e.id, AgencyOf(e)))}
      BY <1>2, <2>1, JudgeStep
    <3>2. ans = Body({}, {})
      BY <2>1, <3>1 DEF Arrivals
    <3>3. StopVerdict(ans, e.id, AgencyOf(e)) = "Fail"
      BY <3>2 DEF StopVerdict, Body
    <3> QED BY <1>2, <2>1, <3>1, <3>3 DEF SilentServerCaught, Verdict
  <2>2. CASE ~(Judge /\ server = "silent")
    BY <1>2, <2>2, OldResults DEF SilentServerCaught
  <2> QED BY <2>1, <2>2
<1> QED BY Frame, <1>1, <1>2, PTL DEF Spec

LEMMA AgencyIsId ==
    ASSUME InputsOK, NEW e \in Entities
    PROVE  AgencyOf(e) \in Id
<1>1. Blank \in Id
  BY BlankIsId
<1>2. \A g \in Id : MapAgency(g) \in Id
  BY DEF InputsOK, StaticFeedAndMapping, MapAgency
<1>3. CASE alerts
  <2>1. static.agencies # <<>> => static.agencies[1] \in Id
    BY HeadTailProperties DEF InputsOK, StaticFeedAndMapping
  <2> QED BY <1>1, <1>2, <1>3, <2>1 DEF AgencyOf
<1>4. CASE ~alerts
  <2>1. /\ \A r \in DOMAIN RouteAgency : RouteAgency[r] \in Id
        /\ \A t \in DOMAIN TripAgency : TripAgency[t] \in Id
    BY DEF InputsOK, StaticFeedAndMapping, RouteAgency, TripAgency
  <2>2. \A a \in Resolved(e.id, e.route) : a \in Id
    BY <1>2, <2>1 DEF Resolved
  <2> QED BY <1>1, <1>4, <2>2 DEF AgencyOf
<1> QED BY <1>3, <1>4

\* A faithful server that is asked for a stop of the entity's shows it until it expires.
LEMMA OwnStopShows ==
    ASSUME FrameInv, NEW e \in Range(feed), NEW obaStop, e \in At(obaStop), e \notin expired
    PROVE  /\ Faithful(obaStop).kind = "body"
           /\ alerts => SituationId(e) \in Faithful(obaStop).situations
           /\ ~alerts => Oba(e, e.id) \in Faithful(obaStop).trips
<1>1. IF alerts THEN e \in Alerts ELSE e \in Updates
  BY DEF FrameInv, InputsOK
<1>2. Faithful(obaStop) = Body({Oba(x, x.id) : x \in (At(obaStop) \cap Updates) \ expired},
                               {SituationId(x) : x \in (At(obaStop) \cap Alerts) \ expired})
  BY DEF Faithful
<1> QED BY <1>1, <1>2 DEF Body

\* Evidence-based severity: no Fail for what a faithful server still shows, though the
\* agency that is looked up may be any (check_alerts.go:42-84).
THEOREM FaithfulPasses == Spec => []FaithfulServerPasses
<1>1. Init => FaithfulServerPasses
  BY DEF Init, FaithfulServerPasses
<1>2. ASSUME FrameInv, FaithfulServerPasses, [Next]_vars PROVE FaithfulServerPasses'
  <2>1. ASSUME Judge, server = "faithful", NEW r \in results',
               r.status = "Fail", AsksOwnStop(r.entity)
        PROVE  r \in results \/ r.entity \in expired
    <3> DEFINE e == Head(todo)
               a == AgencyOf(e)
               obaStop == PrefixedID(a, e.stop)
    <3>1. /\ e \in Entities /\ e \in Range(feed) /\ e.stop \in Id
          /\ results' = results \cup {Verdict(e, StopVerdict(Faithful(obaStop), e.id, a))}
      BY <1>2, <2>1, JudgeStep DEF Arrivals
    <3>2. SUFFICES ASSUME r = Verdict(e, StopVerdict(Faithful(obaStop), e.id, a)), e \notin expired
                   PROVE  FALSE
      BY <3>1 DEF Verdict
    <3>3. r.entity = e /\ StopVerdict(Faithful(obaStop), e.id, a) = "Fail"
      BY <2>1, <3>2 DEF Verdict
    <3>4. e \in At(obaStop)
      <4>1. Faithful(obaStop).kind = "body"
        BY <3>3 DEF StopVerdict
      <4>2. At(obaStop) # {}
        BY <4>1 DEF Faithful, Error
      <4> QED BY <2>1, <3>3, <4>2 DEF AsksOwnStop
    <3>5. /\ alerts => SituationId(e) \in Faithful(obaStop).situations
          /\ ~alerts => Oba(e, e.id) \in Faithful(obaStop).trips
      BY <1>2, <3>1, <3>2, <3>4, OwnStopShows
    <3>6. CASE alerts
      BY <3>3, <3>5, <3>6 DEF StopVerdict
    <3>7. CASE ~alerts
      <4>1. a \in Id /\ ObaAgency[e.at] \in Id /\ e.id \in Id
        BY <1>2, <3>1, AgencyIsId, EntityAssumption DEF FrameInv
      <4>2. PrefixedID(a, e.stop) = PrefixedID(ObaAgency[e.at], e.stop)
        BY <3>4 DEF At, Oba
      <4>3. a = ObaAgency[e.at]
        BY <3>1, <4>1, <4>2, AgencyTold
      <4>4. IDMatch(Oba(e, e.id), e.id, a)
        BY <4>1, <4>3, PrefixedMatches DEF Oba
      <4> QED BY <3>3, <3>5, <3>7, <4>4 DEF StopVerdict
    <3> QED BY <3>6, <3>7
  <2>2. \A x : AsksOwnStop(x)' = AsksOwnStop(x)
    BY <1>2, InputsStay
  <2>3. CASE Judge /\ server = "faithful"
    BY <1>2, <2>1, <2>2, <2>3, OldResults DEF FaithfulServerPasses
  <2>4. CASE ~(Judge /\ server = "faithful")
    BY <1>2, <2>2, <2>4, OldResults DEF FaithfulServerPasses
  <2> QED BY <2>3, <2>4
<1> QED BY Frame, <1>1, <1>2, PTL DEF Spec

\* ... and a Pass for what it shows under the id of the feed, if the check derives the
\* agency of the entity (check_tripupdates.go:40-49, check_alerts.go:42-48).
THEOREM FaithfulConfirms == Spec => []FaithfulServerConfirms
<1>1. Init => FaithfulServerConfirms
  BY DEF Init, FaithfulServerConfirms
<1>2. ASSUME FrameInv, FaithfulServerConfirms, [Next]_vars PROVE FaithfulServerConfirms'
  <2>1. ASSUME Judge, server = "faithful", ~renames, NEW r \in results',
               AgencyOf(r.entity) = ObaAgency[r.entity.at]
        PROVE  r \in results \/ r.status = "Pass" \/ r.entity \in expired
    <3> DEFINE e == Head(todo)
               a == AgencyOf(e)
               obaStop == PrefixedID(a, e.stop)
    <3>1. /\ e \in Entities /\ e \in Range(feed) /\ e.stop \in Id /\ e.stop # NoRef
          /\ results' = results \cup {Verdict(e, StopVerdict(Faithful(obaStop), e.id, a))}
      BY <1>2, <2>1, JudgeStep, EntityAssumption DEF Arrivals
    <3>2. SUFFICES ASSUME r = Verdict(e, StopVerdict(Faithful(obaStop), e.id, a)), e \notin expired
                   PROVE  r.status = "Pass"
      BY <3>1 DEF Verdict
    <3>3. a = ObaAgency[e.at] /\ a \in Id /\ e.id \in Id
      BY <2>1, <3>1, <3>2, EntityAssumption DEF Verdict
    <3>4. e \in At(obaStop)
      BY <3>1, <3>3 DEF At, Oba
    <3>5. /\ Faithful(obaStop).kind = "body"
          /\ alerts => SituationId(e) \in Faithful(obaStop).situations
          /\ ~alerts => Oba(e, e.id) \in Faithful(obaStop).trips
      BY <1>2, <3>1, <3>2, <3>4, OwnStopShows
    <3>6. SituationId(e) = Oba(e, e.id)
      BY <2>1 DEF SituationId
    <3>7. IDMatch(Oba(e, e.id), e.id, a)
      BY <3>3, PrefixedMatches DEF Oba
    <3>8. StopVerdict(Faithful(obaStop), e.id, a) = "Pass"
      BY <3>5, <3>6, <3>7 DEF StopVerdict
    <3> QED BY <3>2, <3>8 DEF Verdict
  <2>2. \A x : AgencyOf(x)' = AgencyOf(x)
    BY <1>2, InputsStay
  <2>3. CASE Judge /\ server = "faithful" /\ ~renames
    BY <1>2, <2>1, <2>2, <2>3, OldResults DEF FaithfulServerConfirms
  <2>4. CASE ~(Judge /\ server = "faithful" /\ ~renames)
    BY <1>2, <2>2, <2>4, OldResults DEF FaithfulServerConfirms
  <2> QED BY <2>3, <2>4
<1> QED BY Frame, <1>1, <1>2, PTL DEF Spec
=============================================================================
