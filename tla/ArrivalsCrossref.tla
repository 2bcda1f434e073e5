-------------------------- MODULE ArrivalsCrossref --------------------------
(***************************************************************************)
(* The two checks of a data source that look feed entities up in the       *)
(* arrivals of a stop: trip-update-sampling and service-alert-crossref.    *)
(* Entities expire between the fetch of the feed and the questions.        *)
(***************************************************************************)
EXTENDS Source, Sampling

CONSTANTS
    Updates,            \* trip updates: [id, route, stop, at], id the trip's
    Alerts,             \* alerts, of the same shape, without a route
    ObaAgency,          \* the id under which the server serves a GTFS agency
    MaxFeed,            \* bound on the entities of a feed
    SampleSizes,
    Sources             \* the values of <<static, mapping>> considered

Entities == Updates \cup Alerts

\* stop: the first usable stop, or NoRef; at: the agency the server files it under.
ASSUME EntityAssumption ==
    /\ Entities \subseteq [id : Id, route : Id, stop : Id \cup {NoRef}, at : DOMAIN ObaAgency]
    /\ NoRef \notin Entities
    /\ OrderedIds({e.id : e \in Entities})
    /\ ObaAgency \in [DOMAIN ObaAgency -> Id] /\ NoRef \notin Id
    /\ MaxFeed \in Nat /\ SampleSizes \subseteq Nat \ {0}
    /\ \A s \in Sources : StaticFeedAndMapping(s[1], s[2])

VARIABLES
    alerts,             \* the check is that of the alerts
    feed,               \* the entities in the order of the feed
    unavailable,        \* PrepErrors has an entry for the feed
    sampleSize,
    server,             \* how the server behaves
    renames,            \* a faithful server gives situations ids of its own
    expired,            \* what a faithful server no longer shows
    pc,
    todo,               \* the rest of the sample
    results             \* the results: [entity, status]

inputs == <<static, mapping, alerts, feed, unavailable, sampleSize, server, renames>>
vars == <<inputs, expired, pc, todo, results>>

Feeds(of) == {f \in UNION {[1 .. n -> of] : n \in 0 .. MaxFeed} : IsInjective(f)}

Init ==
    /\ \E s \in Sources : static = s[1] /\ mapping = s[2]
    /\ alerts \in BOOLEAN
    /\ feed \in Feeds(IF alerts THEN Alerts ELSE Updates)
    /\ unavailable \in BOOLEAN /\ (unavailable => feed = <<>>)
    /\ sampleSize \in SampleSizes
    /\ server \in {"faithful", "silent", "arbitrary"}
    /\ renames \in BOOLEAN
    /\ expired = {}
    /\ pc = "start"
    /\ todo = <<>>
    /\ results = {}

Verdict(e, status) == [entity |-> e, status |-> status]
-----------------------------------------------------------------------------
(* The server: an error, a null body, or the trips and situations of a stop. *)
Error == [kind |-> "error", trips |-> {}, situations |-> {}]
Null == [kind |-> "null", trips |-> {}, situations |-> {}]
Body(ts, ss) == [kind |-> "body", trips |-> ts, situations |-> ss]

Oba(e, raw) == PrefixedID(ObaAgency[e.at], raw)
At(obaStop) == {e \in Entities : e.stop # NoRef /\ Oba(e, e.stop) = obaStop}
SituationId(e) == IF renames THEN Oba(e, <<"own">> \o e.id) ELSE Oba(e, e.id)

Faithful(obaStop) ==
    IF At(obaStop) = {} THEN Error
    ELSE Body({Oba(e, e.id) : e \in (At(obaStop) \cap Updates) \ expired},
              {SituationId(e) : e \in (At(obaStop) \cap Alerts) \ expired})

Arrivals(obaStop, id) ==
    CASE server = "faithful" -> {Faithful(obaStop)}
      [] server = "silent" -> {Body({}, {})}
      [] server = "arbitrary" ->
            {Error, Null} \cup {Body(ids, ids) : ids \in SUBSET {id, <<"9">> \o id}}
-----------------------------------------------------------------------------
Usable == Kept(feed, {i \in DOMAIN feed : feed[i].stop # NoRef})

\* Unavailable, empty, or without an entity that names a stop: one result.
Start ==
    /\ pc = "start"
    /\ todo' = sampleByID(Usable, sampleSize)
    /\ IF Usable = <<>>
       THEN /\ pc' = "done"
            /\ results' = {Verdict(NoRef, IF unavailable THEN "Fail" ELSE "Warn")}
       ELSE pc' = "next" /\ UNCHANGED results
    /\ UNCHANGED <<inputs, expired>>

\* A trip's own agency; an alert's is taken to be the first of the static feed.
AgencyOf(e) ==
    IF alerts
    THEN IF static.agencies = <<>> THEN Blank ELSE MapAgency(static.agencies[1])
    ELSE IF Resolved(e.id, e.route) = {} THEN Blank
         ELSE CHOOSE a \in Resolved(e.id, e.route) : TRUE

\* Mutant: an empty stop is no evidence.
EmptyStopWarns(ans, id, agency) ==
    IF \E t \in (IF alerts THEN ans.situations ELSE ans.trips) : IDMatch(t, id, agency)
    THEN "Pass" ELSE "Warn"

\* A stop that could not be read says nothing of the feed; one that lacks the trip,
\* or has no situation at all, contradicts it.
StopVerdict(ans, id, agency) ==
    IF ans.kind # "body" THEN "Warn"
    ELSE IF \E t \in (IF alerts THEN ans.situations ELSE ans.trips) : IDMatch(t, id, agency)
         THEN "Pass"
    ELSE IF alerts /\ ans.situations # {} THEN "Warn"
    ELSE "Fail"

\* Mutant: the loop ends at the first stop that cannot be read.
AskUntilUnreadable(e, obaStop) ==
    \E ans \in Arrivals(obaStop, PrefixedID(AgencyOf(e), e.id)) :
        /\ results' = results \cup {Verdict(e, StopVerdict(ans, e.id, AgencyOf(e)))}
        /\ todo' = IF ans.kind = "body" THEN Tail(todo) ELSE <<>>

\* One request, whose failure costs this result only.
Ask(e, obaStop) ==
    \E ans \in Arrivals(obaStop, PrefixedID(AgencyOf(e), e.id)) :
        /\ results' = results \cup {Verdict(e, StopVerdict(ans, e.id, AgencyOf(e)))}
        /\ todo' = Tail(todo)

\* Mutant: the stop is asked for under its raw id.
RawStop ==
    /\ pc = "next" /\ todo # <<>>
    /\ Ask(Head(todo), Head(todo).stop)
    /\ UNCHANGED <<inputs, expired, pc>>

Judge ==
    /\ pc = "next" /\ todo # <<>>
    /\ LET e == Head(todo) IN Ask(e, PrefixedID(AgencyOf(e), e.stop))
    /\ UNCHANGED <<inputs, expired, pc>>

Finish ==
    /\ pc = "next" /\ todo = <<>>
    /\ pc' = "done"
    /\ UNCHANGED <<inputs, expired, todo, results>>

\* The vehicle has passed the stop, or the alert has ended.
Expire(e) ==
    /\ pc # "done" /\ server = "faithful"
    /\ expired' = expired \cup {e}
    /\ UNCHANGED <<inputs, pc, todo, results>>

Check == Start \/ Judge \/ Finish

Next == Check \/ \E e \in Range(feed) : Expire(e)

Spec == Init /\ [][Next]_vars
-----------------------------------------------------------------------------
TypeOK ==
    /\ expired \subseteq Range(feed)
    /\ pc \in {"start", "next", "done"}
    /\ Range(todo) \subseteq Range(feed) /\ Len(todo) + Cardinality(results) <= sampleSize
    /\ results \subseteq [entity : Range(feed) \cup {NoRef}, status : {"Pass", "Warn", "Fail"}]

MappingRight == \A g \in DOMAIN ObaAgency : MapAgency(g) = ObaAgency[g]

\* The stop that is asked for, if the server has it at all, is that of the entity: no
\* agency or raw id makes it read as another's.
AsksOwnStop(e) ==
    LET obaStop == PrefixedID(AgencyOf(e), e.stop)
    IN  At(obaStop) # {} => e \in At(obaStop)

\* Evidence-based severity (oba-validator-design.md:228-237): a server that shows
\* what the feed says, under its own situation ids or the feed's, fails nothing
\* but what has expired since, and not for a wrong mapping either.
FaithfulServerPasses ==
    server = "faithful" =>
        \A r \in results :
            r.status = "Fail" /\ r.entity # NoRef /\ AsksOwnStop(r.entity) => r.entity \in expired

\* ... and if the mapping is right and it keeps the ids, a trip or alert under the
\* agency that the check derives for it is found.
FaithfulServerConfirms ==
    server = "faithful" /\ MappingRight /\ ~renames =>
        \A r \in results :
            r.entity # NoRef /\ AgencyOf(r.entity) = ObaAgency[r.entity.at] =>
                r.status = "Pass" \/ r.entity \in expired

\* A server whose stops are empty contradicts every entity that is looked up.
SilentServerCaught ==
    server = "silent" => \A r \in results : r.entity # NoRef => r.status = "Fail"

\* Whatever order the feed has, the entities judged are the sampleSize usable ones
\* with the smallest ids (oba-validator-design.md:340, util.go:31-32), and a stop
\* that cannot be read costs its own result only (check_alerts.go:49-55).
EveryEntityJudged ==
    pc = "done" /\ Usable # <<>> =>
        SmallestChosen({r.entity : r \in results}, Usable, sampleSize)
=============================================================================
