-------------------------- MODULE VehicleSampling ---------------------------
(***************************************************************************)
(* The vehicle-positions-sampling check of one data source: it asks the    *)
(* server three questions about each sampled vehicle.  The vehicles move   *)
(* on between the fetch of the feed and the questions.                     *)
(***************************************************************************)
EXTENDS Source, Sampling

CONSTANTS
    Fleet,              \* the vehicles: [id, label, trip, route, position, agency]
    ObaAgency,          \* the id under which the server serves a GTFS agency
    NextTrip,           \* the raw id of a trip that no vehicle of the feed is on
    MaxFeed,            \* bound on the vehicles of a feed
    SampleSizes,
    Sources             \* the values of <<static, mapping>> considered

ASSUME FleetAssumption ==
    /\ Fleet \subseteq [id : Id, label : Id, trip : Id \cup {NoRef}, route : Id,
                        position : {"none", "partial", "full"}, agency : DOMAIN ObaAgency]
    /\ NoRef \notin Fleet
    /\ OrderedIds({v.id : v \in Fleet})
    /\ ObaAgency \in [DOMAIN ObaAgency -> Id] /\ NoRef \notin Id
    /\ MaxFeed \in Nat /\ SampleSizes \subseteq Nat \ {0}
    /\ \A s \in Sources : StaticFeedAndMapping(s[1], s[2])

VARIABLES
    feed,               \* the vehicles in the order of the feed
    unavailable,        \* PrepErrors["vehiclePositions"] is set
    sampleSize,
    server,             \* how the server behaves
    naming,             \* how a faithful server names its vehicles
    doing,              \* doing[v]: v is on the trip of the feed, on none, on another,
                        \* or out of service
    near,               \* the vehicles still about their position in the feed
    pc,
    todo,               \* the rest of the sample
    cur,                \* the vehicle being judged
    agency,             \* its OBA agency
    results             \* the results: [vehicle, step, status]

world == <<doing, near>>
inputs == <<static, mapping, feed, unavailable, sampleSize, server, naming>>
vars == <<inputs, world, pc, todo, cur, agency, results>>

Feeds == {f \in UNION {[1 .. n -> Fleet] : n \in 0 .. MaxFeed} : IsInjective(f)}

Init ==
    /\ \E s \in Sources : static = s[1] /\ mapping = s[2]
    /\ feed \in Feeds
    /\ unavailable \in BOOLEAN /\ (unavailable => feed = <<>>)
    /\ sampleSize \in SampleSizes
    /\ server \in {"faithful", "silent", "arbitrary"}
    /\ naming \in {"id", "label", "own"} /\ (server # "faithful" => naming = "id")
    /\ doing \in [Fleet -> {"feed", "none", "next"}]
    /\ \A v \in Fleet : IF v.trip \in {Blank, NoRef} THEN doing[v] # "feed" ELSE doing[v] = "feed"
    /\ near = Fleet
    /\ pc = "start"
    /\ todo = <<>>
    /\ cur = NoRef
    /\ agency = Blank
    /\ results = {}

Verdict(v, step, status) == [vehicle |-> v, step |-> step, status |-> status]
Report(step, status) == results' = results \cup {Verdict(cur, step, status)}
-----------------------------------------------------------------------------
(* The server.  An answer is an error, a null body, or a body with ids.    *)
Error == [kind |-> "error", ids |-> {}]
Null == [kind |-> "null", ids |-> {}]
Body(ids) == [kind |-> "body", ids |-> ids]

ServedId(v) ==
    LET raw == CASE naming = "id" /\ v.id # Blank -> v.id
                 [] naming = "label" /\ v.label # Blank -> v.label
                 [] OTHER -> <<"own">> \o v.id
    IN  PrefixedID(ObaAgency[v.agency], raw)

ServedTrip(v) ==
    CASE doing[v] = "feed" -> PrefixedID(ObaAgency[v.agency], v.trip)
      [] doing[v] = "none" -> Blank
      [] doing[v] = "next" -> PrefixedID(ObaAgency[v.agency], NextTrip)

Answers(faithful, silent, ids) ==
    CASE server = "faithful" -> {faithful}
      [] server = "silent" -> {silent}
      [] server = "arbitrary" -> {Error, Null} \cup {Body(s) : s \in ids}

InService == {v \in Fleet : doing[v] # "gone"}

VehiclesOf(a) ==
    IF \A v \in Fleet : ObaAgency[v.agency] # a THEN Error
    ELSE Body({ServedId(v) : v \in {v \in InService : ObaAgency[v.agency] = a}})

TripOf(id) ==
    LET them == {v \in InService : ServedId(v) = id}
    IN  IF them = {} THEN Error ELSE Body({ServedTrip(v) : v \in them})

TripsAround == Body({ServedTrip(v) : v \in {v \in near : doing[v] \in {"feed", "next"}}})

Others == {<<"2">> \o NextTrip}
-----------------------------------------------------------------------------
\* Only vehicles with both a trip and a position are sampled, if there are any.
Candidates ==
    LET both == {i \in DOMAIN feed : feed[i].trip # NoRef /\ feed[i].position # "none"}
    IN  IF both = {} THEN feed ELSE Kept(feed, both)

\* The feed is unavailable or empty, and that is the only result, or it is sampled.
Start ==
    /\ pc = "start"
    /\ IF feed = <<>>
       THEN /\ pc' = "done"
            /\ Report("feed", IF unavailable THEN "Fail" ELSE "Warn")
            /\ UNCHANGED todo
       ELSE /\ pc' = "next"
            /\ todo' = sampleByID(Candidates, sampleSize)
            /\ UNCHANGED results
    /\ UNCHANGED <<inputs, world, cur, agency>>

\* The next vehicle; one whose agency does not resolve has one result only.
Judge ==
    /\ pc = "next" /\ todo # <<>>
    /\ todo' = Tail(todo)
    /\ LET v == Head(todo)
           owners == IF v.trip = NoRef THEN {} ELSE Resolved(v.trip, v.route) IN
       IF owners = {}
       THEN /\ results' = results \cup {Verdict(v, "agency", "Warn")}
            /\ UNCHANGED <<pc, cur, agency>>
       ELSE /\ pc' = "vehicles-for-agency"
            /\ cur' = v
            /\ agency' \in owners
            /\ UNCHANGED results
    /\ UNCHANGED <<inputs, world>>

Named(id) ==
    \/ IDMatch(id, cur.id, agency)
    \/ cur.label # Blank /\ IDMatch(id, cur.label, agency)

\* Mutant: an empty list is taken for a vehicle that is not in it.
EmptyListWarns(ans) ==
    IF ans.kind # "body" THEN "Fail"
    ELSE IF \E id \in ans.ids : Named(id) THEN "Pass" ELSE "Warn"

\* An empty list contradicts the feed; one without the vehicle may name it otherwise.
ListVerdict(ans) ==
    IF ans.kind # "body" \/ ans.ids = {} THEN "Fail"
    ELSE IF \E id \in ans.ids : Named(id) THEN "Pass" ELSE "Warn"

AskVehicles ==
    /\ pc = "vehicles-for-agency"
    /\ \E ans \in Answers(VehiclesOf(agency), Body({}),
                          SUBSET ({PrefixedID(agency, cur.id)} \cup Others)) :
           Report(pc, ListVerdict(ans))
    /\ pc' = "trip-for-vehicle"
    /\ UNCHANGED <<inputs, world, todo, cur, agency>>

\* A trip other than that of the feed contradicts it; none, or no answer, does not.
TripVerdict(ans) ==
    IF ans.kind # "body" THEN "Warn"
    ELSE IF \E id \in ans.ids : IDMatch(id, cur.trip, agency) THEN "Pass"
    ELSE IF Blank \in ans.ids THEN "Warn"
    ELSE "Fail"

AskTrip ==
    /\ pc = "trip-for-vehicle"
    /\ \E ans \in Answers(TripOf(PrefixedID(agency, cur.id)), Body({Blank}),
                          {{PrefixedID(agency, cur.trip)}, {Blank}, Others}) :
           Report(pc, TripVerdict(ans))
    /\ pc' = "trips-for-location"
    /\ UNCHANGED <<inputs, world, todo, cur, agency>>

\* The vehicle may have left the box: this step never fails.
AskLocation ==
    /\ pc = "trips-for-location"
    /\ \E ans \in Answers(TripsAround, Body({}), SUBSET ({PrefixedID(agency, cur.trip)} \cup Others)) :
           Report(pc, IF /\ cur.position = "full"
                         /\ \E id \in ans.ids : IDMatch(id, cur.trip, agency)
                      THEN "Pass" ELSE "Warn")
    /\ pc' = "next"
    /\ UNCHANGED <<inputs, world, todo, cur, agency>>

Finish ==
    /\ pc = "next" /\ todo = <<>>
    /\ pc' = "done"
    /\ UNCHANGED <<inputs, world, todo, cur, agency, results>>

\* A vehicle of the feed ends its trip, then starts another or goes out of service, or it
\* leaves the box; only a faithful server would tell.
Move(v) ==
    /\ pc # "done" /\ server = "faithful"
    /\ \/ doing[v] = "feed" /\ doing' = [doing EXCEPT ![v] = "none"] /\ UNCHANGED near
       \/ /\ doing[v] = "none" /\ UNCHANGED near
          /\ \E new \in {"next", "gone"} : doing' = [doing EXCEPT ![v] = new]
       \/ v \in near /\ near' = near \ {v} /\ UNCHANGED doing
    /\ UNCHANGED <<inputs, pc, todo, cur, agency, results>>

Check == Start \/ AskVehicles \/ AskTrip \/ AskLocation \/ Judge \/ Finish

Next == Check \/ \E v \in Range(feed) : Move(v)

Spec == Init /\ [][Next]_vars
-----------------------------------------------------------------------------
Steps == {"vehicles-for-agency", "trip-for-vehicle", "trips-for-location"}
StepsOf(v) == {r.step : r \in {r \in results : r.vehicle = v}}

TypeOK ==
    /\ doing \in [Fleet -> {"feed", "none", "next", "gone"}]
    /\ near \subseteq Fleet
    /\ pc \in Steps \cup {"start", "next", "done"}
    /\ Range(todo) \subseteq Range(feed) /\ Len(todo) <= sampleSize
    /\ cur \in Fleet \cup {NoRef}
    /\ agency \in Id
    /\ \A r \in results : /\ r.vehicle \in Range(feed) \cup {NoRef}
                         /\ r.step \in Steps \cup {"feed", "agency"}
                         /\ r.status \in {"Pass", "Warn", "Fail"}

MappingRight == \A g \in DOMAIN ObaAgency : MapAgency(g) = ObaAgency[g]

\* The static feed knows of no agency for the vehicle but its own, and the id that is
\* asked for is that of no other vehicle of the server.
ToldApart(v) ==
    /\ Resolved(v.trip, v.route) \subseteq {MapAgency(v.agency)}
    /\ \A x \in Fleet : ServedId(x) = PrefixedID(ObaAgency[v.agency], v.id) => x = v

\* Evidence-based severity (oba-validator-design.md:228-237): if the server serves
\* what the feed says, under ids of its own or of any agency, and the mapping is
\* right, no vehicle that is told apart fails but one that has started another trip
\* since, or for the list one that has gone out of service.
FaithfulServerPasses ==
    server = "faithful" /\ MappingRight =>
        \A r \in results :
            r.status = "Fail" /\ r.step # "feed" /\ ToldApart(r.vehicle) =>
                \/ doing[r.vehicle] = "next"
                \/ doing[r.vehicle] = "gone" /\ r.step = "vehicles-for-agency"

\* A server that answers every question with nothing does not get by, as soon as
\* one vehicle of the feed can be resolved (check_vehicles.go:67-69).
SilentServerCaught ==
    server = "silent" /\ pc = "done" /\ (\E r \in results : r.step \in Steps)
    => \E r \in results : r.status = "Fail"

\* Whatever order the feed has, the vehicles judged are the sampleSize candidates
\* with the smallest ids (oba-validator-design.md:340, util.go:31-32), each on all
\* three endpoints or once as unresolvable (check_vehicles.go:42-148).
EveryVehicleJudged ==
    pc = "done" /\ feed # <<>> =>
        LET judged == {r.vehicle : r \in results}
        IN  /\ SmallestChosen(judged, Candidates, sampleSize)
            /\ \A v \in judged : StepsOf(v) \in {{"agency"}, Steps}

\* oba-validator-design.md:364-365: "empty/no current trip" is a Warn, so only a
\* vehicle whose trip the feed gives can pass trip-for-vehicle.
PassNeedsTrip ==
    \A r \in results : r.step = "trip-for-vehicle" /\ r.status = "Pass" => r.vehicle.trip # Blank
=============================================================================
