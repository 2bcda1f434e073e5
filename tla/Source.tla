------------------------------- MODULE Source -------------------------------
(***************************************************************************)
(* What the checks of one data source look up: the index that feeds/gtfs.go *)
(* builds from the static feed, and the agencyMapping of its configuration. *)
(* Neither changes while the checks run.                                   *)
(***************************************************************************)
EXTENDS Ids

CONSTANT NoRef          \* a route without an agency, a trip without a route

VARIABLES
    static,             \* the static feed: sorted agency ids, routes and trips
    mapping             \* agencyMapping: GTFS agency id to OBA agency id

\* A source without a static feed, or whose feed could not be parsed.
NoStatic == [agencies |-> <<>>, routes |-> <<>>, trips |-> <<>>]

\* A static feed and a mapping; ids of agencies, routes and trips.
StaticFeedAndMapping(feed, agencyMapping) ==
    /\ feed.agencies \in Seq(Id)
    /\ feed.routes \in [DOMAIN feed.routes -> Id \cup {NoRef}]
    /\ feed.trips \in [DOMAIN feed.trips -> Id \cup {NoRef}]
    /\ agencyMapping \in [DOMAIN agencyMapping -> Id]

\* parsedStaticFrom: routes by agency, and trips by the agency of their route.
RouteAgency ==
    [r \in {r \in DOMAIN static.routes : static.routes[r] # NoRef} |-> static.routes[r]]
TripAgency ==
    [t \in {t \in DOMAIN static.trips : static.trips[t] \in DOMAIN RouteAgency} |->
        RouteAgency[static.trips[t]]]

MapAgency(g) == IF g \in DOMAIN mapping THEN mapping[g] ELSE g

\* The OBA agency of a realtime entity: by its trip, else by its route.  The set
\* is empty if neither resolves.
Resolved(trip, route) ==
    IF trip \in DOMAIN TripAgency
    THEN {MapAgency(TripAgency[trip])}
    ELSE {MapAgency(RouteAgency[r]) : r \in ({route} \ {Blank}) \cap DOMAIN RouteAgency}
=============================================================================
