------------------------- MODULE MCVehicleSampling --------------------------
(***************************************************************************)
(* Four vehicles of two agencies, one of which has an underscore in its id *)
(* and keeps it on the server; the other is "KCM" in the feed and "1" on   *)
(* the server.  Two of the vehicles, one of each agency, have the same id,  *)
(* and the label of one is the id of another of its agency.                *)
(***************************************************************************)
EXTENDS VehicleSampling, TLC

AllParts == {"", "1", "2", "KCM", "a", "b", "t", "9", "r", "s", "x", "own"}

Kcm == <<"KCM">>
AB == <<"a", "b">>
Oba == (Kcm :> <<"1">>) @@ (AB :> AB)

Route1 == <<"r">>
Route2 == <<"s">>
Trip1 == <<"t", "1">>
Trip9 == <<"9">>

Vehicle(id, label, trip, route, position, a) ==
    [id |-> id, label |-> label, trip |-> trip, route |-> route, position |-> position, agency |-> a]

OnTrip == Vehicle(<<"1", "2">>, <<"x">>, Trip1, Blank, "full", Kcm)
AddedTrip == Vehicle(<<"2">>, Blank, <<"t">>, Route2, "partial", AB)
RouteOnly == Vehicle(<<"1", "2">>, <<"2">>, Blank, Route2, "full", AB)
Idle == Vehicle(Blank, Blank, NoRef, Blank, "none", Kcm)

FourVehicles == {OnTrip, AddedTrip, RouteOnly, Idle}

\* As Go compares them: "" < "1_2" < "2".
IdOrder == <<Blank, <<"1", "2">>, <<"2">> >>
InOrder(a, b) == \E i, j \in DOMAIN IdOrder : IdOrder[i] = a /\ IdOrder[j] = b /\ i < j

Feed == [agencies |-> <<Kcm, AB>>,
         routes |-> (Route1 :> Kcm) @@ (Route2 :> AB),
         trips |-> (Trip1 :> Route1) @@ (Trip9 :> NoRef)]

\* The static feed of another month has the route with another agency.
OldFeed == [Feed EXCEPT !.routes[Route1] = AB]

\* The mapping is right or missing; the static feed is there, old, or missing.
FeedAndMapping == {<<Feed, Kcm :> <<"1">> >>, <<Feed, <<>> >>,
                   <<OldFeed, Kcm :> <<"1">> >>, <<NoStatic, Kcm :> <<"1">> >>}
=============================================================================
