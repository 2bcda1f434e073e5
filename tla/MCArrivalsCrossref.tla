------------------------- MODULE MCArrivalsCrossref -------------------------
(***************************************************************************)
(* A feed of two agencies, one with an underscore in its id; trips known   *)
(* to the static feed, added to it on a known route, and unknown to it;    *)
(* alerts at stops of either agency; and a stop whose raw id reads as that *)
(* of a stop of the other.                                                 *)
(***************************************************************************)
EXTENDS ArrivalsCrossref, TLC

AllParts == {"", "1", "KCM", "a", "b", "t", "9", "r", "s", "own", "p", "q", "z"}

Kcm == <<"KCM">>
AB == <<"a", "b">>
Oba2 == (Kcm :> <<"1">>) @@ (AB :> AB)

Entity(id, route, stop, at) == [id |-> id, route |-> route, stop |-> stop, at |-> at]

FourUpdates == {Entity(<<"t", "1">>, Blank, <<"p">>, Kcm),     \* in the static feed
                Entity(<<"t">>, <<"s">>, <<"q", "1">>, AB),    \* its route is
                Entity(<<"9">>, <<"z">>, <<"1", "p">>, AB),    \* neither is
                Entity(<<"1">>, <<"r">>, NoRef, Kcm)}          \* nothing predicted
ThreeAlerts == {Entity(<<"z">>, Blank, <<"p">>, Kcm),
                Entity(<<"z", "9">>, Blank, <<"q", "1">>, AB),
                Entity(<<"1">>, Blank, NoRef, Kcm)}

\* As Go compares them: "1" < "9" < "t" < "t_1" < "z" < "z_9".
IdOrder == <<<<"1">>, <<"9">>, <<"t">>, <<"t", "1">>, <<"z">>, <<"z", "9">> >>
InOrder(a, b) == \E i, j \in DOMAIN IdOrder : IdOrder[i] = a /\ IdOrder[j] = b /\ i < j

TwoAgencies == [agencies |-> <<Kcm, AB>>,
                routes |-> (<<"r">> :> Kcm) @@ (<<"s">> :> AB),
                trips |-> (<<"t", "1">> :> <<"r">>)]
SecondOnly == [TwoAgencies EXCEPT !.agencies = <<AB>>]

FeedAndMapping == {<<TwoAgencies, Kcm :> <<"1">> >>, <<SecondOnly, Kcm :> <<"1">> >>,
                   <<TwoAgencies, <<>> >>, <<NoStatic, Kcm :> <<"1">> >>}
=============================================================================
