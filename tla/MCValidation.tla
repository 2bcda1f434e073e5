---------------------------- MODULE MCValidation ----------------------------
(***************************************************************************)
(* One source whose feeds are in any states, two of them in the same one,  *)
(* or two sources whose feeds are all in one state or mixed.               *)
(***************************************************************************)
EXTENDS Validation

All(state) == [f \in Feeds |-> state]
Mixed == [All("usable") EXCEPT !["tripUpdates"] = "unusable"]

UpToTwo == {<<c>> : c \in {c \in [Feeds -> FeedStates] : c["tripUpdates"] = c["serviceAlerts"]}} \cup
           {<<a, b>> : a \in {All("none"), All("failed")}, b \in {All("unusable"), Mixed}}

Stamped(v, t, a) == [f \in Realtime |-> CASE f = "vehiclePositions" -> v
                                          [] f = "tripUpdates" -> t
                                          [] f = "serviceAlerts" -> a]
Old == {Stamped(1, 1, 1)}
AnyAge == Old \cup {Stamped(1, 4, NoTime), Stamped(5, 2, 0)}

PassOrTwo == {<<"Pass">>, <<"Fail", "Skip">>}
PlusMinusOne == {1, -1}
=============================================================================
