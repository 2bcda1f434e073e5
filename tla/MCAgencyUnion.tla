--------------------------- MODULE MCAgencyUnion ----------------------------
(***************************************************************************)
(* One to three sources.  "kcm" is "1" on the server, where both are named *)
(* metro, like "3"; "st" is itself there, unless a mapping says otherwise; *)
(* "old" is not served, and "2" is named like it.  "st" has no name; but a *)
(* feed of "kcm" and "st" gives the two other names than the other feeds.  *)
(***************************************************************************)
EXTENDS AgencyUnion, TLC

GtfsNames == ("kcm" :> "metro") @@ ("1" :> "metro") @@ ("st" :> "") @@ ("old" :> "ferry")
Renamed == ("kcm" :> "ferry") @@ ("1" :> "") @@ ("st" :> "metro") @@ ("old" :> "ferry")
ApiNames == ("1" :> "metro") @@ ("3" :> "metro") @@ ("st" :> "") @@ ("2" :> "ferry")

Mappings == {<<>>, "kcm" :> "1", ("kcm" :> "1") @@ ("old" :> "9")}
OneSource == {[agencies |-> a, mapping |-> m,
                names |-> IF a = <<"kcm", "st">> THEN Renamed ELSE GtfsNames] :
                a \in {<<"kcm">>, <<"1">>, <<"kcm", "st">>, <<"old", "st">>}, m \in Mappings}

UpToThree == {<<a>> : a \in OneSource} \cup (OneSource \X OneSource)
                 \cup {<<>>} \cup {<<a, b, a>> : a \in OneSource, b \in OneSource}
Lists == SUBSET {"1", "2", "st"}
=============================================================================
