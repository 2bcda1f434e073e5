-------------------------------- MODULE Ids ---------------------------------
(***************************************************************************)
(* The identifiers of idnorm.go.  OneBusAway writes {agencyId}_{rawId} and *)
(* both parts may hold underscores, so an identifier is modelled as the    *)
(* sequence of the parts between its underscores: "1_45_7" is              *)
(* <<"1", "45", "7">> and the empty string is <<"">>.                      *)
(***************************************************************************)
EXTENDS Naturals, Sequences

CONSTANT Parts          \* the strings without an underscore; "" is one

ASSUME PartsAssumption == "" \in Parts

Blank == <<"">>
Id == Seq(Parts) \ {<<>>}

RawID(apiID) == IF Len(apiID) > 1 THEN Tail(apiID) ELSE apiID

PrefixedID(agencyID, rawID) == IF agencyID = Blank THEN rawID ELSE agencyID \o rawID

\* Mutant: only the first underscore separates the agency.
IDMatchRaw(apiID, rawFeedID, agencyID) ==
    \/ apiID = rawFeedID
    \/ RawID(apiID) = rawFeedID

IDMatch(apiID, rawFeedID, agencyID) ==
    \/ apiID = rawFeedID
    \/ RawID(apiID) = rawFeedID
    \/ agencyID # Blank /\ apiID = PrefixedID(agencyID, rawFeedID)
=============================================================================
