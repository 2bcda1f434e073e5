---------------------------- MODULE AgencyUnion -----------------------------
(***************************************************************************)
(* The agency-union check: the agencies of all static feeds, translated by *)
(* the mapping of their source, against those the server lists.  The       *)
(* expected set grows as the feeds' agencies are compared one by one, and  *)
(* the hint for a missing agency looks at it; Go iterates over its maps in *)
(* any order.                                                              *)
(***************************************************************************)
EXTENDS Integers, Sequences, FiniteSets, SequencesExt

CONSTANTS
    SourceLists,        \* the data sources considered: [agencies, names, mapping]
    ApiLists,           \* the agencies the server may list
    ApiName,            \* the name of an agency on the server
    NoHint

ASSUME UnionAssumption ==
    /\ \A list \in SourceLists :
           /\ list \in Seq(Range(list))
           /\ \A s \in DOMAIN list : list[s].agencies \in Seq(DOMAIN list[s].names)
    /\ \A list \in ApiLists : IsFiniteSet(list)
    /\ NoHint \notin DOMAIN ApiName

VARIABLES
    sources,            \* the sources with a static feed, in their order
    available,          \* the server has answered agencies-with-coverage
    apiSet,             \* the agencies it lists
    next,               \* the next agency to compare
    expectedSet,        \* the agencies compared so far, under their OBA ids
    results             \* the results, in their order

inputs == <<sources, available, apiSet>>
unionVars == <<inputs, next, expectedSet, results>>

UnionInit ==
    /\ sources \in SourceLists
    /\ available \in BOOLEAN
    /\ apiSet \in (IF available THEN ApiLists ELSE {{}})
    /\ next = 1
    /\ expectedSet = {}
    /\ results = <<>>

\* The agencies of one source under their OBA ids, by its mapping or else as they are.
Expected(src) ==
    [k \in DOMAIN src.agencies |->
        LET g == src.agencies[k] IN
        [gtfsID |-> g,
         name |-> src.names[g],
         obaID |-> IF g \in DOMAIN src.mapping THEN src.mapping[g] ELSE g,
         mapped |-> g \in DOMAIN src.mapping]]

exp == FlattenSeq([s \in DOMAIN sources |-> Expected(sources[s])])

UnionResult(kind, id, status, hint) == [kind |-> kind, id |-> id, status |-> status, hint |-> hint]

Namesakes(e) == {a \in DOMAIN ApiName : e.name # "" /\ ApiName[a] = e.name}

\* Mutant: the search ends at an agency of that name that is expected.
HintsUntilExpected(e, seen) == IF Namesakes(e) \cap seen = {} THEN Namesakes(e) ELSE {}

\* Server agencies of that name that have not been expected so far.
Hints(e, seen) == Namesakes(e) \ seen

Unavailable ==
    /\ ~available /\ results = <<>>
    /\ results' = <<UnionResult("unavailable", NoHint, "Fail", NoHint)>>
    /\ UNCHANGED <<inputs, next, expectedSet>>

\* Mutant: an agency that the server lists is not added to the expected ones.
ExpectMissing(e) == IF e.obaID \in apiSet THEN expectedSet ELSE expectedSet \cup {e.obaID}

\* Mutant: the agency is expected under the id of the feed.
ExpectGtfs(e) == expectedSet \cup {e.gtfsID}

Expect(e) == expectedSet \cup {e.obaID}

Compare ==
    /\ available /\ next <= Len(exp)
    /\ LET e == exp[next]
           seen == Expect(e)
       IN  /\ expectedSet' = seen
           /\ \E hint \in IF e.obaID \in apiSet \/ Hints(e, seen) = {} THEN {NoHint}
                          ELSE Hints(e, seen) :
                  results' = Append(results,
                      UnionResult("expected", e.obaID,
                                  IF e.obaID \in apiSet THEN "Pass"
                                  ELSE IF e.mapped THEN "Fail" ELSE "Warn", hint))
    /\ next' = next + 1
    /\ UNCHANGED inputs

Reported == {results[k].id : k \in {k \in DOMAIN results : results[k].kind = "extra"}}

\* The server's agencies that no feed has, in any order.
Extra(id) ==
    /\ available /\ next > Len(exp)
    /\ id \in apiSet \ (expectedSet \cup Reported)
    /\ results' = Append(results, UnionResult("extra", id, "Warn", NoHint))
    /\ UNCHANGED <<inputs, next, expectedSet>>

UnionNext == Unavailable \/ Compare \/ \E id \in apiSet : Extra(id)

UnionSpec == UnionInit /\ [][UnionNext]_unionVars
-----------------------------------------------------------------------------
UnionTypeOK ==
    /\ next \in 1 .. Len(exp) + 1
    /\ expectedSet \subseteq {exp[k].obaID : k \in DOMAIN exp}
    /\ Len(results) <= Len(exp) + Cardinality(apiSet) + 1
    /\ \A k \in DOMAIN results : results[k].status \in {"Pass", "Warn", "Fail"}

\* No result is still to come.
Done == available /\ next > Len(exp) /\ apiSet \subseteq expectedSet \cup Reported

AllExpected == {exp[k].obaID : k \in DOMAIN exp}

\* oba-validator-design.md:305-320, of all sources at once: each agency of each feed
\* has one result, a Fail only if it is mapped, and each agency of the server that no
\* feed has has one Warn, whatever the order of sources, agencies and maps.
UnionAsDesigned ==
    Done =>
        /\ \A k \in DOMAIN exp :
               /\ results[k].kind = "expected" /\ results[k].id = exp[k].obaID
               /\ results[k].status = "Fail" <=> exp[k].mapped /\ exp[k].obaID \notin apiSet
        /\ Reported = apiSet \ AllExpected
        /\ Len(results) = Len(exp) + Cardinality(Reported)

\* A missing agency whose name an agency of the server has that no feed accounts for
\* comes with a hint, though the expected set is incomplete when the hint is sought.
HintNotMissed ==
    Done =>
        \A k \in DOMAIN exp :
            exp[k].obaID \notin apiSet /\ Namesakes(exp[k]) \ AllExpected # {} => results[k].hint # NoHint
=============================================================================
