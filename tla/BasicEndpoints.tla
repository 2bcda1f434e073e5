--------------------------- MODULE BasicEndpoints ---------------------------
(***************************************************************************)
(* The basic-endpoints check: a chain of seven requests, most of them for  *)
(* an id or a place that an earlier answer gave.  The agencies were listed *)
(* by prepare, before; and the server may load another bundle of data      *)
(* between any two requests, which lists more or less than the one before. *)
(***************************************************************************)
EXTENDS Naturals, Sequences

CONSTANTS
    Things,             \* agencies, routes, stops and places
    Server,             \* one of them, which stands for the server as a whole
    Histories           \* the bundles a server may load, one after the other

Chain == <<"current-time", "agencies-with-coverage", "routes-for-agency", "stops-for-route",
           "stop", "stops-for-location", "arrivals-and-departures-for-stop">>
Steps == 1 .. Len(Chain)
Names == {Chain[n] : n \in Steps}

\* A bundle: what each endpoint lists for each thing; nothing for what it does not have.
Bundle == [Names -> [Things -> SUBSET Things]]

ASSUME HistoryAssumption ==
    Server \in Things /\ Histories \subseteq Seq(Bundle) /\ <<>> \notin Histories

VARIABLES
    truthful,           \* the server answers from its bundle, and never fails to
    data,               \* its bundles
    bundle,             \* the one that is loaded
    agencies,           \* what prepare has got, or nothing
    at,                 \* the step to make
    remaining,          \* the steps that skipRest would skip
    got,                \* got[n]: what the check has taken from the answer to step n
    out                 \* the results

server == <<truthful, data, agencies>>
vars == <<server, bundle, at, remaining, got, out>>

End == Len(Chain) + 1

\* Mutant: the stops are asked for with the id of the agency.
UsesAgency == <<0, 0, 2, 2, 4, 5, 4>>

\* Uses[n]: the step that gave what step n asks with, or 0.
Uses == <<0, 0, 2, 3, 4, 5, 4>>

Result(n, status) == [step |-> Chain[n], status |-> status]

\* An error, a null body, an empty list or another stop; or something to go on with.
\* What it is called makes no difference when the server is not truthful.
AnyAnswer == {{}, {Server}}

Init ==
    /\ truthful \in BOOLEAN
    /\ data \in Histories
    /\ bundle = 1
    /\ agencies \in IF truthful THEN {data[1]["agencies-with-coverage"][Server]} ELSE AnyAnswer
    /\ at = 1
    /\ remaining = Tail(Chain)
    /\ got = [n \in Steps |-> Server]
    /\ out = <<>>

\* Mutant: a step that fails is not popped before the rest is skipped.
PopForgotten(n) == remaining

\* Each step but the first is in the list until it has a result.
Pop(n) == IF n = 1 THEN remaining ELSE Tail(remaining)

\* A skewed clock and a stop without arrivals are warnings.
Verdicts(n) == IF n \in {1, 7} THEN {"Pass", "Warn"} ELSE {"Pass"}

Append1(n, status) == Append(out, Result(n, status))
Skipped(steps) == [i \in DOMAIN steps |-> [step |-> steps[i], status |-> "Skip"]]

\* What the server may answer to step n; prepare has asked for the agencies.
Answers(n) ==
    CASE n = 2 -> {agencies}
      [] n # 2 /\ ~truthful -> AnyAnswer
      [] n = 1 /\ truthful -> {{Server}}
      [] OTHER -> {data[bundle][Chain[n]][got[Uses[n]]]}

\* The answer is good, or so it seems: its first item is what later steps ask with.
Passes(n, answer) ==
    /\ \E first \in answer : got' = [got EXCEPT ![n] = first]
    /\ \E status \in Verdicts(n) : out' = Append1(n, status)
    /\ at' = n + 1
    /\ remaining' = Pop(n)

\* The rest is skipped.
Fails(n, answer) ==
    /\ answer = {}
    /\ out' = Append1(n, "Fail") \o Skipped(Pop(n))
    /\ at' = End
    /\ remaining' = Pop(n)
    /\ UNCHANGED got

Step(n) ==
    /\ at = n
    /\ \E answer \in Answers(n) : Passes(n, answer) \/ Fails(n, answer)
    /\ UNCHANGED <<server, bundle>>

\* The server starts to serve its next bundle.
Load ==
    /\ bundle < Len(data) /\ at < End
    /\ bundle' = bundle + 1
    /\ UNCHANGED <<server, at, remaining, got, out>>

Next == Load \/ \E n \in Steps : Step(n)

Spec == Init /\ [][Next]_vars
-----------------------------------------------------------------------------
TypeOK ==
    /\ truthful \in BOOLEAN
    /\ data \in Histories
    /\ bundle \in 1 .. Len(data)
    /\ agencies \in SUBSET Things
    /\ at \in 1 .. End
    /\ remaining \in Seq(Names)
    /\ Len(remaining) <= 6 /\ Len(out) <= Len(Chain)
    /\ got \in [Steps -> Things]
    /\ \A i \in DOMAIN out : out[i].status \in {"Pass", "Warn", "Fail", "Skip"}

\* oba-validator-design.md:302-303: each step has one result, in the order of the
\* chain, and exactly the steps after a failed one are skipped.
ChainReported ==
    at = End =>
        /\ [i \in DOMAIN out |-> out[i].step] = Chain
        /\ \A i \in Steps : out[i].status = "Skip" <=>
                            \E k \in 1 .. i - 1 : out[k].status = "Fail"

\* Bundle b has routes for each of its agencies, stops for each of its routes, and so on.
Full(b) ==
    \A x \in Things :
        /\ \A agency \in data[b]["agencies-with-coverage"][x] :
               data[b]["routes-for-agency"][agency] # {}
        /\ \A route \in data[b]["routes-for-agency"][x] : data[b]["stops-for-route"][route] # {}
        /\ \A stop \in data[b]["stops-for-route"][x] :
               /\ data[b]["stop"][stop] # {}
               /\ data[b]["arrivals-and-departures-for-stop"][stop] # {}
        /\ \A place \in data[b]["stop"][x] : data[b]["stops-for-location"][place] # {}

\* Bundle c has all that bundle b has.
Extends(c, b) == \A name \in Names, x \in Things : data[b][name][x] \subseteq data[c][name][x]

\* The chain never fails a server for loading a new bundle in the middle of it: if the
\* server is truthful and has an agency, and each bundle so far is full and keeps all
\* that the ones before had, no step fails, whenever the bundles are loaded.  Failures of
\* such a chain are left to what is missing (check_endpoints.go:50-128).
GrowingServerPasses ==
    /\ truthful /\ agencies # {}
    /\ \A b \in 1 .. bundle : Full(b) /\ \A c \in b .. bundle : Extends(c, b)
    => \A i \in DOMAIN out : out[i].status \in {"Pass", "Warn"}
=============================================================================
