----------------------------- MODULE Validation -----------------------------
(***************************************************************************)
(* validator.Run after prepare: the checks of the server, then those of    *)
(* each data source, one after the other while the time passes, and what   *)
(* is made of their results: the document of BuildDocument and the report  *)
(* of WriteText.  What the checks with a module of their own find is left  *)
(* open here.                                                              *)
(***************************************************************************)
EXTENDS Lists, SequencesExt

CONSTANTS
    Configurations,     \* sequences of data sources: [Feeds -> FeedStates]
    Timestamps,         \* what the realtime feeds may be stamped with
    NoTime,             \* a feed without a timestamp
    Findings,           \* sequences of statuses a check with findings may give
    MaxAges,            \* values of rtFreshnessSeconds
    SampleSizes,        \* values of sampleSize
    Ready, MaxTime      \* when prepare is done, and when the clock stops

Realtime == {"vehiclePositions", "tripUpdates", "serviceAlerts"}
Feeds == Realtime \cup {"staticGtfs"}
FeedStates == {"none", "failed", "unusable", "usable"}   \* "none": not configured
Statuses == {"Pass", "Warn", "Fail", "Skip"}

ASSUME ValidationAssumption ==
    /\ \A c \in Configurations : c \in Seq([Feeds -> FeedStates])
    /\ MaxAges \subseteq Int \ {0} /\ SampleSizes \subseteq Int \ {0}
    /\ Timestamps \subseteq [Realtime -> Int \cup {NoTime}]
    /\ Findings \subseteq Seq(Statuses) \ {<<>>}
    /\ Ready \in Int /\ MaxTime \in Int /\ Ready <= MaxTime

VARIABLES
    sources,            \* what prepare has made of the feeds of each data source
    created,            \* CreatedAt of the realtime feeds of each data source
    maxAge, sampleSize, \* from the configuration, its zeros replaced by defaults
    now,
    at,                 \* the number of steps made
    results,            \* rep.Results
    panicked            \* the process has crashed

inputs == <<sources, created, maxAge, sampleSize>>
vars == <<inputs, now, at, results, panicked>>

Init ==
    /\ sources \in Configurations
    /\ created \in [DOMAIN sources -> Timestamps]
    /\ maxAge \in MaxAges
    /\ sampleSize \in SampleSizes
    /\ now = Ready
    /\ at = 0
    /\ results = <<>>
    /\ panicked = FALSE

\* The steps of Run in their order; source 0 is the server.  A step of a data source
\* looks at one of its feeds.
ServerSteps == <<[source |-> 0, check |-> "basic-endpoints"],
                 [source |-> 0, check |-> "agency-union"]>>
SourceSteps(s) ==
    LET On(check, feed) == [source |-> s, check |-> check, feed |-> feed]
    IN  <<On("gtfs-sanity", "staticGtfs"),
          On("rt-freshness", "vehiclePositions"),
          On("rt-freshness", "tripUpdates"),
          On("rt-freshness", "serviceAlerts"),
          On("vehicle-positions-sampling", "vehiclePositions"),
          On("trip-update-sampling", "tripUpdates"),
          On("service-alert-crossref", "serviceAlerts")>>

Plan == ServerSteps \o FlattenSeq([s \in DOMAIN sources |-> SourceSteps(s)])

Running == ~panicked /\ at < Len(Plan)
Step == Plan[at + 1]
State == sources[Step.source][Step.feed]

\* One result of the current step for each of these statuses.
Report(statuses) ==
    /\ results' = results \o
           [k \in DOMAIN statuses |-> [step |-> Step, status |-> statuses[k]]]
    /\ at' = at + 1
    /\ UNCHANGED <<inputs, now, panicked>>
-----------------------------------------------------------------------------
NoAgencies == \A s \in DOMAIN sources : sources[s]["staticGtfs"] # "usable"

\* The union of no agencies, neither of a feed nor of the server, has no result.
ServerCheck ==
    /\ Running /\ Step.source = 0
    /\ \E f \in Findings \cup (IF Step.check = "agency-union" /\ NoAgencies THEN {<<>>} ELSE {}) :
           Report(f)

\* Mutant: the result has no Source and so belongs to the server.
SanityUnlabelled ==
    /\ Running /\ Step.check = "gtfs-sanity"
    /\ results' = Append(results, [step |-> [Step EXCEPT !.source = 0],
                                  status |-> IF State = "usable" THEN "Pass" ELSE "Fail"])
    /\ at' = at + 1
    /\ UNCHANGED <<inputs, now, panicked>>

\* Unusable: without agencies, routes, stops or trips.
Sanity ==
    /\ Running /\ Step.check = "gtfs-sanity"
    /\ Report(IF State = "usable" THEN <<"Pass">> ELSE <<"Fail">>)

\* Mutant: the age is subtracted the wrong way round.
AgeNegated(c) ==
    CASE c = NoTime -> "Warn"
      [] c # NoTime /\ c - now > maxAge -> "Fail"
      [] c # NoTime /\ c - now <= maxAge /\ c - now < -maxAge -> "Warn"
      [] OTHER -> "Pass"

\* The age is that at the moment of the check.
AgeVerdict(c) ==
    CASE c = NoTime -> "Warn"
      [] c # NoTime /\ now - c > maxAge -> "Fail"
      [] c # NoTime /\ now - c <= maxAge /\ now - c < -maxAge -> "Warn"
      [] OTHER -> "Pass"

\* Mutant: a feed that is unavailable is judged on its timestamp too.
FreshnessGoesOn ==
    /\ Running /\ Step.check = "rt-freshness"
    /\ Report(CASE State = "failed" -> <<"Fail", "Warn">>
                [] State = "none" -> <<"Warn">>
                [] OTHER -> <<AgeVerdict(created[Step.source][Step.feed])>>)

Freshness ==
    /\ Running /\ Step.check = "rt-freshness"
    /\ Report(CASE State = "failed" -> <<"Fail">>
                [] State = "none" -> <<"Warn">>
                [] OTHER -> <<AgeVerdict(created[Step.source][Step.feed])>>)

Samples ==
    /\ Running
    /\ Step.check \in {"vehicle-positions-sampling", "trip-update-sampling", "service-alert-crossref"}

\* Mutant: PrepErrors is not looked at, and a feed that failed is nil like an empty one.
UnsampledUnasked ==
    /\ Samples /\ State # "usable"
    /\ Report(<<"Warn">>)

\* A feed that is unavailable, empty, or without an entity to look up: one result.
Unsampled ==
    /\ Samples /\ State # "usable"
    /\ Report(IF State = "failed" THEN <<"Fail">> ELSE <<"Warn">>)

Sampled ==
    /\ Samples /\ State = "usable" /\ sampleSize > 0
    /\ \E f \in Findings : Report(f)

\* Mutant: the slice needs one item more than there are.
PanicsAtLength ==
    /\ Samples /\ State = "usable" /\ sampleSize <= 1
    /\ panicked' = TRUE
    /\ UNCHANGED <<inputs, now, at, results>>

\* sampleByID slices up to a negative sampleSize, which panics.
SampleByIDPanics ==
    /\ Samples /\ State = "usable" /\ sampleSize < 0
    /\ panicked' = TRUE
    /\ UNCHANGED <<inputs, now, at, results>>

\* Requests take time.
Tick ==
    /\ Running /\ now < MaxTime
    /\ now' = now + 1
    /\ UNCHANGED <<inputs, at, results, panicked>>

Check == ServerCheck \/ Sanity \/ Freshness \/ Unsampled \/ Sampled \/ SampleByIDPanics

Next == Check \/ Tick

Spec == Init /\ [][Next]_vars
FairSpec == Spec /\ WF_vars(Check)
-----------------------------------------------------------------------------
(* The document and the text report.                                       *)
Count(rs, status) == Cardinality({k \in DOMAIN rs : rs[k].status = status})

\* Mutant: the result that stands at the end of a source is dropped.
GroupButLast(s) ==
    LET rs == Kept(results, {k \in DOMAIN results : results[k].step.source = s})
        front == IF rs = <<>> THEN <<>> ELSE Front(rs)
    IN  [id |-> s, results |-> front, counts |-> [st \in Statuses |-> Count(front, st)]]

buildGroup(s) ==
    LET rs == Kept(results, {k \in DOMAIN results : results[k].step.source = s})
    IN  [id |-> s, results |-> rs, counts |-> [st \in Statuses |-> Count(rs, st)]]

\* The server, each configured source, then what is left over, in order.
Leftover == {r.step.source : r \in Range(results)} \ (0 .. Len(sources))
Groups == <<buildGroup(0)>> \o [s \in DOMAIN sources |-> buildGroup(s)]
              \o Kept([s \in Leftover |-> buildGroup(s)], Leftover)

Worst ==
    LET all == {r.status : r \in Range(results)} IN
    CASE "Fail" \in all -> "Fail"
      [] "Fail" \notin all /\ "Warn" \in all -> "Warn"
      [] OTHER -> "Pass"

Summary ==
    [verdict |-> IF Worst = "Fail" THEN "FAIL" ELSE "PASS",
     total |-> Len(results),
     counts |-> [st \in Statuses |-> Total([g \in DOMAIN Groups |-> Groups[g].counts[st]])]]

\* A line for each result, under its source, and the last line.
TextWith(warnings) ==
    [lines |-> [k \in DOMAIN results |-> <<results[k].step.source, results[k].status>>],
     verdict |-> IF Worst = "Fail" THEN "FAIL" ELSE "PASS",
     checks |-> Len(results),
     failed |-> Count(results, "Fail"),
     warnings |-> warnings]

\* Mutant: what neither passes nor fails is a warning.
SkipsAreWarnings == TextWith(Len(results) - Count(results, "Pass") - Count(results, "Fail"))

WriteText == TextWith(Count(results, "Warn"))
-----------------------------------------------------------------------------
TypeOK ==
    /\ now \in Ready .. MaxTime
    /\ at \in 0 .. Len(Plan)
    /\ panicked \in BOOLEAN
    /\ \A r \in Range(results) : r.step \in Range(Plan) /\ r.status \in Statuses

Reported == ~panicked /\ at = Len(Plan)

\* document.go:144-145 "so no data is ever dropped": the groups hold every result once, in
\* the order of the run, one group for the server and one for each source, and the
\* summary agrees with the groups (document.go:131-161, 200-218).
DocumentComplete ==
    Reported =>
        /\ FlattenSeq([g \in DOMAIN Groups |-> Groups[g].results]) = results
        /\ [g \in DOMAIN Groups |-> Groups[g].id] = [g \in 1 .. Len(sources) + 1 |-> g - 1]
        /\ LET n == Summary.counts
           IN  Summary.total = n["Pass"] + n["Warn"] + n["Fail"] + n["Skip"]
        /\ (Summary.verdict = "FAIL") = (\E g \in Range(Groups) : g.counts["Fail"] > 0)

\* The caller's row holds the document and its log the text: the two tell the same run,
\* line by line and in their totals (report.go:60-84, document.go:200-218).
TextAgrees ==
    Reported =>
        LET lines == WriteText.lines
            InText(s) == Kept(lines, {k \in DOMAIN lines : lines[k][1] = s})
        IN  /\ \A g \in Range(Groups) :
                   InText(g.id) = [k \in DOMAIN g.results |-> <<g.id, g.results[k].status>>]
            /\ WriteText.verdict = Summary.verdict /\ WriteText.checks = Summary.total
            /\ WriteText.failed = Summary.counts["Fail"]
            /\ WriteText.warnings = Summary.counts["Warn"]

\* oba-validator-design.md:417-423: a feed that could not be fetched or parsed is told from
\* one that is empty by the results of its source alone.  The first fails, and whatever
\* else depends on it fails too or is skipped; of a realtime feed that is empty or not
\* configured each check of what is in it warns, and it fails for its age if at all.  A
\* static feed that is not usable fails the run.
PreparationTold ==
    Reported =>
        \A s \in DOMAIN sources, f \in Feeds :
            LET of == {r \in Range(results) : r.step.source = s /\ r.step.feed = f}
                content == {r \in of : r.step.check # "rt-freshness"}
                empty == f \in Realtime /\ sources[s][f] \in {"none", "unusable"}
            IN  /\ content # {}
                /\ sources[s][f] = "failed" =>
                       (\E r \in of : r.status = "Fail") /\ \A r \in of : r.status \in {"Fail", "Skip"}
                /\ empty =>
                       /\ \A r \in content : r.status = "Warn"
                       /\ \A r \in of : r.status = "Fail" =>
                              /\ sources[s][f] = "unusable" /\ created[s][f] # NoTime
                              /\ now - created[s][f] > maxAge
                /\ sources[s]["staticGtfs"] # "usable" => Summary.verdict = "FAIL"

\* Each check of each source has a result, exactly one if it is about a feed as a whole;
\* only the union of no agencies may have none.
EveryCheckReports ==
    Reported =>
        \A k \in 1 .. Len(Plan) :
            LET n == Cardinality({j \in DOMAIN results : results[j].step = Plan[k]})
            IN  /\ n > 0 \/ (Plan[k].check = "agency-union" /\ NoAgencies)
                /\ Plan[k].check \in {"gtfs-sanity", "rt-freshness"} => n = 1

\* oba-validator-design.md:333-337: staleness is final.  After a feed was found stale,
\* no feed as old passes, of whatever source and however long the run takes.
StaleIsFinal ==
    \A i, j \in DOMAIN results :
        LET IsStamped(r) == /\ r.step.check = "rt-freshness"
                            /\ sources[r.step.source][r.step.feed] \in {"usable", "unusable"}
                            /\ created[r.step.source][r.step.feed] # NoTime
        IN  /\ i < j /\ IsStamped(results[i]) /\ IsStamped(results[j])
            /\ created[results[j].step.source][results[j].step.feed]
                   <= created[results[i].step.source][results[i].step.feed]
            /\ results[i].status = "Fail"
            => results[j].status = "Fail"

\* A run with a sample size of at least one ends with a report, and one that panics has
\* a sample size that --sample-size would not take (main.go:87-89).
RunEnds == <>(Reported \/ (panicked /\ sampleSize < 0))
=============================================================================
