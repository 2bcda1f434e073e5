# Verification of oba-validator

oba-validator is a command-line program that validates a OneBusAway server
against the static and realtime GTFS feeds it is built from. This directory
holds TLA+ models of it, the TLC runs that check them and the proofs about them.
Every definition names, in `PROJECT.json` under `map`, the lines of the source it
models; `PROJECT.json` also lists the components, the runs, the mutants that show
each property can fail, the hazards of the code and the theorems.

## The system: inventory

| component | state it keeps | operations | hard behaviours |
| --- | --- | --- | --- |
| command (`cmd/oba-validator/main.go`, `entrypoint.sh`) | stdout, exit code, sink row | `run`, `applyOverrides` | several steps that can fail one after the other; a panic of the checks; a kill between stdout and the sink |
| configuration (`config/config.go`) | the `Config` value | `Load`, `applyDefaults`, `validate`, `SinkConfig` | zero, negative and missing numbers |
| preparation (`validator.Run`, `prepare`, `context.go`) | one slot per feed and source, the map of preparation errors, a semaphore, a wait group | one goroutine per feed | interleaving, partial failure, waiting on a lock while holding a semaphore slot |
| static feed cache (`feeds/cache.go`, `feeds/fetch.go`) | two files per URL, temporary files, a mutex per URL and process | `FetchStatic`, `load`, `store` | kills between two writes, full disks, races of goroutines and of processes, stale entries |
| feed parsing (`feeds/gtfs.go`) | the parsed feed | `ParseStatic`, `ParseRealtime`, agency lookups | partial failure |
| server checks (`check_endpoints.go`, `check_agencies.go`) | the list of results | a chain of seven requests, the union of the agencies | a chain broken in the middle, a set read while it is filled |
| data-source checks (`check_gtfs_sanity.go`, `check_freshness.go`, `check_vehicles.go`, `check_tripupdates.go`, `check_alerts.go`) | the list of results | sampling, cross-references | a world that moves on between the feed and the question, missing values, time |
| identifiers (`idnorm.go`), helpers (`util.go`), statuses (`status.go`, `result.go`) | none | `IDMatch`, `sampleByID`, `Worst` | ambiguous identifiers, bad sample sizes |
| report (`report/`) | the document | `BuildDocument`, `WriteText`, `RenderJSON` | totals that must agree |
| result sink (`sink/`) | one row per correlation id in Postgres | `Validate`, `Write` | duplicated jobs, lost connections, kills |

### How they interact

`main.run` loads the configuration, calls `validator.Run`, prints the report and
hands it to `sink.Write`. `validator.Run` calls `prepare`, which lists the agencies
of the server and starts one goroutine per configured feed; a goroutine holds a slot
of the semaphore while it calls `FetchStatic` (which takes the mutex of its URL and
the two files of the cache entry) or `FetchRealtime`, parses the bytes and either
assigns the feed to its `SourceContext` or records an error in its `PrepErrors`. When
the wait group is down to zero the checks run one after the other in the main
goroutine, first those of the server, then those of each source, and ask the server
as they go. The results become the document; the document goes to stdout and, if the
five sink fields are set, into one row of the caller's table, which other jobs for the
same correlation id may also try to write.

### What makes each component correct

* Cache: an entry is never partial, a 304 never resurrects other bytes than the
  origin means, an answer is never older than the TTL allows, every call returns, and
  nothing but a kill leaves a copy of the feed behind.
* Preparation: each feed is decided once, before the checks start; nobody writes
  under the checks; the concurrency cap holds; the checks do start.
* Sink and command: one row per id, never overwritten, never `completed` before the
  report is out; the exit code tells whether there was a report; who gets as far as a
  report leaves a row.
* Checks: a server that tells the truth is not failed, a server that tells nothing
  is, the sample does not depend on the order of the feed, every sampled entity and
  every step of a chain has its result.
* Run and report: no result is lost, document and text tell the same, totals and
  verdict agree, a feed that could not be had is told from an empty one.

## The modules

| module | models | abstract specification | TLC instance | proofs |
| --- | --- | --- | --- | --- |
| `FeedOrigin` | the HTTP origin of a feed and the clock (external) | | | |
| `FeedCache` | `FetchStatic`, `load`, `store` on one URL, step by step | `FeedRead` | `MCFeedCache` | `FeedCacheProofs` |
| `TempFiles` | `FeedCache` with the temporary files of `store` | | `MCTempFiles` | `FeedCacheProofs` |
| `Prepare` | `prepare` and `prepErr` | `FeedOutcomes` | `MCPrepare` | `PrepareProofs` |
| `Configuration` | `config.Load`, `applyOverrides`, `sink.Configured` and `Validate`: the fields that decide how a job ends | | | |
| `ResultJob` | `entrypoint.sh`, `run` and `sink.Write`, for several jobs on one table | `ResultContract` | `MCResultJob` | `ResultJobProofs` |
| `Ids`, `Source` | `idnorm.go`; the agency lookups and the mapping | | | `HelperProofs` |
| `Lists` | the filters, the sort and the sums of the program's loops | | in the modules that use it | `HelperProofs` |
| `Sampling` | `sampleByID` | `SmallestChosen` | in the two checks that use it | `HelperProofs` |
| `VehicleSampling` | `check_vehicles.go` with the server and the vehicles | | `MCVehicleSampling` | `VehicleSamplingProofs` |
| `ArrivalsCrossref` | `check_tripupdates.go` and `check_alerts.go` | | `MCArrivalsCrossref` | `ArrivalsCrossrefProofs` |
| `BasicEndpoints` | `check_endpoints.go` with a server that loads new data | | `MCBasicEndpoints` | `ServerChecksProofs` |
| `AgencyUnion` | `check_agencies.go` | | `MCAgencyUnion` | `ServerChecksProofs` |
| `Validation` | `validator.Run` after `prepare`, sanity, freshness, `BuildDocument`, `WriteText` | | `MCValidation` | `ValidationProofs` |

`VehicleSampling` and `ArrivalsCrossref` extend `Source`, which extends `Ids`, and
`Sampling`, which extends `Lists`, as `Validation` does. The names of `AgencyUnion` and
`TempFiles` differ from those of their neighbours, so that one module of proofs can
extend both. `ResultJob` extends `Configuration`, `TempFiles` extends `FeedCache`.
`Prepare` sees `FetchStatic` from outside: a lock taken, a result or an error, the
lock released, which is what `FeedCache` guarantees (`CallsReturn`, `ImplementsRead`).
`Validation` begins where `FeedOutcomes` ends, with each feed either parsed or failed,
and leaves open what the checks with modules of their own find. `ResultJob` takes the
whole of `validator.Run` as one step that yields a report or panics, as `Validation`
does with a negative sample size.

### State and actions against the code

* **FeedCache.** `body` and `meta` are the two files; a meta that does not parse is
  `NoMeta`, as `load` treats both alike; a file that is there but cannot be read is a
  miss too. An unconditional request is not answered 304, as HTTP has it: the code at
  `fetch.go:82` asks only whether there was a hit, and would serve it from the cache.
  `got`, `gotMeta` and `tmpWhole` are the local variables and the temporary file of a
  goroutine. One action per file or network operation: `LoadBody`, `LoadMeta`,
  `ServeFresh`, `Send`, `Receive304`, `Receive200`, `RequestFails`, `ReadBody`,
  `CreateTemp`, `WriteTemp`, `Rename`, `TruncMeta`, `WriteMeta` (`os.WriteFile`
  truncates before it writes), `StoreFails` at any of the five operations of `store`,
  `Return` with the deferred unlock, and `Restart`, which kills a process between any
  two. Bytes are a version number and whether all of them are there. `floor` is a
  history variable: what the origin served when a call began.
* **TempFiles.** `temps` holds the goroutines whose temporary file is in the directory:
  `os.CreateTemp` adds one, `os.Rename` and the `os.Remove` of each error path of
  `store` take it away. Every other step is the one of `FeedCache`.
* **Prepare.** `pc[j]` walks through the closure of one goroutine, `inUse` is the
  channel, `wg` the wait group, `urlLock` the mutex of the cache, `mu` that of
  `prepErr`. The deferred calls are two steps in their order: slot, then `wg.Done`.
  `Outcome(j)`, which the refinement of `FeedOutcomes` maps a feed to, is parsed, failed,
  neither or *both*; `both` is no state of `FeedOutcomes`, so a feed that is assigned and
  recorded as an error, in either order, is not a step it allows.
* **ResultJob.** `out`, `status` and `code` are what a job has printed, hands to the
  sink and will return. `inv` is how it was invoked: the token, the flags and the fields
  of the JSON that `Configuration` names. `EntrypointFails`, `BadUsage` and `BadConfig`
  end a job before the run, `Panics` in it. `--json` and `db_url` choose between the
  four branches of `run`. `WriteRejects` is `sink.Write` refusing fields it can only
  judge now, a `db_url` that does not parse. `DbFails` is an error of any operation on
  the connection, the insert perhaps after commit; `Kill` may also leave an insert
  committed. The check of the status in `sink.Write` is left out, since `run` gives it
  none but `completed` and `error`.
* **Lists.** `Arranged` takes items in an order of their indices; a filter (`Kept`) keeps
  the order they have, and `Total` is the sum a loop makes.
* **Sampling.** `sampleByID` is a stable sort by id and a cut. The feeds of the two
  checks are sequences, their `todo` what is left of the sample; an id comes before
  another by the order of Go strings, which the instances give for the ids they use.
* **Checks.** An action is one entity judged or one request answered. A server is
  *faithful* (serves the feed, under its mapping, in ids of its own making or the
  feed's), *silent* (every answer empty) or *arbitrary* (any answer, error or null).
  `Move` and `Expire` let vehicles, trips and alerts go on while the check runs; a
  vehicle that has ended its trip may go out of service, and a faithful server then does
  not list it any more.
  Identifiers are sequences of the parts between underscores.
* **BasicEndpoints.** `data` are the bundles the server loads one after the other, each
  of them what every endpoint lists for every thing; `got[n]` is what the check has taken
  from the answer to step `n`, and `Uses[n]` the step whose answer step `n` asks with. A
  *truthful* server answers from the bundle that is loaded, an empty list included, which
  fails the step; any other server answers as it likes.
* **AgencyUnion.** `exp` are the agencies of all feeds in their order, each with the name
  and the mapping of its own source; `expectedSet` grows as `Compare` goes through them.
* **Validation.** `Plan` is the order of the checks, `at` the position, `now` the
  clock, `created` the stamps of the realtime feeds of each source. Only the union of no
  agencies, of the feeds and of the server, reports nothing. `Groups` and `Summary` are
  the document of `results`, `WriteText` is the text report: a line per result with its
  source and status, and the totals.

## The runs

| run | question | result |
| --- | --- | --- |
| `cache_one` | two goroutines of one process, kills, failing disks (reads too) and any flags: answers, 304s, entry, refinement, termination | holds |
| `cache_two_processes` | can two processes leave a partial entry, or anything but a kill a temporary file? | no |
| `cache_shared` | does a 304 give the right bytes with two processes? | **violated** (`feeds/cache.go:57`) |
| `prepare` | is each feed parsed or failed and never both, by one writer, within the cap, and do the checks start? | holds |
| `result_job` | a job invoked in every way, its retry and another: exit code, row by whatever branch, contract with the caller, nothing but a statement of the database holds it up | holds |
| `result_job_row` | is a row "always written"? | **violated** (`main.go:143`) |
| `vehicle_sampling` | a faithful server fails only for vehicles that have moved on, a silent one is caught, the vehicles judged are those with the smallest ids | holds |
| `vehicle_no_trip_pass` | does only a vehicle with a trip pass `trip-for-vehicle`? | **violated** (`check_vehicles.go:99`) |
| `arrivals` | the same for trip updates and alerts | holds |
| `basic_endpoints` | one result per step in order, the rest of a broken chain skipped, a truthful server is not failed for loading bundles that only grow | holds |
| `agency_union` | one result per agency whatever the order, no hint lost | holds |
| `validation` | every check reports, failures told from emptiness, the document loses nothing, the text agrees with it, staleness is final, the run ends | holds |

### The three violations

* `cache_shared`: `load` reads body and meta one after the other and the mutex is per
  process. Another process stores between the two reads; the request goes out with the
  new validators, the 304 is answered with the old body.
* `result_job_row`: a configuration whose five sink fields are good but which fails
  `config.Load` for another reason ends with exit code 2 and no row, and a caller that
  polls for the row waits in vain.
* `vehicle_no_trip_pass`: a vehicle whose descriptor has a route but no trip id passes
  when the server has no current trip either, because `""` matches `""` before the
  case for an empty trip is reached.

Other places where code and documents differ, seen while modelling and followed by the
models as the code has them, without a run: a vehicle without a trip id *fails* as soon
as the server knows its trip (`check_vehicles.go:106`); an endpoint that errors is a
warning for alerts (`check_alerts.go:97`, design :390); the ids of the answers to
`stops-for-route` and `arrivals-and-departures-for-stop` are not compared
(`check_endpoints.go:80`, `:118`, design :294 and :299); the hint for a missing agency
may name one that a later feed accounts for (`check_agencies.go:52`, design :322); the
checks of a feed that failed in `prepare` fail instead of being skipped (design :424;
`PreparationTold` allows both);
freshness is judged at the time of the check, after the requests of all checks before,
not of the download (`check_freshness.go:37`, design :274); a negative `sampleSize`
passes `config.Load` and panics in `sampleByID` (`util.go:37`, actions
`SampleByIDPanics` and `Panics`), which leaves neither an error document nor a row;
with `--json` a usage error, a failure to render and that panic print no error document
(`main.go:125`, README :60); without `--json` a failure to render for the sink records
`error` for a run that did report (`main.go:206`); a `db_url` that does not parse is
found only when the report is out (`sink/dsn.go:24`, while `sink.go:66` wants a sink
that cannot work refused first); the sample is the same for every order of the feed
only as long as no two entities share an id or lack one (`util.go:31`, design :340);
two processes that truncate and write a meta at once may tear it, which is read as a
miss; a kill between the rename and the
meta, and an origin that later goes back to the earlier zip with its earlier validators,
make a 304 serve the withdrawn body (`feeds/cache.go:88`; the proofs exclude it by
`NoRollback`).

### Bounds, and why they are enough

* `cache_one`: two versions, times 0 to 2, TTL 1 and timeout 1. Two versions are enough
  for every confusion of one with the other; the clock reaches one past the TTL, so an
  entry can be served, be exactly the TTL old, and be asked for again; two goroutines
  contend for the mutex while a third would only wait with the second. The theorems
  remove these bounds. `cache_two_processes` has two processes of one goroutine each,
  with the temporary files; its properties are proved for any number of both.
* `prepare`: five feeds of two sources, two of them on one cached URL, semaphores of one
  and two slots, and of the four that replace 0 and -1: more goroutines than slots, a
  waiter that holds a slot, two error writers of one source.
* `result_job`: three jobs, two of them for one id. With two ids and a retry every pair
  of jobs either shares an id or does not. The first is invoked in every way that makes
  a difference: token, usage and required fields good or not, `--json` or not, a blank,
  malformed or good `db_url` with complete, missing or dangerous siblings, a negative
  sample size with and without an override; its retry with and without `--json`.
* `vehicle_sampling`: four vehicles, one each with a trip in the static feed, with an
  added trip on a known route, with a route only, and with nothing; two agencies, one
  renamed by the mapping and one with an underscore in its id; feeds of up to three of
  them in any order; two of the vehicles share an id, so that the feed's order decides.
  The sample size is below or above the number of candidates. One vehicle has the id of
  another for its label, and one of the static feeds has a route with another agency, so
  that `ToldApart` is false of some vehicles. `arrivals`: trip updates and alerts of the
  same kinds, feeds of up to four in any order, sample sizes as in the cfg; one of the
  stops reads, without its agency, as a stop of the other agency, so that `AsksOwnStop`
  is false of some entities. The theorems remove these bounds.
* `basic_endpoints`: servers with up to three bundles, so that an id can be two loads old:
  one that grows and one that keeps its data, one that drops a stop, at once or after it
  has grown, one that goes back to less, one that lists an agency without routes, one
  without agencies. Loads may fall between any two requests, so the antecedent of
  `GrowingServerPasses` holds of complete chains with two loads in them.
* `agency_union`: none to three sources over four GTFS agencies, with names that differ
  from source to source, right, wrong and missing
  mappings, every subset of the three agencies of the server.
* `validation`: one source with feeds in all states (two of the feeds in the same one)
  or two sources; stamps that are old, of now, in the future and missing, not the same
  for both sources; limits and sample sizes of both signs; a clock that ticks once, at
  any point.

### Fairness

* `FeedCache!Fairness`: an operation that has begun ends (weak), the only one that could
  hang being the request, which `http.Client.Timeout` ends; the mutex is strongly fair
  because `sync.Mutex` hands over to a waiter that has starved for a millisecond.
* `Prepare!FairSpec`: the Go scheduler runs what can run; each feed is fetched once, so
  no lock is taken over and over and weak fairness is enough.
* `ResultJob!FairSpec`: the process runs on by itself, and an attempt to connect ends by
  `connect_timeout` (`sink/dsn.go`). Nothing is assumed of the statements: `main.go:150`
  gives them `context.Background()`, `statement_timeout` is kept by the server, and a
  connection that goes silent leaves a job in `Exec`. `ReportNotHeldUp` therefore says
  where a job may hang, and that its report is out by then. A kill is never required.
* `Validation!FairSpec`: each check ends, since each request does.

All four take each HTTP request to end, which `http.Client.Timeout` gives for a positive
`timeoutSeconds` that does not overflow.

Deadlock is not a question in these runs. In the cache runs it is left switched on, but
says nothing, since `Restart` is always enabled: that no call hangs is `CallsReturn`.
Elsewhere the process ends, and the cfg says `CHECK_DEADLOCK FALSE`; that it does end, or
where it may hang, is `ChecksStart`, `ReportNotHeldUp` and `RunEnds`.

## The proofs

TLAPS proves the following for every number of goroutines, processes, feeds, sources,
slots, jobs, ids, bundles, versions and times.

* **FeedCacheProofs**: type correctness for any processes; and, if all goroutines run in
  one process (`OneProcessOnly`), that an entry is never partial, the meta never ahead of
  the body, every answer whole, the mutex exclusive; with no rollback at the origin
  (`NoRollback`) moreover that a 304 serves the origin's current bytes and that
  `FeedCache` implements `FeedRead`. None of these is inductive alone. `IInv` adds
  `OriginInv` (publication times are ordered), `LockInv` (who is past the lock holds it),
  `DiskInv` (what stands on the disk at rest, and while the holder is between rename and
  meta) and `FetchInv` (what a goroutine holds at each program counter). Every step is
  shown to keep them by one lemma for the environment, one for the goroutine that moves,
  one for the others (`Frame`, `ProgressKeepsOthers`) and one for kills.
  `Restart` is what makes `DiskInv` necessary: whatever the killed holder left must be
  explained without it.
* **FeedCacheProofs**, its last part, on `TempFiles`: what needs no mutex, so for any
  number of processes as well: an entry is never partial, every answer is whole, and
  only a kill leaves a temporary file. `SharedInv` says that the body, once there, is
  whole and is never removed (`EntryInv`), and of each goroutine that what it has read
  from the directory, is about to put there or gives to its caller is whole (`Reads`,
  `Writes`, `Gives`); none of it speaks of the other goroutines, which is why the lock
  is not needed. The refinement and the 304s do need it: `cache_shared`.
* **PrepareProofs**: type correctness, the cap, exclusive error writers, and that
  `Prepare` implements `FeedOutcomes`. `IInv` says that the wait group and the semaphore
  *count* the goroutines between two program counters (`CountInv`), that spawned
  goroutines are exactly the first `spawned` feeds (`MainInv`), and that a feed is parsed
  or failed exactly when its goroutine is past its assignment (`TraceInv`). The counts are
  carried by two lemmas on adding and removing one element (`Enter`, `Leave`).
* **ResultJobProofs**: type correctness, exit codes, rows, and that `ResultJob`
  implements `ResultContract`. `JobInv` ties output, status and code to the program
  counter of a job; `Loaded` in it says that who is past `config.Load` has all sink
  fields or none, so that `sink.Write` can only refuse a `db_url` (`AcceptedUnlessMalformed`);
  `RowUnlessFault` is part of the invariant because rows are shared.
* **HelperProofs**: what the program's lists hold, for any items. What is arranged by a
  strict order of the indices is a permutation (`ArrangedByPlaces`: the rank of an index
  is the number of indices before it, and ranks are a bijection), so a filter keeps the
  items and their order, and `SampleChosen` follows: `sampleByID` takes the smallest ids,
  each item once. `Induction` is the induction up to a number, over a *set* of numbers
  instead of a predicate; with it the recursive functions `Total` and `FlattenSeq` are
  shown to be what their loops build (`TotalSums`, `FlattenSteps`). Of identifiers: an id
  matches itself under any agency's prefix, and the agency can be told from a prefixed id.
* **ServerChecksProofs**, on `BasicEndpoints`: types, one result per step in order with
  exactly the steps after a failure skipped, and that a truthful server is not failed
  for loading bundles that are full and only grow. `OutInv` and `RestInv` say that the
  results so far and the steps that remain are the two parts of the chain at `at`;
  `HeldInv`, that each id held was listed by a bundle loaded since, so that the bundle
  of now has it too. On `AgencyUnion`: types, the results the design wants, and that no
  hint is missed. `UnionInv` says what each result so far says of its agency and that a
  hint, where it is missing, could not have been given from the agencies expected *up to
  there* (`ComparedAt`); that set only grows, so the complete one would give none
  either. The results after those are counted by the set of their ids, of which no
  action repeats one.
* **VehicleSamplingProofs** and **ArrivalsCrossrefProofs**: types, that exactly the
  sample is judged, and both halves of evidence-based severity: a silent server fails, a
  faithful one does not, whatever moves or expires. `FrameInv` carries the loop: what is
  judged, what is being judged and what is left are the sample, none twice (`SplitInv`,
  `LoopInv`), and the results of a vehicle are those of the steps made. The severity
  invariants add to it what the last answer has shown. Two conditions are part of the
  properties, since without them the code does fail a faithful server, as the runs show:
  `ToldApart`, that a static feed that is out of date does not give the vehicle another
  agency (the mapping is right, `MappingRight`) and that no other vehicle of the server
  has the id that is asked for; and `AsksOwnStop`, that the stop asked for, under the
  agency the check has derived, is not another stop of the server. With a static feed
  that is up to date, and agencies of which no two have ids that read as the same served
  id, neither excludes anything; the instances have entities of which they hold and of
  which they do not.
* **ValidationProofs**: types, that every check reports, that failed feeds are told from
  empty ones, that staleness is final, and that document and text hold every result, for
  any number of sources and findings. The plan is a flattened sequence, of which
  `PlanPlace` computes each place. `Inv` says where the results come from: each of a
  step made, those of one source together (`PlaceInv`, on which the regrouping of the
  document rests), each step made with its results (`OnceInv`), each result with what
  `prepare` has made of the feed (`ToldInv`: a failed feed fails, of an empty or
  unconfigured one what is in it warns, and one without a stamp does not fail for its
  age), and each stale feed stale *now* (`StaleInv`: `StaleIsFinal` alone is not
  inductive, because a result says nothing of the clock it was judged by). The document
  is then computed from the results: `GroupsFlatten` by induction over the groups, each
  of them an interval of the results; `CountTotals` by the same induction on the counts.

The assumptions on constants are the named `ASSUME`s of the modules; TLC evaluates each
in the runs. `OneProcessOnly` and `NoRollback` are hypotheses of theorems on the cache, and
`cache_shared` shows that the first cannot be dropped; no other theorem about a
specification has a hypothesis.
The abstract modules `FeedRead`, `FeedOutcomes` and `ResultContract` are implemented by
proof as well as by model checking.

Every invariant and every action property of the passing runs, and every refinement, is
proved. Only model-checked are the liveness properties (`CallsReturn`, `ChecksStart`,
`ReportNotHeldUp`, `RunEnds`): they rest on fairness, hence on `ENABLED`, which the prover does
not reason about. The three violations are counterexamples and need no proof.

## Not modelled, and why

* String editing and layout: `redact`, `redactString`, `scrub`, messages, `splitCheck`,
  column widths, the defaults `normalizeDSN` adds to an address, table-name quoting.
* `go-gtfs`, `go-sdk`, `pgx`, `net/http`: used through their results. Retries inside the
  SDK are part of an answer or an error.
* Coordinates: a place is asked for and answered, boxes are not computed.
* `Dockerfile`, `render.yaml`: the platform starts and kills jobs, which `ResultJob` and
  `FeedCache` contain.
* Configuration fields that are only passed on, and a `timeoutSeconds` that is negative
  or so large that it overflows (`validator.go:55`): `http.Client` then has no timeout,
  and the liveness properties, which take it to be positive, say nothing.
* A torn meta that two processes have written to at the same time: it does not parse,
  and the model has that state as `NoMeta` already.

## Plan

1. Done: cache, preparation, configuration, command and sink, each with its abstract
   specification where it has one; the temporary files; the chain, the union, the two
   sampling checks, the run with its document and text; proofs of all their safety
   properties and refinements.
2. Proofs next: that the conditions `ToldApart` and `AsksOwnStop` hold of every entity
   when no id of an agency begins with another's (`AgencyTold` is the first step); and
   that what `Validation` leaves open of the checks, a sequence of statuses, is what
   `AgencyUnion` and `BasicEndpoints` report.
3. Model next, if the code grows there: realtime fetches beside `FetchStatic` in
   `Prepare` (they share the client, not the cache).
