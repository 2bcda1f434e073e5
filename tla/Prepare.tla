------------------------------ MODULE Prepare -------------------------------
(***************************************************************************)
(* validator.prepare: the main goroutine lists the agencies, starts one    *)
(* goroutine per configured feed and waits for them; each takes a slot of  *)
(* the semaphore, fetches and parses its feed, and assigns the result to   *)
(* its data source or records an error there.  FetchStatic is seen from    *)
(* outside: it holds the lock of its URL while it works (FeedCache).       *)
(***************************************************************************)
EXTENDS Integers, FiniteSets

CONSTANTS
    NumFeeds,       \* the feeds of all sources, in the order prepare starts them
    Sources,        \* the data sources
    SourceOf,       \* the data source of each feed
    Urls,           \* the URLs of cached static feeds
    UrlOf,          \* the URL whose lock a feed's fetch takes, or NoUrl
    NoUrl,          \* a realtime feed, or --no-cache
    NoFeed,         \* the holder of a free mutex
    Concurrencies   \* the values of maxConcurrency considered

Feeds == 1 .. NumFeeds

ASSUME PrepareAssumption ==
    /\ NumFeeds \in Nat
    /\ SourceOf \in [Feeds -> Sources]
    /\ UrlOf \in [Feeds -> Urls \cup {NoUrl}]
    /\ NoUrl \notin Urls
    /\ NoFeed \notin Feeds
    /\ Concurrencies \subseteq Int

VARIABLES
    main,           \* where the main goroutine is
    agencies,       \* vc.Agencies and vc.AgenciesErr
    cap,            \* the capacity of the semaphore
    spawned,        \* feeds 1 .. spawned have a goroutine
    wg,             \* the counter of the wait group
    inUse,          \* the semaphore: slots taken
    pc,             \* pc[j]: the next operation of the goroutine of feed j
    urlLock,        \* urlLock[u]: who holds the cache's mutex of URL u
    mu,             \* mu[s]: who holds src.mu of source s
    parsed,         \* the feeds assigned to their slot of the SourceContext
    failed          \* the feeds with an entry in PrepErrors

vars == <<main, agencies, cap, spawned, wg, inUse, pc, urlLock, mu, parsed, failed>>
mainVars == <<main, agencies, cap, spawned>>

Steps == {"none", "sem", "lock", "fetch", "parse", "record", "write", "release", "done", "ended"}

\* Mutant: only a negative maxConcurrency is replaced.
CapacityOfZero(m) == IF m < 0 THEN 4 ELSE m

Capacity(m) == IF m <= 0 THEN 4 ELSE m

Init ==
    /\ main = "agencies"
    /\ agencies = "unknown"
    /\ cap \in {Capacity(m) : m \in Concurrencies}
    /\ spawned = 0
    /\ wg = 0
    /\ inUse = 0
    /\ pc = [j \in Feeds |-> "none"]
    /\ urlLock = [u \in Urls |-> NoFeed]
    /\ mu = [s \in Sources |-> NoFeed]
    /\ parsed = {}
    /\ failed = {}

\* A failure of agencies-with-coverage is kept for the checks and stops nothing.
ListAgencies ==
    /\ main = "agencies"
    /\ main' = "spawn"
    /\ agencies' \in {"listed", "error"}
    /\ UNCHANGED <<cap, spawned, wg, inUse, pc, urlLock, mu, parsed, failed>>

Spawn ==
    /\ main = "spawn" /\ spawned < NumFeeds
    /\ spawned' = spawned + 1
    /\ wg' = wg + 1
    /\ pc' = [pc EXCEPT ![spawned + 1] = "sem"]
    /\ UNCHANGED <<main, agencies, cap, inUse, urlLock, mu, parsed, failed>>

\* wg.Wait returns and Run goes on to the checks.
BeginChecks ==
    /\ main = "spawn" /\ spawned = NumFeeds
    /\ wg = 0
    /\ main' = "checks"
    /\ UNCHANGED <<agencies, cap, spawned, wg, inUse, pc, urlLock, mu, parsed, failed>>

Goto(j, from, to) == pc[j] = from /\ pc' = [pc EXCEPT ![j] = to]

\* Mutant: one slot too many.
AcquireOneMore(j) ==
    /\ inUse <= cap
    /\ inUse' = inUse + 1
    /\ Goto(j, "sem", IF UrlOf[j] = NoUrl THEN "fetch" ELSE "lock")
    /\ UNCHANGED <<mainVars, wg, urlLock, mu, parsed, failed>>

Acquire(j) ==
    /\ inUse < cap
    /\ inUse' = inUse + 1
    /\ Goto(j, "sem", IF UrlOf[j] = NoUrl THEN "fetch" ELSE "lock")
    /\ UNCHANGED <<mainVars, wg, urlLock, mu, parsed, failed>>

LockUrl(j) ==
    /\ pc[j] = "lock" /\ urlLock[UrlOf[j]] = NoFeed
    /\ urlLock' = [urlLock EXCEPT ![UrlOf[j]] = j]
    /\ Goto(j, "lock", "fetch")
    /\ UNCHANGED <<mainVars, wg, inUse, mu, parsed, failed>>

Unlocked(j) ==
    IF UrlOf[j] = NoUrl THEN urlLock ELSE [urlLock EXCEPT ![UrlOf[j]] = NoFeed]

\* FetchStatic or FetchRealtime returns bytes or an error, its lock released.
Fetch(j) ==
    /\ Goto(j, "fetch", "parse") \/ Goto(j, "fetch", "record")
    /\ urlLock' = Unlocked(j)
    /\ UNCHANGED <<mainVars, wg, inUse, mu, parsed, failed>>

\* Mutant: what was parsed is assigned before its error is looked at.
ParseAssignsFirst(j) ==
    /\ Goto(j, "parse", "release") \/ Goto(j, "parse", "record")
    /\ parsed' = parsed \cup {j}
    /\ UNCHANGED <<mainVars, wg, inUse, urlLock, mu, failed>>

\* The bytes parse and are assigned, or they do not.
Parse(j) ==
    /\ \/ Goto(j, "parse", "release") /\ parsed' = parsed \cup {j}
       \/ Goto(j, "parse", "record") /\ UNCHANGED parsed
    /\ UNCHANGED <<mainVars, wg, inUse, urlLock, mu, failed>>

\* Mutant: PrepErrors is written without its mutex.
LockErrorsUnasked(j) ==
    /\ mu' = [mu EXCEPT ![SourceOf[j]] = j]
    /\ Goto(j, "record", "write")
    /\ UNCHANGED <<mainVars, wg, inUse, urlLock, parsed, failed>>

\* prepErr takes src.mu, and then writes the map and unlocks.
LockErrors(j) ==
    /\ mu[SourceOf[j]] = NoFeed
    /\ mu' = [mu EXCEPT ![SourceOf[j]] = j]
    /\ Goto(j, "record", "write")
    /\ UNCHANGED <<mainVars, wg, inUse, urlLock, parsed, failed>>

\* Mutant: the error path ends with a wg.Done of its own.
WriteErrorAndDone(j) ==
    /\ Goto(j, "write", "release")
    /\ failed' = failed \cup {j}
    /\ mu' = [mu EXCEPT ![SourceOf[j]] = NoFeed]
    /\ wg' = wg - 1
    /\ UNCHANGED <<mainVars, inUse, urlLock, parsed>>

WriteError(j) ==
    /\ Goto(j, "write", "release")
    /\ failed' = failed \cup {j}
    /\ mu' = [mu EXCEPT ![SourceOf[j]] = NoFeed]
    /\ UNCHANGED <<mainVars, wg, inUse, urlLock, parsed>>

\* The deferred calls: first the slot is given back, then wg.Done.
Release(j) ==
    /\ Goto(j, "release", "done")
    /\ inUse' = inUse - 1
    /\ UNCHANGED <<mainVars, wg, urlLock, mu, parsed, failed>>

Done(j) ==
    /\ Goto(j, "done", "ended")
    /\ wg' = wg - 1
    /\ UNCHANGED <<mainVars, inUse, urlLock, mu, parsed, failed>>

Main == ListAgencies \/ Spawn \/ BeginChecks

Goroutine(j) ==
    \/ Acquire(j) \/ LockUrl(j) \/ Fetch(j) \/ Parse(j)
    \/ LockErrors(j) \/ WriteError(j) \/ Release(j) \/ Done(j)

Next == Main \/ \E j \in Feeds : Goroutine(j)

Spec == Init /\ [][Next]_vars

\* The Go scheduler runs what can run; a request ends, by the client's timeout
\* if by nothing else.  Each feed is fetched once, so weak fairness is enough.
FairSpec == Spec /\ WF_vars(Main) /\ \A j \in Feeds : WF_vars(Goroutine(j))
-----------------------------------------------------------------------------
TypeOK ==
    /\ main \in {"agencies", "spawn", "checks"}
    /\ agencies \in {"unknown", "listed", "error"}
    /\ cap \in Nat \ {0}
    /\ spawned \in 0 .. NumFeeds
    /\ wg \in 0 .. NumFeeds
    /\ inUse \in 0 .. NumFeeds
    /\ pc \in [Feeds -> Steps]
    /\ urlLock \in [Urls -> Feeds \cup {NoFeed}]
    /\ mu \in [Sources -> Feeds \cup {NoFeed}]
    /\ parsed \subseteq Feeds
    /\ failed \subseteq Feeds

\* The goroutines that hold a slot of the semaphore.
SlotSteps == {"lock", "fetch", "parse", "record", "write", "release"}
Inside == {j \in Feeds : pc[j] \in SlotSteps}

\* validator.go:80: never more feeds being fetched and parsed than the
\* semaphore has slots, with 4 slots if maxConcurrency is zero or negative.
WithinCap == Cardinality(Inside) <= cap

\* context.go:29-36: PrepErrors of a source is a Go map, which two goroutines
\* writing at once would corrupt.
OneWriter ==
    \A i, j \in Feeds :
        pc[i] = "write" /\ pc[j] = "write" /\ SourceOf[i] = SourceOf[j] => i = j

\* The checks find each configured feed either parsed or with an error, never both and
\* never neither, and nothing moves under them: this is FeedOutcomes, which has no step
\* to "both" and none but the start of the checks once all is decided.
Outcome(j) == CASE j \in parsed \cap failed -> "both"
                [] j \in parsed \ failed -> "parsed"
                [] j \in failed \ parsed -> "failed"
                [] OTHER -> "pending"
Outcomes == INSTANCE FeedOutcomes WITH
                outcome <- [j \in Feeds |-> Outcome(j)],
                checking <- main = "checks"
ImplementsOutcomes == Outcomes!Spec

\* The checks start, whatever fails, with fewer slots than feeds and with
\* goroutines that wait for a URL while they hold a slot.
ChecksStart == <>(main = "checks")
=============================================================================
