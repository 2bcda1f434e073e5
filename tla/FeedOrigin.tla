----------------------------- MODULE FeedOrigin -----------------------------
(***************************************************************************)
(* The environment of the static-feed cache: the web server that publishes *)
(* successive versions of one GTFS zip, and the clock.  Both are external  *)
(* to the repository; they are modelled from the way feeds/fetch.go uses   *)
(* them (an HTTP GET that may carry validators, time.Now, time.Since).     *)
(* A body is represented by its version number, 1 being the first one.     *)
(***************************************************************************)
EXTENDS Integers

CONSTANTS
    MaxVersion,     \* bound: the origin publishes versions 1 .. MaxVersion
    MaxTime         \* bound: the clock stops at MaxTime

ASSUME OriginAssumption == MaxVersion \in Nat \ {0} /\ MaxTime \in Nat

VARIABLES
    now,            \* the clock
    cur,            \* the version the origin serves now
    pubAt           \* pubAt[v]: when version v was published (0 if it is not yet)

originVars == <<now, cur, pubAt>>

Versions == 1 .. MaxVersion

OriginInit ==
    /\ now = 0
    /\ cur = 1
    /\ pubAt = [v \in Versions |-> 0]

\* The agency uploads a new zip.
Publish ==
    /\ cur < MaxVersion
    /\ cur' = cur + 1
    /\ pubAt' = [pubAt EXCEPT ![cur + 1] = now]
    /\ UNCHANGED now

AdvanceClock ==
    /\ now < MaxTime
    /\ now' = now + 1
    /\ UNCHANGED <<cur, pubAt>>

\* Version v was the one being served at some moment not before t.
CurrentSince(v, t) ==
    \/ v = cur
    \/ v \in Versions /\ v < cur /\ pubAt[v + 1] >= t

\* What a caller of FetchStatic is given: nothing yet, an error, or bytes of
\* version ver, all of them if whole.
NoAnswer == [kind |-> "none", ver |-> 0, whole |-> FALSE]
ErrorAnswer == [kind |-> "error", ver |-> 0, whole |-> FALSE]
BodyAnswer(b) == [kind |-> "body", ver |-> b.ver, whole |-> b.whole]
=============================================================================
