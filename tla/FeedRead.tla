------------------------------ MODULE FeedRead ------------------------------
(***************************************************************************)
(* What Fetcher.FetchStatic promises to its caller, without any cache: a   *)
(* call ends with an error, or with the complete bytes of a version that   *)
(* the origin was serving at some moment of the call, or, failing that, of *)
(* a version the origin was still serving at most Slack ago.  FeedCache   *)
(* implements this module with a Slack just below the cache's TTL plus the *)
(* time one HTTP request may take.                                         *)
(***************************************************************************)
EXTENDS FeedOrigin

CONSTANTS
    Fetchers,       \* the goroutines that call FetchStatic
    Slack           \* how old an answer given without the network may be

VARIABLES
    open,           \* open[f]: f is inside a call
    floor,          \* floor[f]: the version served when f's call began
    ans             \* ans[f]: the answer of f's call, if it is decided

readVars == <<open, floor, ans>>
allVars == <<now, cur, pubAt, open, floor, ans>>

Init ==
    /\ OriginInit
    /\ open = [f \in Fetchers |-> FALSE]
    /\ floor = [f \in Fetchers |-> 0]
    /\ ans = [f \in Fetchers |-> NoAnswer]

Call(f) ==
    /\ ~open[f]
    /\ open' = [open EXCEPT ![f] = TRUE]
    /\ floor' = [floor EXCEPT ![f] = cur]
    /\ UNCHANGED <<now, cur, pubAt, ans>>

\* A version that may be given to f now.
Acceptable(f, v) ==
    /\ v <= cur
    /\ v >= floor[f] \/ CurrentSince(v, now - Slack)

Answer(f) ==
    /\ open[f]
    /\ ans[f] = NoAnswer
    /\ \/ ans' = [ans EXCEPT ![f] = ErrorAnswer]
       \/ \E v \in Versions :
             /\ Acceptable(f, v)
             /\ ans' = [ans EXCEPT ![f] = BodyAnswer([ver |-> v, whole |-> TRUE])]
    /\ UNCHANGED <<now, cur, pubAt, open, floor>>

\* The calls of S end: one by returning its answer, several when their process dies.
End(S) ==
    /\ open' = [f \in Fetchers |-> IF f \in S THEN FALSE ELSE open[f]]
    /\ floor' = [f \in Fetchers |-> IF f \in S THEN 0 ELSE floor[f]]
    /\ ans' = [f \in Fetchers |-> IF f \in S THEN NoAnswer ELSE ans[f]]
    /\ UNCHANGED <<now, cur, pubAt>>

Next ==
    \/ (Publish \/ AdvanceClock) /\ UNCHANGED readVars
    \/ \E f \in Fetchers : Call(f) \/ Answer(f)
    \/ \E S \in SUBSET Fetchers : End(S)

Spec == Init /\ [][Next]_allVars
=============================================================================
