---------------------------- MODULE MCFeedCache -----------------------------
(***************************************************************************)
(* Instances of FeedCache for TLC.                                         *)
(***************************************************************************)
EXTENDS FeedCache, TLC

CONSTANTS f1, f2, p1, p2

OneProcess == [f \in Fetchers |-> p1]
TwoProcesses == (f1 :> p1) @@ (f2 :> p2)

\* Every version has bytes of its own.
NeverRolledBack == [v \in Versions |-> v]
=============================================================================
