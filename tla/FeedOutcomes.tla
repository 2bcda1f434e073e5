---------------------------- MODULE FeedOutcomes ----------------------------
(***************************************************************************)
(* What prepare promises to the checks (validator.go:51-141): each         *)
(* configured feed is decided once, parsed or failed, the checks start     *)
(* when all are decided, and nothing changes under them.                   *)
(***************************************************************************)
CONSTANT Feeds          \* the feeds of all data sources
VARIABLES
    outcome,            \* outcome[j]: what became of feed j
    checking            \* the checks have started

Init ==
    /\ outcome = [j \in Feeds |-> "pending"]
    /\ checking = FALSE

Decide(j) ==
    /\ ~checking
    /\ outcome[j] = "pending"
    /\ \E o \in {"parsed", "failed"} : outcome' = [outcome EXCEPT ![j] = o]
    /\ UNCHANGED checking

Check ==
    /\ ~checking
    /\ \A j \in Feeds : outcome[j] # "pending"
    /\ checking' = TRUE
    /\ UNCHANGED outcome

Next == Check \/ \E j \in Feeds : Decide(j)

Spec == Init /\ [][Next]_<<outcome, checking>>
=============================================================================
