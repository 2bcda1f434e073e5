---------------------------- MODULE MCResultJob -----------------------------
(***************************************************************************)
(* Three jobs: one invoked in every way that differs for the command, its  *)
(* retry for the same id, and one for another id.                          *)
(***************************************************************************)
EXTENDS ResultJob, TLC

CONSTANTS j1, j2, j3, i1, i2

OneRetry == (j1 :> i1) @@ (j2 :> i1) @@ (j3 :> i2)

Good == [token |-> TRUE, usage |-> TRUE, json |-> TRUE, required |-> TRUE,
         dbUrl |-> "good", siblings |-> "good", sampleSize |-> 0, sampleFlag |-> 0]

AnyWay ==
    {[Good EXCEPT !.json = js, !.dbUrl = d, !.siblings = s] :
        js \in BOOLEAN, d \in {"blank", "malformed", "good"}, s \in {"missing", "good"}} \cup
    {[Good EXCEPT !.sampleSize = -1, !.sampleFlag = f] : f \in {-1, 1}} \cup
    {[Good EXCEPT !.json = FALSE, !.required = FALSE], [Good EXCEPT !.required = FALSE],
     [Good EXCEPT !.siblings = "otherTable"], [Good EXCEPT !.token = FALSE],
     [Good EXCEPT !.usage = FALSE]}

Invocations ==
    (j1 :> AnyWay) @@ (j2 :> {Good, [Good EXCEPT !.json = FALSE]}) @@ (j3 :> {Good})
=============================================================================
