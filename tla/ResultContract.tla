--------------------------- MODULE ResultContract ---------------------------
(***************************************************************************)
(* What the caller of a validation relies on: the row of a correlation id  *)
(* is written at most once, by one of the jobs started for that id, and it *)
(* says "completed" only if that job has already printed its report.       *)
(***************************************************************************)
CONSTANTS Jobs, Ids, IdOf, NoRow
VARIABLES
    printed,        \* the jobs whose report is on stdout
    rows            \* rows[id]: the row of correlation id, or NoRow

Init == printed = {} /\ rows = [i \in Ids |-> NoRow]

PrintReport(j) == printed' = printed \cup {j} /\ UNCHANGED rows

Record(j) ==
    /\ rows[IdOf[j]] = NoRow
    /\ \/ rows' = [rows EXCEPT ![IdOf[j]] = [status |-> "error", by |-> j]]
       \/ /\ j \in printed
          /\ rows' = [rows EXCEPT ![IdOf[j]] = [status |-> "completed", by |-> j]]
    /\ UNCHANGED printed

Next == \E j \in Jobs : PrintReport(j) \/ Record(j)

Spec == Init /\ [][Next]_<<printed, rows>>
=============================================================================
