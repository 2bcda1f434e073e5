----------------------------- MODULE ResultJob ------------------------------
(***************************************************************************)
(* The command: entrypoint.sh, run of cmd/oba-validator/main.go and        *)
(* sink.Write.  Several one-off jobs run it, some of them for the same     *)
(* correlation id (the caller retries); they share the results table.  A   *)
(* job may be killed between any two steps.  The checks are one step here, *)
(* which yields a report or panics: validator.Run never returns an error.  *)
(***************************************************************************)
EXTENDS Configuration

CONSTANTS
    Jobs,           \* the processes started
    Ids,            \* correlation ids
    IdOf,           \* the correlation id of each job
    InvocationsOf,  \* the invocations considered for each job
    NoRow           \* no row for an id

ASSUME JobAssumption ==
    /\ IdOf \in [Jobs -> Ids]
    /\ InvocationsOf \in [Jobs -> SUBSET Invocation]
    /\ NoRow \notin [status : {"completed", "error"}, by : Jobs]

VARIABLES
    pc,             \* pc[j]: the next step of job j
    inv,            \* inv[j]: how job j is invoked
    out,            \* out[j]: what stdout has received
    status,         \* status[j]: the status handed to sink.Write
    code,           \* code[j]: the exit code run is going to return
    rows,           \* the results table
    dbFailed        \* the jobs whose sink.Write met an error (history)

vars == <<pc, inv, out, status, code, rows, dbFailed>>

Codes == {0, 1, 2}

Init ==
    /\ pc = [j \in Jobs |-> "load"]
    /\ inv \in [Jobs -> UNION {InvocationsOf[j] : j \in Jobs}]
    /\ \A j \in Jobs : inv[j] \in InvocationsOf[j]
    /\ out = [j \in Jobs |-> "nothing"]
    /\ status = [j \in Jobs |-> "none"]
    /\ code = [j \in Jobs |-> 2]
    /\ rows = [i \in Ids |-> NoRow]
    /\ dbFailed = {}

\* The operations of sink.Write on the database; the last three have no deadline.
Statements == {"limit", "create", "insert"}
InSink == {"connect"} \cup Statements

Goto(j, from, to) == pc[j] = from /\ pc' = [pc EXCEPT ![j] = to]

Started(j) == inv[j].token /\ inv[j].usage

\* base64 -d fails and so does the shell, before the validator runs.
EntrypointFails(j) ==
    /\ ~inv[j].token
    /\ Goto(j, "load", "exited")
    /\ code' = [code EXCEPT ![j] = 1]
    /\ UNCHANGED <<inv, out, status, rows, dbFailed>>

\* Unknown flags, or no configuration argument: only the usage, on stderr.
BadUsage(j) ==
    /\ inv[j].token /\ ~inv[j].usage
    /\ Goto(j, "load", "exited")
    /\ UNCHANGED <<inv, out, status, code, rows, dbFailed>>

\* config.Load fails: with --json an error document goes to stdout, which may
\* fail too.  No row, even if the JSON has good sink fields.
BadConfig(j) ==
    /\ Started(j) /\ ~Loads(inv[j])
    /\ Goto(j, "load", "exited")
    /\ out' \in IF inv[j].json THEN {[out EXCEPT ![j] = o] : o \in {"errorDocument", "cut"}}
                ELSE {out}
    /\ UNCHANGED <<inv, status, code, rows, dbFailed>>

\* The configuration is good; prepare and the checks produce a report.
Validate(j) ==
    /\ Started(j) /\ Loads(inv[j])
    /\ Goto(j, "load", IF inv[j].json THEN "render" ELSE "print")
    /\ UNCHANGED <<inv, out, status, code, rows, dbFailed>>

\* Or a check samples a feed with a negative size (Validation): the Go runtime
\* ends the process, with a code of 2 of its own and a trace on stderr.
Panics(j) ==
    /\ Started(j) /\ Loads(inv[j]) /\ SampleSize(inv[j]) < 0
    /\ Goto(j, "load", "exited")
    /\ UNCHANGED <<inv, out, status, code, rows, dbFailed>>

\* What is left once the report, or the failure to render it, is settled.
ToSink(j, from, s, c) ==
    /\ Goto(j, from, IF Configured(inv[j]) THEN "connect" ELSE "exited")
    /\ status' = [status EXCEPT ![j] = s]
    /\ code' = [code EXCEPT ![j] = c]

\* Mutant: the verdict is taken for the status.
RenderedFailed(j) ==
    /\ IF inv[j].json
       THEN Goto(j, "render", "print") /\ UNCHANGED <<status, code>>
       ELSE ToSink(j, "render", "failed", 0)
    /\ UNCHANGED <<inv, out, rows, dbFailed>>

\* RenderJSON succeeds: with --json the bytes are printed next, without it
\* they are for the sink only.
Rendered(j) ==
    /\ IF inv[j].json
       THEN Goto(j, "render", "print") /\ UNCHANGED <<status, code>>
       ELSE ToSink(j, "render", "completed", 0)
    /\ UNCHANGED <<inv, out, rows, dbFailed>>

\* Mutant: a report that cannot be rendered ends the run before the sink.
RenderFailsReturns(j) ==
    /\ Goto(j, "render", "exited")
    /\ code' = [code EXCEPT ![j] = IF inv[j].json THEN 2 ELSE 0]
    /\ UNCHANGED <<inv, out, status, rows, dbFailed>>

\* It fails: the row, if any, says "error"; the text report is out already.
RenderFails(j) ==
    /\ ToSink(j, "render", "error", IF inv[j].json THEN 2 ELSE 0)
    /\ UNCHANGED <<inv, out, rows, dbFailed>>

PrintReport(j) ==
    /\ out' = [out EXCEPT ![j] = "report"]
    /\ IF inv[j].json \/ ~Configured(inv[j])
       THEN ToSink(j, "print", "completed", 0)
       ELSE Goto(j, "print", "render") /\ UNCHANGED <<status, code>>
    /\ UNCHANGED <<inv, rows, dbFailed>>

\* Stdout fails: run returns 2 at once.
PrintFails(j) ==
    /\ Goto(j, "print", "exited")
    /\ out' = [out EXCEPT ![j] = "cut"]
    /\ UNCHANGED <<inv, status, code, rows, dbFailed>>

\* sink.Write knows two statuses and checks the fields again, and normalizeDSN looks
\* into db_url.
Accepted(j) ==
    status[j] \in {"completed", "error"} /\ SinkValid(inv[j]) /\ inv[j].dbUrl = "good"

WriteRejects(j) ==
    /\ ~Accepted(j)
    /\ Goto(j, "connect", "exited")
    /\ UNCHANGED <<inv, out, status, code, rows, dbFailed>>

Connect(j) ==
    /\ Accepted(j)
    /\ Goto(j, "connect", "limit")
    /\ UNCHANGED <<inv, out, status, code, rows, dbFailed>>

\* SET statement_timeout: the limit is the server's, Exec itself has none.
SetTimeout(j) ==
    /\ Goto(j, "limit", "create")
    /\ UNCHANGED <<inv, out, status, code, rows, dbFailed>>

CreateTable(j) ==
    /\ Goto(j, "create", "insert")
    /\ UNCHANGED <<inv, out, status, code, rows, dbFailed>>

\* Mutant: ON CONFLICT DO UPDATE.
Upserted(j) == [rows EXCEPT ![IdOf[j]] = [status |-> status[j], by |-> j]]

\* INSERT ... ON CONFLICT DO NOTHING
Inserted(j) ==
    [rows EXCEPT ![IdOf[j]] = IF @ = NoRow THEN [status |-> status[j], by |-> j] ELSE @]

Insert(j) ==
    /\ Goto(j, "insert", "exited")
    /\ rows' = Inserted(j)
    /\ UNCHANGED <<inv, out, status, code, dbFailed>>

\* Mutant: an error of the sink becomes the exit code.
DbFailureExits(j) ==
    /\ pc[j] \in InSink
    /\ Goto(j, pc[j], "exited")
    /\ code' = [code EXCEPT ![j] = 2]
    /\ dbFailed' = dbFailed \cup {j}
    /\ UNCHANGED <<inv, out, status, rows>>

\* Mutant: the sink tries again until it succeeds.
DbFailureRetries(j) ==
    /\ pc[j] \in InSink
    /\ Goto(j, pc[j], "connect")
    /\ dbFailed' = dbFailed \cup {j}
    /\ UNCHANGED <<inv, out, status, code, rows>>

\* Any operation on the connection reports an error (the INSERT perhaps after it
\* has been committed), which is logged and forgotten.
DbFails(j) ==
    /\ pc[j] \in InSink /\ Accepted(j)
    /\ Goto(j, pc[j], "exited")
    /\ rows' \in IF pc[j] = "insert" THEN {rows, Inserted(j)} ELSE {rows}
    /\ dbFailed' = dbFailed \cup {j}
    /\ UNCHANGED <<inv, out, status, code>>

\* The job is killed; a report being printed may be cut short, and an INSERT that
\* has been sent may be committed.
Kill(j) ==
    /\ pc[j] \notin {"exited", "killed"}
    /\ pc' = [pc EXCEPT ![j] = "killed"]
    /\ out' \in IF pc[j] = "print" THEN {out, [out EXCEPT ![j] = "cut"]} ELSE {out}
    /\ rows' \in IF pc[j] = "insert" THEN {rows, Inserted(j)} ELSE {rows}
    /\ UNCHANGED <<inv, status, code, dbFailed>>

Local(j) ==
    \/ EntrypointFails(j) \/ BadUsage(j) \/ BadConfig(j) \/ Validate(j) \/ Panics(j)
    \/ Rendered(j) \/ RenderFails(j) \/ PrintReport(j) \/ PrintFails(j)
Database(j) ==
    WriteRejects(j) \/ Connect(j) \/ SetTimeout(j) \/ CreateTable(j) \/ Insert(j) \/ DbFails(j)

Next == \E j \in Jobs : Local(j) \/ Database(j) \/ Kill(j)

Spec == Init /\ [][Next]_vars

\* The process runs on by itself, and gives up connecting after the connect_timeout of
\* normalizeDSN (5s unless db_url sets another).  A statement may hang for ever: its
\* context is context.Background, and statement_timeout helps only while the server and
\* the network answer.
FairSpec ==
    Spec /\ \A j \in Jobs : /\ WF_vars(Local(j))
                            /\ WF_vars(pc[j] = "connect" /\ Database(j))
-----------------------------------------------------------------------------
TypeOK ==
    /\ pc \in [Jobs -> {"load", "render", "print", "exited", "killed"} \cup InSink]
    /\ inv \in [Jobs -> Invocation]
    /\ out \in [Jobs -> {"nothing", "errorDocument", "report", "cut"}]
    /\ status \in [Jobs -> {"none", "completed", "error"}]
    /\ code \in [Jobs -> Codes]
    /\ rows \in [Ids -> [status : {"completed", "error"}, by : Jobs] \cup {NoRow}]
    /\ dbFailed \subseteq Jobs

\* Jobs retried, failing and killed in any order keep the caller's contract:
\* this is ResultContract (sink.go:106-111, sink.go:150-151).
Contract == INSTANCE ResultContract WITH printed <- {j \in Jobs : out[j] = "report"}
ImplementsContract == Contract!Spec

\* README: "Sink failures ... never change the exit code".  The code tells
\* whether the whole report is on stdout, whatever the database did.
ExitTellsReport == \A j \in Jobs : pc[j] = "exited" => (code[j] = 0 <=> out[j] = "report")

\* main.go:179-181, 198-202: "so the caller doesn't poll until its 15-minute timeout".
\* Once its configuration is good a job leaves a row under its id, by whatever branch it
\* ends and whether its report is rendered or not, unless it is killed, the database
\* fails it, stdout does, or a negative sample size makes a check panic before it has
\* reported.  A db_url that cannot be parsed is the one part of the configuration that is
\* found out too late (sink.go:66-69).
RowUnlessFault ==
    \A j \in Jobs :
        /\ pc[j] = "exited" /\ Started(j) /\ Loads(inv[j])
        /\ Configured(inv[j]) /\ inv[j].dbUrl # "malformed" /\ j \notin dbFailed
        /\ out[j] = "report" \/ (out[j] = "nothing" /\ SampleSize(inv[j]) >= 0)
        => rows[IdOf[j]] # NoRow

\* sink.go:150-152: the database "must never prevent the report".  A job that is not
\* killed comes to its end, unless the database leaves it waiting for a statement, and
\* then its report is out for good, or could not be rendered.
ReportNotHeldUp ==
    \A j \in Jobs :
        <>[](\/ pc[j] \in {"exited", "killed"}
             \/ pc[j] \in Statements /\ (out[j] = "report" \/ status[j] = "error"))

\* README: "A row is always written after stdout", with "error" for the error
\* document: a job that has printed either, and whose five sink fields and
\* database are good, leaves a row under its id.
RowAlwaysWritten ==
    \A j \in Jobs :
        /\ pc[j] = "exited" /\ inv[j].dbUrl = "good" /\ SinkValid(inv[j])
        /\ j \notin dbFailed
        /\ out[j] \in {"report", "errorDocument"}
        => rows[IdOf[j]] # NoRow
=============================================================================
