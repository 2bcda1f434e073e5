--------------------------- MODULE ResultJobProofs --------------------------
(***************************************************************************)
(* Proofs about ResultJob, for any jobs and correlation ids.               *)
(***************************************************************************)
EXTENDS ResultJob, TLAPS

AtWork == {"load", "render", "print"}

\* Until its report is settled, a job has said nothing of its result; a text
\* report that is being rendered is out already.
Unsettled(j) ==
    pc[j] \in AtWork =>
        /\ code[j] = 2
        /\ status[j] = "none"
        /\ IF pc[j] = "render" /\ ~inv[j].json THEN out[j] = "report" ELSE out[j] = "nothing"

\* From then on the code tells whether there was a report ...
Settled(j) ==
    pc[j] \in InSink \cup {"exited"} => (code[j] = 0 <=> out[j] = "report")

\* ... and so does a "completed" on its way to the table.
Truthful(j) ==
    /\ pc[j] \in InSink => status[j] # "none"
    /\ status[j] = "completed" => out[j] = "report"

\* What the sink needs was looked at by config.Load, except for the db_url.
Loaded(j) == pc[j] \in {"render", "print"} \cup InSink => Loads(inv[j])

JobInv(j) == Unsettled(j) /\ Settled(j) /\ Truthful(j) /\ Loaded(j)

IInv == TypeOK /\ (\A j \in Jobs : JobInv(j)) /\ RowUnlessFault

Statuses == {"completed", "error"}
Row == [status : Statuses, by : Jobs]

LEMMA InitIInv == Init => IInv
  <1>1. SUFFICES ASSUME Init PROVE IInv
    OBVIOUS
  <1>2. TypeOK
    <2>1. inv \in [Jobs -> Invocation]
      <3>1. inv = [j \in Jobs |-> inv[j]]
        BY <1>1 DEF Init
      <3>2. \A j \in Jobs : inv[j] \in Invocation
        BY <1>1, JobAssumption DEF Init
      <3>3. QED
        BY <3>1, <3>2
    <2>2. QED
      BY <1>1, <2>1 DEF Init, TypeOK, Codes
  <1>3. \A j \in Jobs : JobInv(j)
    BY <1>1 DEF Init, JobInv, Unsettled, Settled, Truthful, Loaded, AtWork, InSink, Statements
  <1>4. RowUnlessFault
    BY <1>1 DEF Init, RowUnlessFault
  <1>5. QED
    BY <1>2, <1>3, <1>4 DEF IInv

\* What an INSERT does to the table.
LEMMA InsertedRows ==
  ASSUME TypeOK, NEW j \in Jobs, status[j] \in Statuses
  PROVE  /\ Inserted(j) \in [Ids -> Row \cup {NoRow}]
         /\ Inserted(j)[IdOf[j]] # NoRow
         /\ \A i \in Ids : rows[i] # NoRow => Inserted(j)[i] = rows[i]
  <1>1. IdOf[j] \in Ids /\ rows \in [Ids -> Row \cup {NoRow}]
    BY JobAssumption DEF TypeOK, Row, Statuses
  <1>2. [status |-> status[j], by |-> j] \in Row
    BY DEF Row
  <1>3. NoRow \notin Row
    BY JobAssumption DEF Row, Statuses
  <1>4. Inserted(j) = [rows EXCEPT ![IdOf[j]] =
                          IF rows[IdOf[j]] = NoRow THEN [status |-> status[j], by |-> j]
                                                   ELSE rows[IdOf[j]]]
    BY DEF Inserted
  <1>5. QED
    BY <1>1, <1>2, <1>3, <1>4

LEMMA TypeStep == ASSUME IInv, Next PROVE TypeOK'
  <1> USE DEF IInv
  <1>1. PICK j \in Jobs : Local(j) \/ Database(j) \/ Kill(j)
    BY DEF Next
  <1>2. rows' = rows \/ rows' = Inserted(j)
    BY <1>1 DEF Local, Database, EntrypointFails, BadUsage, BadConfig, Validate, Panics, Rendered, RenderFails,
                PrintReport, PrintFails, WriteRejects, Connect, SetTimeout, CreateTable, Insert, DbFails, Kill
  <1>3. rows' = Inserted(j) /\ rows' # rows => status[j] \in Statuses
    BY <1>1 DEF Local, Database, EntrypointFails, BadUsage, BadConfig, Validate, Panics, Rendered, RenderFails,
                PrintReport, PrintFails, WriteRejects, Connect, SetTimeout, CreateTable, Insert, DbFails, Kill, Goto,
                TypeOK, JobInv, Truthful, InSink, Statements, Statuses
  <1>4. rows' \in [Ids -> Row \cup {NoRow}]
    BY <1>2, <1>3, InsertedRows DEF TypeOK, Row, Statuses
  <1>5. CASE Local(j)
    BY <1>4, <1>5 DEF Local, EntrypointFails, BadUsage, BadConfig, Validate, Panics, Rendered, RenderFails, PrintReport,
                 PrintFails, ToSink, Goto, TypeOK, Codes, Row, Statuses, InSink, Statements
  <1>6. CASE Database(j)
    BY <1>4, <1>6 DEF Database, WriteRejects, Connect, SetTimeout, CreateTable, Insert, DbFails, Goto,
                 TypeOK, Codes, Row, Statuses, InSink, Statements
  <1>7. CASE Kill(j)
    BY <1>4, <1>7 DEF Kill, TypeOK, Codes, Row, Statuses, InSink, Statements
  <1>8. QED
    BY <1>1, <1>5, <1>6, <1>7

\* A step is one job's: the others keep all that JobInv speaks of.
LEMMA Others ==
  ASSUME TypeOK, NEW j \in Jobs, Local(j) \/ Database(j) \/ Kill(j),
         NEW k \in Jobs, k # j
  PROVE  /\ pc'[k] = pc[k] /\ out'[k] = out[k] /\ inv'[k] = inv[k]
         /\ status'[k] = status[k] /\ code'[k] = code[k]
         /\ k \in dbFailed' <=> k \in dbFailed
  BY DEF Local, Database, EntrypointFails, BadUsage, BadConfig, Validate, Panics, Rendered, RenderFails, PrintReport,
         PrintFails, ToSink, WriteRejects, Connect, SetTimeout, CreateTable, Insert, DbFails, Kill, Goto, TypeOK

LEMMA JobStep ==
  ASSUME IInv, NEW j \in Jobs, Local(j) \/ Database(j) \/ Kill(j)
  PROVE  JobInv(j)'
  <1> USE DEF IInv, JobInv, Unsettled, Settled, Truthful, Loaded, AtWork, InSink, Statements, Goto
  <1>1. pc \in [Jobs -> {"load", "render", "print", "exited", "killed"} \cup InSink]
        /\ out \in [Jobs -> {"nothing", "errorDocument", "report", "cut"}]
        /\ status \in [Jobs -> {"none", "completed", "error"}]
        /\ code \in [Jobs -> Codes] /\ JobInv(j)
    BY DEF TypeOK
  <1>2. CASE EntrypointFails(j) \/ BadUsage(j) \/ BadConfig(j) \/ Panics(j)
    BY <1>1, <1>2 DEF EntrypointFails, BadUsage, BadConfig, Panics
  <1>3. CASE Validate(j)
    BY <1>1, <1>3 DEF Validate
  <1>4. CASE Rendered(j)
    BY <1>1, <1>4 DEF Rendered, ToSink, Codes
  <1>5. CASE RenderFails(j)
    BY <1>1, <1>5 DEF RenderFails, ToSink, Codes
  <1>6. CASE PrintReport(j)
    BY <1>1, <1>6 DEF PrintReport, ToSink, Codes
  <1>7. CASE PrintFails(j)
    BY <1>1, <1>7 DEF PrintFails
  <1>8. CASE Database(j)
    BY <1>1, <1>8 DEF Database, WriteRejects, Connect, SetTimeout, CreateTable, Insert, DbFails
  <1>9. CASE Kill(j)
    BY <1>1, <1>9 DEF Kill
  <1>10. QED
    BY <1>2, <1>3, <1>4, <1>5, <1>6, <1>7, <1>8, <1>9 DEF Local

\* A row that is there stays there.
LEMMA RowsStay ==
  ASSUME IInv, NEW j \in Jobs, Local(j) \/ Database(j) \/ Kill(j), NEW i \in Ids
  PROVE  rows[i] # NoRow => rows'[i] = rows[i]
  <1>1. rows' = rows \/ (rows' = Inserted(j) /\ pc[j] = "insert")
    BY DEF Local, Database, EntrypointFails, BadUsage, BadConfig, Validate, Panics, Rendered, RenderFails, PrintReport,
           PrintFails, WriteRejects, Connect, SetTimeout, CreateTable, Insert, DbFails, Kill, Goto
  <1>2. pc[j] = "insert" => status[j] \in Statuses
    BY DEF IInv, TypeOK, JobInv, Truthful, InSink, Statements, Statuses
  <1>3. QED
    BY <1>1, <1>2, InsertedRows DEF IInv

\* The fields that would make sink.Write give up before it connects are those
\* that config.Load has looked at, and db_url.
LEMMA AcceptedUnlessMalformed ==
  ASSUME TypeOK, NEW j \in Jobs, JobInv(j), pc[j] \in InSink,
         Configured(inv[j]), inv[j].dbUrl # "malformed"
  PROVE  Accepted(j)
  <1>4. status[j] \in {"completed", "error"}
    BY DEF JobInv, Truthful, TypeOK
  <1>1. SinkValid(inv[j])
    BY DEF JobInv, Loaded, Loads
  <1>2. inv[j].dbUrl = "good"
    BY DEF TypeOK, Invocation, Configured
  <1>3. QED
    BY <1>1, <1>2, <1>4 DEF Accepted

LEMMA RowStep == ASSUME IInv, Next PROVE RowUnlessFault'
  <1>1. PICK j \in Jobs : Local(j) \/ Database(j) \/ Kill(j)
    BY DEF Next
  <1>2. inv' = inv
    BY <1>1 DEF Local, Database, EntrypointFails, BadUsage, BadConfig, Validate, Panics, Rendered,
         RenderFails, PrintReport, PrintFails, WriteRejects, Connect, SetTimeout, CreateTable, Insert, DbFails,
         Kill
  <1>3. SUFFICES ASSUME NEW k \in Jobs, pc'[k] = "exited", Started(k), Loads(inv[k]),
                        Configured(inv[k]), inv[k].dbUrl # "malformed", k \notin dbFailed',
                        out'[k] = "report" \/ (out'[k] = "nothing" /\ SampleSize(inv[k]) >= 0)
                 PROVE  rows'[IdOf[k]] # NoRow
    BY <1>2 DEF RowUnlessFault, Started
  <1>4. IdOf[k] \in Ids
    BY JobAssumption
  <1>5. CASE pc[k] = "exited"
    <2>1. k \notin dbFailed /\ out'[k] = out[k]
      BY <1>1, <1>3, <1>5 DEF IInv, TypeOK, Local, Database, EntrypointFails, BadUsage, BadConfig,
           Validate, Panics, Rendered, RenderFails, PrintReport, PrintFails, ToSink, WriteRejects,
           Connect, SetTimeout, CreateTable, Insert, DbFails, Kill, Goto
    <2>2. QED
      BY <1>1, <1>3, <1>4, <1>5, <2>1, RowsStay DEF IInv, RowUnlessFault
  <1>6. CASE pc[k] # "exited"
    <2>1. k = j
      BY <1>1, <1>3, <1>6, Others DEF IInv
    <2>2. Insert(j) \/ DbFails(j) \/ WriteRejects(j) \/ Local(j)
      BY <1>1, <1>3, <2>1
         DEF IInv, TypeOK, Database, Connect, SetTimeout, CreateTable, Kill, Goto
    <2>3. CASE Insert(j)
      <3>1. status[j] \in Statuses
        BY <2>3 DEF Insert, Goto, IInv, TypeOK, JobInv, Truthful, InSink, Statements, Statuses
      <3>2. QED
        BY <2>1, <2>3, <3>1, InsertedRows DEF Insert, IInv
    <2>4. CASE DbFails(j)
      BY <1>3, <2>1, <2>4 DEF DbFails
    <2>5. CASE WriteRejects(j)
      <3>1. pc[j] \in InSink /\ TypeOK /\ JobInv(j)
        BY <2>5 DEF WriteRejects, Goto, InSink, IInv
      <3>2. QED
        BY <1>3, <2>1, <2>5, <3>1, AcceptedUnlessMalformed DEF WriteRejects
    <2>6. CASE EntrypointFails(j) \/ BadUsage(j) \/ BadConfig(j)
      BY <1>3, <2>1, <2>6 DEF EntrypointFails, BadUsage, BadConfig, Started
    <2>7. CASE Panics(j)
      <3>1. out'[j] = "nothing" /\ SampleSize(inv[j]) < 0
        BY <2>7 DEF Panics, Goto, IInv, JobInv, Unsettled, AtWork
      <3>2. SampleSize(inv[j]) \in Int
        BY DEF IInv, TypeOK, Invocation, SampleSize
      <3>3. QED
        BY <1>3, <2>1, <3>1, <3>2
    <2>8. CASE PrintFails(j)
      BY <1>3, <2>1, <2>8 DEF PrintFails, IInv, TypeOK
    <2>9. CASE Validate(j) \/ Rendered(j) \/ RenderFails(j) \/ PrintReport(j)
      BY <1>3, <2>1, <2>9
         DEF IInv, TypeOK, Validate, Rendered, RenderFails, PrintReport, ToSink, Goto
    <2>10. QED
      BY <2>2, <2>3, <2>4, <2>5, <2>6, <2>7, <2>8, <2>9 DEF Local
  <1>7. QED
    BY <1>5, <1>6

LEMMA IInvStep == IInv /\ [Next]_vars => IInv'
  <1>1. SUFFICES ASSUME IInv, [Next]_vars PROVE IInv'
    OBVIOUS
  <1>2. CASE UNCHANGED vars
    BY <1>1, <1>2 DEF vars, IInv, TypeOK, JobInv, Unsettled, Settled, Truthful, Loaded, Started,
                       RowUnlessFault
  <1>3. CASE Next
    <2>1. PICK j \in Jobs : Local(j) \/ Database(j) \/ Kill(j)
      BY <1>3 DEF Next
    <2>2. ASSUME NEW k \in Jobs, k # j PROVE JobInv(k)'
      BY <1>1, <2>1, <2>2, Others DEF IInv, JobInv, Unsettled, Settled, Truthful, Loaded
    <2>3. \A k \in Jobs : JobInv(k)'
      BY <1>1, <2>1, <2>2, JobStep
    <2>4. QED
      BY <1>1, <1>3, <2>3, TypeStep, RowStep DEF IInv
  <1>4. QED
    BY <1>1, <1>2, <1>3

\* The inductive invariant: what a job has printed, what it will return and what
\* it will write agree at every step of run (main.go:107-222).
THEOREM Invariance == Spec => []IInv
  BY InitIInv, IInvStep, PTL DEF Spec

\* Every variable keeps its type; in particular no status but the two that the
\* reader of the table knows reaches it (sink.go:158-164).
THEOREM TypeCorrect == Spec => []TypeOK
  <1>1. IInv => TypeOK
    BY DEF IInv
  <1>2. QED
    BY <1>1, Invariance, PTL

\* A job that ends returns 0 exactly if its whole report is on stdout, whatever
\* the database did (main.go:216-221).
THEOREM ExitCodes == Spec => []ExitTellsReport
  <1>1. IInv => ExitTellsReport
    BY DEF IInv, ExitTellsReport, JobInv, Settled
  <1>2. QED
    BY <1>1, Invariance, PTL

\* A job that ends after its configuration was good leaves a row under its id, whichever
\* branch of run it took, except for the faults that RowUnlessFault names: a kill, the
\* database, stdout, a panic before the report, a db_url that cannot be parsed
\* (main.go:179-181, 198-202).
THEOREM RowsWritten == Spec => []RowUnlessFault
  <1>1. IInv => RowUnlessFault
    BY DEF IInv
  <1>2. QED
    BY <1>1, Invariance, PTL

-----------------------------------------------------------------------------
Printed == {j \in Jobs : out[j] = "report"}

LEMMA ContractInit == Init => Contract!Init
  BY DEF Init, Contract!Init

LEMMA ContractStep == IInv /\ [Next]_vars => [Contract!Next]_<<Printed, rows>>
  <1>1. SUFFICES ASSUME IInv, [Next]_vars PROVE [Contract!Next]_<<Printed, rows>>
    OBVIOUS
  <1>2. CASE UNCHANGED vars
    BY <1>2 DEF vars, Printed
  <1>3. ASSUME NEW j \in Jobs, PrintReport(j) PROVE Contract!Next
    <2>1. Printed' = Printed \cup {j} /\ rows' = rows
      BY <1>1, <1>3 DEF IInv, TypeOK, PrintReport, Printed
    <2>2. QED
      BY <1>3, <2>1 DEF Contract!Next, Contract!PrintReport, Printed
  <1>4. ASSUME NEW j \in Jobs, Insert(j) \/ DbFails(j) \/ Kill(j), rows' # rows
        PROVE  Contract!Next
    <2>1. rows' = Inserted(j) /\ pc[j] = "insert" /\ Printed' = Printed
      BY <1>4 DEF Insert, DbFails, Kill, Goto, Printed
    <2>2. status[j] \in Statuses /\ (status[j] = "completed" => j \in Printed)
      BY <1>1, <2>1 DEF IInv, TypeOK, JobInv, Truthful, InSink, Statements, Statuses, Printed
    <2>3. IdOf[j] \in Ids /\ rows \in [Ids -> Row \cup {NoRow}]
      BY <1>1, JobAssumption DEF IInv, TypeOK, Row, Statuses
    <2>4. rows[IdOf[j]] = NoRow
      BY <1>4, <2>1, <2>3 DEF Inserted
    <2>5. rows' = [rows EXCEPT ![IdOf[j]] = [status |-> status[j], by |-> j]]
      BY <2>1, <2>4 DEF Inserted
    <2>6. Contract!Record(j)
      BY <2>1, <2>2, <2>4, <2>5 DEF Contract!Record, Printed, Statuses
    <2>7. QED
      BY <2>6 DEF Contract!Next
  <1>5. ASSUME NEW j \in Jobs, Insert(j) \/ DbFails(j), rows' = rows
        PROVE  UNCHANGED <<Printed, rows>>
    BY <1>5 DEF Insert, DbFails, Printed
  <1>6. ASSUME NEW j \in Jobs, WriteRejects(j) \/ Connect(j) \/ SetTimeout(j) \/ CreateTable(j)
                               \/ EntrypointFails(j) \/ BadUsage(j) \/ Validate(j) \/ Panics(j)
                               \/ Rendered(j) \/ RenderFails(j)
        PROVE  UNCHANGED <<Printed, rows>>
    BY <1>6 DEF WriteRejects, Connect, SetTimeout, CreateTable, EntrypointFails, BadUsage, Validate, Panics,
                Rendered, RenderFails, Printed
  <1>7. ASSUME NEW j \in Jobs, BadConfig(j) \/ PrintFails(j) \/ Kill(j), rows' = rows
        PROVE  UNCHANGED <<Printed, rows>>
    <2>1. pc[j] \in {"load", "print"} => out[j] = "nothing"
      BY <1>1 DEF IInv, JobInv, Unsettled, AtWork
    <2>2. out' = out \/ (out[j] = "nothing" /\ \E o \in {"errorDocument", "cut"} :
                            out' = [out EXCEPT ![j] = o])
      BY <1>7, <2>1 DEF BadConfig, PrintFails, Kill, Goto
    <2>3. Printed' = Printed
      BY <1>1, <2>2 DEF IInv, TypeOK, Printed
    <2>4. QED
      BY <1>7, <2>3
  <1>8. ASSUME NEW j \in Jobs, BadConfig(j) \/ PrintFails(j) PROVE rows' = rows
    BY <1>8 DEF BadConfig, PrintFails
  <1>9. QED
    BY <1>1, <1>2, <1>3, <1>4, <1>5, <1>6, <1>7, <1>8 DEF Next, Local, Database

\* The jobs, retried, failing and killed as they may be, implement the contract
\* with the caller (sink.go:106-111, 150-151).
THEOREM Implementation == Spec => ImplementsContract
  BY ContractInit, ContractStep, Invariance, PTL
     DEF Spec, ImplementsContract, Contract!Spec, Printed
=============================================================================
