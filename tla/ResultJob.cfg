SPECIFICATION FairSpec
CONSTANTS
    j1 = j1
    j2 = j2
    j3 = j3
    i1 = i1
    i2 = i2
    NoRow = NoRow
    Jobs = {j1, j2, j3}
    Ids = {i1, i2}
    IdOf <- OneRetry
    InvocationsOf <- Invocations
INVARIANTS
    TypeOK
    ExitTellsReport
    RowUnlessFault
PROPERTIES
    ImplementsContract
    ReportNotHeldUp
CHECK_DEADLOCK FALSE
