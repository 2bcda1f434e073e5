SPECIFICATION FairSpec
CONSTANTS
    f1 = f1
    f2 = f2
    p1 = p1
    p2 = p2
    NoOne = NoOne
    Fetchers = {f1, f2}
    Procs = {p1}
    ProcOf <- OneProcess
    Ttl = 1
    Timeout = 1
    MaxVersion = 2
    MaxTime = 2
    ContentOf <- NeverRolledBack
INVARIANTS
    TypeOK
    ServedIntact
    MetaNotAhead
PROPERTIES
    NotModifiedServesCurrent
    ImplementsRead
    CallsReturn
