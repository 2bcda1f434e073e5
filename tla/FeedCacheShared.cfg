SPECIFICATION Spec
CONSTANTS
    f1 = f1
    f2 = f2
    p1 = p1
    p2 = p2
    NoOne = NoOne
    Fetchers = {f1, f2}
    Procs = {p1, p2}
    ProcOf <- TwoProcesses
    Ttl = 2
    Timeout = 1
    MaxVersion = 2
    MaxTime = 1
    ContentOf <- NeverRolledBack
PROPERTY
    NotModifiedServesCurrent
