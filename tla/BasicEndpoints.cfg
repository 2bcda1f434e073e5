SPECIFICATION Spec
CONSTANTS
    a = a
    b = b
    r = r
    s = s
    t = t
    p = p
    Server = Server
    Things = {a, b, r, s, t, p, Server}
    Histories <- Loaded
INVARIANTS
    TypeOK
    ChainReported
    GrowingServerPasses
CHECK_DEADLOCK FALSE
