SPECIFICATION FairSpec
CONSTANTS
    s1 = s1
    s2 = s2
    u = u
    NoUrl = NoUrl
    NoFeed = NoFeed
    NumFeeds = 5
    Sources = {s1, s2}
    Urls = {u}
    SourceOf <- TwoSources
    UrlOf <- OneStaticUrl
    Concurrencies <- AnyConcurrency
INVARIANTS
    TypeOK
    WithinCap
    OneWriter
PROPERTIES
    ImplementsOutcomes
    ChecksStart
CHECK_DEADLOCK FALSE
