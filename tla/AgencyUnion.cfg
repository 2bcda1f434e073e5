SPECIFICATION UnionSpec
CONSTANTS
    NoHint = NoHint
    ApiName <- ApiNames
    SourceLists <- UpToThree
    ApiLists <- Lists
INVARIANTS
    UnionTypeOK
    UnionAsDesigned
    HintNotMissed
CHECK_DEADLOCK FALSE
