SPECIFICATION FairSpec
CONSTANTS
    NoTime = NoTime
    Configurations <- UpToTwo
    Timestamps <- AnyAge
    Findings <- PassOrTwo
    MaxAges <- PlusMinusOne
    SampleSizes <- PlusMinusOne
    Ready = 2
    MaxTime = 3
INVARIANTS
    TypeOK
    DocumentComplete
    TextAgrees
    PreparationTold
    EveryCheckReports
    StaleIsFinal
PROPERTY
    RunEnds
CHECK_DEADLOCK FALSE
