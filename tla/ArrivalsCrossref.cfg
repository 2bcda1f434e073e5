SPECIFICATION Spec
CONSTANTS
    NoRef = NoRef
    Parts <- AllParts
    Updates <- FourUpdates
    Alerts <- ThreeAlerts
    ObaAgency <- Oba2
    MaxFeed = 4
    Before <- InOrder
    SampleSizes = {1, 2, 3}
    Sources <- FeedAndMapping
INVARIANTS
    TypeOK
    FaithfulServerPasses
    FaithfulServerConfirms
    SilentServerCaught
    EveryEntityJudged
CHECK_DEADLOCK FALSE
