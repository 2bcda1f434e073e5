SPECIFICATION Spec
CONSTANTS
    NoRef = NoRef
    Parts <- AllParts
    Fleet <- FourVehicles
    MaxFeed = 3
    Before <- InOrder
    ObaAgency <- Oba
    NextTrip <- Trip9
    SampleSizes = {2}
    Sources <- FeedAndMapping
INVARIANTS
    TypeOK
    FaithfulServerPasses
    SilentServerCaught
    EveryVehicleJudged
CHECK_DEADLOCK FALSE
