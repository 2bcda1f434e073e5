SPECIFICATION Spec
CONSTANTS
    NoRef = NoRef
    Parts <- AllParts
    Fleet <- FourVehicles
    MaxFeed = 3
    Before <- InOrder
    ObaAgency <- Oba
    NextTrip <- Trip9
    SampleSizes = {2}
    Sources <- FeedAndMapping
INVARIANT
    PassNeedsTrip
CHECK_DEADLOCK FALSE
