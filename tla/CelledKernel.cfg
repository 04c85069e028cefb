CONSTANTS
    W2 = 4
    H2 = 2
    Window = 2
    Batch = 2
    Owned <- OwnedLeft
    OwnedS3 <- OwnedLeftS3
    EventCells <- Spread
    MaxEvents = 3
SPECIFICATION FairSpec
INVARIANTS
    OneWarpPerCell
    IndInv
    StateAsSequential
    SumsAsSequential
    PredictionsAsSequential
PROPERTIES
    BatchesEnd
CHECK_DEADLOCK FALSE
