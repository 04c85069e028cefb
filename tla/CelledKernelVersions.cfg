CONSTANTS
    W2 = 2
    H2 = 2
    Window = 2
    Batch = 3
    Owned <- Whole
    OwnedS3 <- WholeS3
    EventCells <- Corner
    MaxEvents = 3
SPECIFICATION Spec
INVARIANTS
    VersionCountsWrites
CHECK_DEADLOCK FALSE
