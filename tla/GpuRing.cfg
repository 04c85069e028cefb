CONSTANTS
    Worker = {w1, w2}
    Capacity = 2
    Batch = 2
    MaxClaims = 4
SPECIFICATION FairSpec
INVARIANTS
    TypeOK
    IntactDelivery
    BatchUndisturbed
    LagNonNegative
    IndInv
PROPERTIES
    TicketSpec
    StallsForGood
    EveryClaimProcessed
CHECK_DEADLOCK FALSE
