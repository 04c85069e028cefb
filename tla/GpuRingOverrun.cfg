CONSTANTS
    Worker = {w1, w2}
    Capacity = 2
    Batch = 2
    MaxClaims = 5
SPECIFICATION Spec
INVARIANTS
    PileInRing
CHECK_DEADLOCK FALSE
