CONSTANTS
    Value = {a, b, c}
    NoValue = NoValue
    Capacity = 2
    Laps = 2
SPECIFICATION FairSpec
INVARIANTS
    TypeOK
    NoSlotRace
    NeverOverfull
    IndInv
PROPERTIES
    FifoSpec
    PushReturns
    RingDrains
