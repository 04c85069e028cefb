CONSTANTS
    Worker = {w1}
    Grids <- ManyGrids
    Columns = {0, 4}
    MaxEvents = 2
SPECIFICATION Spec
INVARIANTS
    TypeOK
    OwnedOnce
    PatchCovered
    OwnDestination
    PredictionsOnEvenGrids
CHECK_DEADLOCK FALSE
