CONSTANTS
    Worker = {w1}
    Grids <- Production
    Columns = {0}
    MaxEvents = 2
SPECIFICATION Spec
INVARIANTS
    S3PatchCovered
CHECK_DEADLOCK FALSE
