CONSTANTS
    Width = 11
    N = 2
    Halo = 2
    Window = 2
    CounterSize = 2
    QueueCap = 1
    MaxEvents = 3
SPECIFICATION FairSpec
INVARIANTS
    TypeOK
    S0Exact
    TdropAsReference
    Drained
PROPERTIES
    ShutdownEnds
