CONSTANTS
    Programs <- AllPrograms
    Width = 3
    N = 2
    Halo = 1
    QueueCap = 1
    BatchSize = 2
    MaxEvents = 2
SPECIFICATION Spec
INVARIANTS
    SourcesFirst
    StatsAddUp
PROPERTY RunEnds
