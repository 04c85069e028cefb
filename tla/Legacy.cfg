SPECIFICATION Spec
CONSTANT Schemes = {"s1", "shard", "stage0", "s2", "s3", "s3over", "s4", "s4full", "s5", "s6", "s7", "s8", "s8cut", "s0", "bench", "benchall"}
INVARIANTS
  DecidedAsReference
  DrainsComplete
  AppliedOnce
  CellsInOrder
  
PROPERTY RunEnds
CHECK_DEADLOCK FALSE
