SPECIFICATION MCSpec
CONSTANTS
  FirstIndex = 0
  LastIndex = 8
  MaxBatches = 3
  IndicesToGrab = 3
INVARIANT
  EachIndexOnce
PROPERTIES
  ImplementsPartition
  ParallelForReturns
CHECK_DEADLOCK FALSE
