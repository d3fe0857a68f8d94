SPECIFICATION Spec
CONSTANTS
  FirstIndex = 1
  LastIndex = 7
  MaxBatches = 3
  IndicesToGrab = 2
INVARIANT
  FalseMeansNoMore
CHECK_DEADLOCK FALSE
