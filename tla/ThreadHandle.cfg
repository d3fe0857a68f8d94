SPECIFICATION BothSpec
CONSTANTS
  h1 = h1
  h2 = h2
  h3 = h3
  Handle = {h1, h2, h3}
  MaxThreads = 2
  MinPriority = 1
  MaxPriority = 99
  Limits = {0, 50, 99}
INVARIANTS
  TypeOK
  LauncherFreedOnce
  HandlesAreExclusive
  OnlyTerminateLeaks
PROPERTIES
  PriorityReadBack
  JoinReturned
CHECK_DEADLOCK FALSE
