SPECIFICATION FairSpec
CONSTANTS
  a = a
  b = b
  c = c
  d = d
  e = e
  f = f
  h = h
  P = P
  Q = Q
  R = R
  S = S
  w1 = w1
  w2 = w2
  c1 = c1
  c2 = c2
  NoTask = NoTask
  Worker = {w1, w2}
  Client = {c1}
  Unit = {a, b, c, d, e}
  Parallel = {Q}
  Sequence = {S}
  members <- Nested
  maxTasks <- MaxTwo
  Inherit = {}
  Root = {S}
  ActivelyWaited = {}
  Calls <- CalledByA
PROPERTIES
  SubmittedTaskEnds
  WaiterReleased
CHECK_DEADLOCK FALSE
