SPECIFICATION Spec
CONSTANTS
  a = a
  b = b
  c = c
  d = d
  e = e
  f = f
  h = h
  P = P
  Q = Q
  R = R
  S = S
  w1 = w1
  w2 = w2
  c1 = c1
  c2 = c2
  NoTask = NoTask
  Worker = {w1, w2}
  Client = {c1}
  Unit = {a, b, c, d, e, f, h}
  Parallel = {P, Q, R}
  Sequence = {S}
  members <- Deep
  maxTasks <- MaxTwoInside
  Inherit = {b, c, Q}
  Root = {P}
  ActivelyWaited = {P, a}
  Calls <- CalledByC
SYMMETRY Symmetry
INVARIANTS
  TypeOK
  CountsUnreported
  SequenceQueueExclusive
  AtMostMaxTasks
  NoCheckFails
  HooksNest
PROPERTY
  ImplementsForkJoin
CHECK_DEADLOCK FALSE
