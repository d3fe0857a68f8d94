SPECIFICATION Spec
CONSTANTS
  a = a
  b = b
  c = c
  d = d
  e = e
  f = f
  h = h
  P = P
  Q = Q
  R = R
  S = S
  w1 = w1
  w2 = w2
  c1 = c1
  c2 = c2
  NoTask = NoTask
  Worker = {w1, w2}
  Client = {c1}
  Unit = {a, b}
  Parallel = {P}
  Sequence = {}
  members <- ShortFork
  maxTasks <- NoMax
  Inherit = {a, b}
  Root = {P}
  ActivelyWaited = {P}
  Calls <- NoCalls
INVARIANT
  NoCheckFails
CHECK_DEADLOCK FALSE
