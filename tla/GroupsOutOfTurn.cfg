SPECIFICATION Spec
CONSTANTS
  a = a
  b = b
  c = c
  d = d
  e = e
  f = f
  h = h
  P = P
  Q = Q
  R = R
  S = S
  w1 = w1
  w2 = w2
  c1 = c1
  c2 = c2
  NoTask = NoTask
  Worker = {w1, w2}
  Client = {c1}
  Unit = {a, b}
  Parallel = {}
  Sequence = {S}
  members <- Chain
  maxTasks <- NoMax
  Inherit = {}
  Root = {S}
  ActivelyWaited = {b}
  Calls <- NoCalls
INVARIANT
  NoCheckFails
CHECK_DEADLOCK FALSE
