SPECIFICATION Spec
CONSTANTS
  c1 = c1
  c2 = c2
  u1 = u1
  u2 = u2
  g = g
  WorkerCount = 2
  Client = {c1}
  PRIO_COUNT = 2
  workerPrio <- MCworkerPrio
  Task = {u1}
  Group = {}
  priority <- MCpriority
  NoTask = NoTask
  CreateMayFail = FALSE
  MaxAdds <- AddOnce
  MaxStarts = 1
INVARIANT
  WorkerHasTaskOrQuits
CHECK_DEADLOCK FALSE
