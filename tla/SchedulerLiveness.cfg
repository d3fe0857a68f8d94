SPECIFICATION FairSpec
CONSTANTS
  c1 = c1
  c2 = c2
  u1 = u1
  u2 = u2
  g = g
  WorkerCount = 2
  Client = {c1}
  PRIO_COUNT = 2
  workerPrio <- MCworkerPrio
  Task = {u1}
  Group = {}
  priority <- MCpriority
  NoTask = NoTask
  CreateMayFail = TRUE
  MaxAdds <- AddDup
  MaxStarts = 1
PROPERTIES
  ImplementsLifecycle
  AddedTaskRuns
  WaiterReleased
  StopTerminates
CHECK_DEADLOCK FALSE
