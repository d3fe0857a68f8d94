SPECIFICATION Spec
CONSTANTS
  c1 = c1
  c2 = c2
  u1 = u1
  u2 = u2
  g = g
  WorkerCount = 2
  Client = {c1}
  PRIO_COUNT = 2
  workerPrio <- MCworkerPrio
  Task = {u1, g}
  Group = {g}
  priority <- MCpriority
  NoTask = NoTask
  CreateMayFail = TRUE
  MaxAdds <- AddOnce
  MaxStarts = 2
INVARIANTS
  TypeOK
  NoLostWakeup
  ExclusiveOwner
  NoTaskForgotten
  StopWakesEveryone
  OnlyStopDropsTasks
PROPERTIES
  RunOnce
  WaitMeansDone
CHECK_DEADLOCK FALSE
