------------------------------ MODULE ForkJoin ------------------------------
(***************************************************************************)
(* What groups of tasks promise, whatever the queues, counters and threads  *)
(* that keep the promise.  Every unit task is run by somebody, once, and a   *)
(* task that lies in a sequence (itself or within a group of it) is not      *)
(* started before everything ahead of it in the sequence is done.  A group   *)
(* is done, once, after all of its tasks are; a task that waits for a group  *)
(* within its function is done after that group.                            *)
(***************************************************************************)
CONSTANTS
  Unit,       \* the tasks that run a function
  Group,      \* the tasks made of other tasks
  TasksOf,    \* group -> the set of its tasks
  Before,     \* unit task -> the tasks that must be done before it starts
  WaitsFor    \* unit task -> the groups its function waits for

Task == Unit \cup Group

VARIABLE state   \* task -> "idle", "running" or "done"

Init == state = [t \in Task |-> "idle"]

Start(t) ==
  /\ state[t] = "idle"
  /\ \A b \in Before[t] : state[b] = "done"
  /\ state' = [state EXCEPT ![t] = "running"]

Finish(t) ==
  /\ state[t] = "running"
  /\ \A g \in WaitsFor[t] : state[g] = "done"
  /\ state' = [state EXCEPT ![t] = "done"]

Join(g) ==
  /\ state[g] = "idle"
  /\ \A t \in TasksOf[g] : state[t] = "done"
  /\ state' = [state EXCEPT ![g] = "done"]

Next ==
  \/ \E t \in Unit : Start(t) \/ Finish(t)
  \/ \E g \in Group : Join(g)

Spec == Init /\ [][Next]_state
=============================================================================
