--------------------------- MODULE TaskLifecycle ---------------------------
(***************************************************************************)
(* What the scheduler promises about unit tasks, whatever the queues, the   *)
(* workers and the notifications that keep the promise: a task is taken by  *)
(* one thread, once, and is completed by that thread; only after the        *)
(* scheduler was told to stop may a thread abandon the task it has taken.   *)
(***************************************************************************)
CONSTANTS Thread, Task, NoTask

VARIABLES
  status,   \* task -> how far it is
  holder,   \* thread -> the task it has taken and not completed, or NoTask
  stopped   \* whether stop() was called

vars == <<status, holder, stopped>>

Init ==
  /\ status = [t \in Task |-> "idle"]
  /\ holder = [th \in Thread |-> NoTask]
  /\ stopped = FALSE

Submit(t) ==
  /\ status[t] = "idle"
  /\ status' = [status EXCEPT ![t] = "added"]
  /\ UNCHANGED <<holder, stopped>>

\* By a worker that found it in a queue, or by a thread waiting on it actively.
Take(th, t) ==
  /\ status[t] \in {"idle", "added"}
  /\ holder[th] = NoTask
  /\ status' = [status EXCEPT ![t] = "taken"]
  /\ holder' = [holder EXCEPT ![th] = t]
  /\ UNCHANGED stopped

Complete(th) ==
  /\ holder[th] # NoTask
  /\ status' = [status EXCEPT ![holder[th]] = "done"]
  /\ holder' = [holder EXCEPT ![th] = NoTask]
  /\ UNCHANGED stopped

Abandon(th) ==
  /\ stopped
  /\ holder[th] # NoTask
  /\ holder' = [holder EXCEPT ![th] = NoTask]
  /\ UNCHANGED <<status, stopped>>

RequestStop == stopped' = TRUE /\ UNCHANGED <<status, holder>>

Next ==
  \/ \E t \in Task : Submit(t) \/ \E th \in Thread : Take(th, t)
  \/ \E th \in Thread : Complete(th) \/ Abandon(th)
  \/ RequestStop

Spec == Init /\ [][Next]_vars
=============================================================================
