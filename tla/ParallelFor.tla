---------------------------- MODULE ParallelFor ----------------------------
(***************************************************************************)
(* parallel_for.hpp: a thread makes one task per batch, gives their group to *)
(* the scheduler and waits actively for it.  A task asks the partitioner for *)
(* ranges until there is none left, and calls the user's function on every   *)
(* index of each.                                                            *)
(*                                                                         *)
(* The partitioner is what Partition promises of it, which both partitioners *)
(* keep; the group is what TaskGroups shows of it: a task is run by who       *)
(* grabs it, and the last one to report notifies the group.                  *)
(***************************************************************************)
EXTENDS BasePartitioner

\* The indices the function is to be called on: those of a range, or the positions
\* of a container.
Index == Interval(FirstIndex, LastIndex)

VARIABLES
  task,       \* batch -> where its task is
  left,       \* batch -> the indices of its range it has yet to call the function on
  calls,      \* index -> the calls of the function
  active,     \* activeTasksCount_ of the group
  notified,   \* whether the event of the group is notified
  caller,     \* where the caller of parallel_for is
  helpAt      \* the task its activeWait looks at

partitionerVars == <<given, exhausted>>
batchVars  == <<task, left, calls, active, notified>>
callerVars == <<caller, helpAt>>
forVars == <<partitionerVars, batchVars, callerVars>>

Partitioner == INSTANCE Partition

\* The tasks are made and added to the group; the partitioner is a fresh copy.
ForInit ==
  /\ Partitioner!Init
  /\ task = [b \in Batch |-> "queued"]
  /\ left = [b \in Batch |-> {}]
  /\ calls = [i \in Index |-> 0]
  /\ active = batchCount
  /\ notified = FALSE
  /\ caller = "called"
  /\ helpAt = 1

-----------------------------------------------------------------------------
(* The task of a batch. *)

\* A worker grabs it, once the group is in the scheduler.
TakeTask(b) ==
  /\ caller # "called"
  /\ task[b] = "queued"
  /\ task' = [task EXCEPT ![b] = "asking"]
  /\ UNCHANGED <<partitionerVars, left, calls, active, notified, callerVars>>

\* getNextValidRange has returned true and the range S ...
Receive(b, S) ==
  /\ task[b] = "asking"
  /\ task' = [task EXCEPT ![b] = "calling"]
  /\ left' = [left EXCEPT ![b] = S]
  /\ UNCHANGED <<calls, active, notified, callerVars>>

\* ... or false.
Leave(b) ==
  /\ task[b] = "asking"
  /\ task' = [task EXCEPT ![b] = "report"]
  /\ UNCHANGED <<left, calls, active, notified, callerVars>>

Ask(b) ==
  \/ \E S \in SUBSET Index : Receive(b, S) /\ Partitioner!Give(b, S)
  \/ Leave(b) /\ Partitioner!Refuse(b)

\* The loop from first to last: one call of the function.
Call(b) ==
  /\ task[b] = "calling"
  /\ \E i \in left[b] :
       /\ \A j \in left[b] : i <= j
       /\ calls' = [calls EXCEPT ![i] = @ + 1]
       /\ left' = [left EXCEPT ![b] = @ \ {i}]
       /\ task' = [task EXCEPT ![b] = IF left[b] = {i} THEN "asking" ELSE @]
  /\ UNCHANGED <<partitionerVars, active, notified, callerVars>>

\* oneTaskDone of the group: who takes the count to zero is to notify it.
Report(b) ==
  /\ task[b] = "report"
  /\ active' = active - 1
  /\ task' = [task EXCEPT ![b] = IF active = 1 THEN "join" ELSE "done"]
  /\ UNCHANGED <<partitionerVars, left, calls, notified, callerVars>>

Join(b) ==
  /\ task[b] = "join"
  /\ notified' = TRUE
  /\ task' = [task EXCEPT ![b] = "done"]
  /\ UNCHANGED <<partitionerVars, left, calls, active, callerVars>>

-----------------------------------------------------------------------------
(* The caller. *)

\* The group is in the scheduler.
Fork ==
  /\ caller = "called"
  /\ caller' = "helping"
  /\ UNCHANGED <<partitionerVars, batchVars, helpAt>>

\* activeWait: grab a task and run it, or go on if somebody has it.
Help ==
  /\ caller = "helping" /\ helpAt <= batchCount
  /\ IF task[helpAt] = "queued"
     THEN /\ task' = [task EXCEPT ![helpAt] = "asking"]
          /\ caller' = "running"
          /\ UNCHANGED helpAt
     ELSE helpAt' = helpAt + 1 /\ UNCHANGED <<task, caller>>
  /\ UNCHANGED <<partitionerVars, left, calls, active, notified>>

HelpDone ==
  /\ caller = "running" /\ task[helpAt] = "done"
  /\ caller' = "helping"
  /\ helpAt' = helpAt + 1
  /\ UNCHANGED <<partitionerVars, batchVars>>

\* The loop is over: wait for the group.
Wait ==
  /\ caller = "helping" /\ helpAt > batchCount
  /\ caller' = "waiting"
  /\ UNCHANGED <<partitionerVars, batchVars, helpAt>>

WaitReturns ==
  /\ caller = "waiting" /\ notified
  /\ caller' = "returned"
  /\ UNCHANGED <<partitionerVars, batchVars, helpAt>>

-----------------------------------------------------------------------------
\* What goes on without the partitioner.
TaskStep(b) == Call(b) \/ Report(b) \/ Join(b)
CallerStep  == Fork \/ Help \/ HelpDone \/ Wait \/ WaitReturns

ForNext ==
  \/ \E b \in Batch : TakeTask(b) \/ Ask(b) \/ TaskStep(b)
  \/ CallerStep

ForSpec == ForInit /\ [][ForNext]_forVars

-----------------------------------------------------------------------------
ForTypeOK ==
  /\ given \in [Batch -> SUBSET Index] /\ exhausted \subseteq Batch
  /\ task \in [Batch -> {"queued", "asking", "calling", "report", "join", "done"}]
  /\ left \in [Batch -> SUBSET Index]
  /\ calls \in [Index -> Nat]
  /\ active \in Nat
  /\ notified \in BOOLEAN
  /\ caller \in {"called", "helping", "running", "waiting", "returned"}
  /\ helpAt \in 1..(batchCount + 1)

\* The function is called on no index twice and on nothing else, and parallel_for
\* returns when it was called on every one, whoever ran the tasks: what the caller
\* captured by reference (parallel_for_each does) is not used after that.
EachIndexOnce ==
  /\ \A i \in Index : calls[i] <= 1
  /\ \A b \in Batch : left[b] \subseteq Index
  /\ caller = "returned" => \A i \in Index : calls[i] = 1

\* parallel_for returns, though no worker may ever take any of its tasks.
ParallelForReturns == <>(caller = "returned")
=============================================================================
