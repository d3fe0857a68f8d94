----------------------------- MODULE TaskGroups -----------------------------
(***************************************************************************)
(* Trees of tasks: parallel_group.hpp, sequence_group.hpp, task_group.hpp   *)
(* and the calls they make into task.hpp, task_base.hpp and scheduler::add. *)
(*                                                                         *)
(* A thread runs execute() on a task, and oneTaskDone() on the parents of    *)
(* the tasks it completes, one inside the other; almost every call is the   *)
(* last thing its caller does, so a thread is at one place (pc) in a call   *)
(* on one task (cur), and what it comes back to is only the reset of the     *)
(* parent pointers of the tasks in frames and the loop of activeWait.       *)
(*                                                                         *)
(* The scheduler is reduced to what Scheduler.tla shows of it: a bag of      *)
(* handles, any of which an idle worker may take, and a tryGrab that one     *)
(* thread wins.                                                             *)
(***************************************************************************)
EXTENDS Integers, Sequences, FiniteSets

CONSTANTS
  Worker,         \* the threads of the scheduler
  Client,         \* the other threads
  Unit,           \* the tasks that run a function
  Parallel,       \* the parallel groups
  Sequence,       \* the sequence groups
  members,        \* group -> the sequence of its tasks (tasks_)
  maxTasks,       \* parallel group -> maxSimultaneousTasks_, 0 for no maximum
  Inherit,        \* the tasks of priority task_priority::inherit
  Root,           \* the tasks clients give to the scheduler and wait for
  ActivelyWaited, \* the tasks clients call activeWait on
  Calls,          \* unit task -> the group its function adds and waits for (as parallel_for
                  \* does), or NoTask
  NoTask          \* the null handle, the null parent

Thread == Worker \cup Client
Group  == Parallel \cup Sequence
Task   == Unit \cup Group

Members(g) == {members[g][i] : i \in DOMAIN members[g]}

Called == {Calls[t] : t \in Unit} \ {NoTask}

\* A task has one parent at most (task_group::addTask refuses a second one), a
\* group is not empty, an inherited priority is inherited from somewhere.
ASSUME GroupsAssumption ==
  /\ Worker \cap Client = {}
  /\ Unit \cap Group = {} /\ Parallel \cap Sequence = {}
  /\ NoTask \notin Task
  /\ members \in [Group -> Seq(Task) \ {<<>>}]
  /\ \A g1, g2 \in Group : \A i \in DOMAIN members[g1], j \in DOMAIN members[g2] :
       members[g1][i] = members[g2][j] => g1 = g2 /\ i = j
  /\ maxTasks \in [Parallel -> Nat]
  /\ Inherit \subseteq UNION {Members(g) : g \in Group}
  /\ Root \subseteq Task /\ ActivelyWaited \subseteq Unit \cup Parallel
  /\ Calls \in [Unit -> Parallel \cup {NoTask}]
  /\ Called \cap (Root \cup ActivelyWaited \cup UNION {Members(g) : g \in Group}) = {}
  /\ \A t1, t2 \in Unit : Calls[t1] = Calls[t2] => t1 = t2 \/ Calls[t1] = NoTask

Parent(t) ==
  IF \E g \in Group : t \in Members(g) THEN CHOOSE g \in Group : t \in Members(g) ELSE NoTask

VARIABLES
  pending,     \* task -> the number of its handles in the scheduler's queues
  submitted,   \* the roots, and the groups made by tasks, given to scheduler::add
  grabbed,     \* task_base::grabbed_
  done,        \* task_base::done_
  notified,    \* whether the task's event has been notified
  parentSet,   \* whether task_base::spParentGroup_ points to the parent
  hooks,       \* task -> the calls to its context, "pre" and "post" (onPreExecute, ...)
  activeCount, \* parallel group -> activeTasksCount_
  nextIndex,   \* parallel group -> currentTaskIndex_
  queue,       \* sequence group -> tasks_, what is left of it
  pc,          \* thread -> where it is
  cur,         \* thread -> the task it is in a call on
  at,          \* thread -> the local i of the loops of parallel_group
  scheduled,   \* thread -> the local scheduledTasks of executeImpl
  adding,      \* thread -> the task inside scheduler::add, or NoTask
  asking,      \* thread -> the task resolveTaskPriority has reached
  frames,      \* thread -> the tasks whose notifyParent it is in
  helping,     \* thread -> the group its activeWait loops over, or NoTask
  helpAt,      \* thread -> the position of that loop
  outer        \* thread -> the calls of activeWait from within a task it is in: that task,
               \* and the frames and the loop it comes back to

taskVars  == <<submitted, grabbed, done, notified>>
groupVars == <<activeCount, nextIndex, queue>>
addVars   == <<pending, adding, asking>>
callVars  == <<cur, at, scheduled>>
helpVars  == <<helping, helpAt, outer>>
vars == <<taskVars, parentSet, hooks, groupVars, addVars, pc, callVars, frames, helpVars>>

PC == {"idle", "verify", "execute", "spawn", "spawning", "first", "notify", "report",
       "schedule", "scheduling", "join", "return", "help", "waiting", "called", "crashed"}

\* The groups as addTask built them, nothing submitted yet.
Init ==
  /\ pending = [t \in Task |-> 0]
  /\ submitted = {}
  /\ grabbed = [t \in Task |-> FALSE]
  /\ done = [t \in Task |-> FALSE]
  /\ notified = [t \in Task |-> FALSE]
  /\ parentSet = [t \in Task |-> Parent(t) # NoTask]
  /\ hooks = [t \in Task |-> <<>>]
  /\ activeCount = [g \in Parallel |-> Len(members[g])]
  /\ nextIndex = [g \in Parallel |-> 1]
  /\ queue = [g \in Sequence |-> members[g]]
  /\ pc = [th \in Thread |-> "idle"]
  /\ cur = [th \in Thread |-> NoTask]
  /\ at = [th \in Thread |-> 0]
  /\ scheduled = [th \in Thread |-> 0]
  /\ adding = [th \in Thread |-> NoTask]
  /\ asking = [th \in Thread |-> NoTask]
  /\ frames = [th \in Thread |-> <<>>]
  /\ helping = [th \in Thread |-> NoTask]
  /\ helpAt = [th \in Thread |-> 1]
  /\ outer = [th \in Thread |-> <<>>]

\* th, not inside scheduler::add, is at label.
At(th, label)   == pc[th] = label /\ adding[th] = NoTask
Goto(th, label) == pc' = [pc EXCEPT ![th] = label]
On(th, t)       == cur' = [cur EXCEPT ![th] = t]

\* The context of t hears of h: one call to each context of the list, in its order.
Hook(t, h) == hooks' = [hooks EXCEPT ![t] = Append(@, h)]

-----------------------------------------------------------------------------
(* scheduler::add *)

Add(th, t) == adding' = [adding EXCEPT ![th] = t] /\ UNCHANGED asking

\* The test at its start: a task grabbed or done by now is not queued.
TestTask(th) ==
  /\ adding[th] # NoTask /\ asking[th] = NoTask
  /\ IF grabbed[adding[th]] \/ done[adding[th]]
     THEN adding' = [adding EXCEPT ![th] = NoTask] /\ UNCHANGED asking
     ELSE asking' = [asking EXCEPT ![th] = adding[th]] /\ UNCHANGED adding
  /\ UNCHANGED <<pending, taskVars, parentSet, hooks, groupVars, pc, callVars, frames, helpVars>>

Submit(c, t) ==
  /\ At(c, "idle")
  /\ t \in Root \ submitted
  /\ submitted' = submitted \cup {t}
  /\ Add(c, t)
  /\ UNCHANGED <<pending, grabbed, done, notified, parentSet, hooks, groupVars, pc, callVars,
                 frames, helpVars>>

\* One round of resolveTaskPriority: up to the parent, whose pointer must not
\* be null (checked at scheduler.hpp:214, dereferenced without it).
AskParent(th) ==
  /\ asking[th] \in Inherit
  /\ IF parentSet[asking[th]]
     THEN asking' = [asking EXCEPT ![th] = Parent(asking[th])] /\ UNCHANGED pc
     ELSE Goto(th, "crashed") /\ UNCHANGED asking
  /\ UNCHANGED <<pending, adding, taskVars, parentSet, hooks, groupVars, callVars, frames, helpVars>>

PushTask(th) ==
  /\ asking[th] \in Task \ Inherit
  /\ pending' = [pending EXCEPT ![adding[th]] = @ + 1]
  /\ adding' = [adding EXCEPT ![th] = NoTask]
  /\ asking' = [asking EXCEPT ![th] = NoTask]
  /\ UNCHANGED <<taskVars, parentSet, hooks, groupVars, pc, callVars, frames, helpVars>>

-----------------------------------------------------------------------------
(* A worker takes a handle out of the queues. *)

\* tryGrab() && !isDone(), or the handle is dropped.
PopTask(w, t) ==
  /\ At(w, "idle")
  /\ pending[t] > 0
  /\ pending' = [pending EXCEPT ![t] = @ - 1]
  /\ grabbed' = [grabbed EXCEPT ![t] = TRUE]
  /\ IF grabbed[t] \/ done[t]
     THEN UNCHANGED <<pc, cur>>
     ELSE Goto(w, "verify") /\ On(w, t)
  /\ UNCHANGED <<submitted, done, notified, parentSet, hooks, groupVars, adding, asking,
                 at, scheduled, frames, helpVars>>

\* signalAvailableWorker: the group may have been completed in the meantime.
Verify(w) ==
  /\ At(w, "verify")
  /\ IF done[cur[w]]
     THEN Goto(w, "idle") /\ On(w, NoTask)
     ELSE Goto(w, "execute") /\ UNCHANGED cur
  /\ UNCHANGED <<taskVars, parentSet, hooks, groupVars, addVars, at, scheduled, frames, helpVars>>

-----------------------------------------------------------------------------
(* execute() *)

\* task::invoke: onPreExecute, a function that waits for no task, done_.
ExecuteTask(th) ==
  /\ At(th, "execute")
  /\ cur[th] \in Unit /\ Calls[cur[th]] = NoTask
  /\ Hook(cur[th], "pre")
  /\ done' = [done EXCEPT ![cur[th]] = TRUE]
  /\ Goto(th, "notify")
  /\ UNCHANGED <<submitted, grabbed, notified, parentSet, groupVars, addVars, callVars,
                 frames, helpVars>>

\* A function that makes a group, adds it and calls activeWait on it ...
CallGroup(th) ==
  /\ At(th, "execute")
  /\ cur[th] \in Unit /\ Calls[cur[th]] # NoTask
  /\ Hook(cur[th], "pre")
  /\ submitted' = submitted \cup {Calls[cur[th]]}
  /\ Add(th, Calls[cur[th]])
  /\ outer' = [outer EXCEPT ![th] =
                 Append(@, [task |-> cur[th], frames |-> frames[th],
                            helping |-> helping[th], helpAt |-> helpAt[th]])]
  /\ frames' = [frames EXCEPT ![th] = <<>>]
  /\ helping' = [helping EXCEPT ![th] = Calls[cur[th]]]
  /\ helpAt' = [helpAt EXCEPT ![th] = 1]
  /\ Goto(th, "help")
  /\ UNCHANGED <<pending, grabbed, done, notified, parentSet, groupVars, callVars>>

\* ... and that ends when activeWait has returned.
FinishCaller(th) ==
  /\ At(th, "called")
  /\ done' = [done EXCEPT ![cur[th]] = TRUE]
  /\ Goto(th, "notify")
  /\ UNCHANGED <<submitted, grabbed, notified, parentSet, hooks, groupVars, addVars,
                 callVars, frames, helpVars>>

\* task_group::execute: onPreExecute, and executeImpl.  Of a sequence: popTask,
\* tryGrab, and execute() on that task.
ExecuteSequence(th) ==
  /\ At(th, "execute") /\ cur[th] \in Sequence
  /\ Hook(cur[th], "pre")
  /\ LET q == queue[cur[th]]
     IN IF q = <<>>
        THEN Goto(th, "crashed") /\ UNCHANGED <<queue, grabbed, cur>>
        ELSE /\ queue' = [queue EXCEPT ![cur[th]] = Tail(q)]
             /\ grabbed' = [grabbed EXCEPT ![Head(q)] = TRUE]
             /\ IF grabbed[Head(q)]
                THEN Goto(th, "return") /\ UNCHANGED cur
                ELSE On(th, Head(q)) /\ UNCHANGED pc
  /\ UNCHANGED <<submitted, done, notified, parentSet, activeCount, nextIndex, addVars,
                 at, scheduled, frames, helpVars>>

ExecuteParallel(th) ==
  /\ At(th, "execute") /\ cur[th] \in Parallel
  /\ Hook(cur[th], "pre")
  /\ scheduled' = [scheduled EXCEPT ![th] = 0]
  /\ Goto(th, "spawn")
  /\ UNCHANGED <<taskVars, parentSet, groupVars, addVars, cur, at, frames, helpVars>>

\* i = currentTaskIndex_.fetch_add(1), in executeImpl (spawn) and oneTaskDone
\* (schedule), and the exit of their loops.
FetchIndex(th) ==
  /\ At(th, "spawn") \/ At(th, "schedule")
  /\ LET g == cur[th]
         i == nextIndex[g]
     IN /\ at' = [at EXCEPT ![th] = i]
        /\ nextIndex' = [nextIndex EXCEPT ![g] = i + 1]
        /\ CASE i < Len(members[g]) /\ pc[th] = "spawn"     -> Goto(th, "spawning")
             [] i < Len(members[g]) /\ pc[th] = "schedule"  -> Goto(th, "scheduling")
             [] i >= Len(members[g]) /\ pc[th] = "spawn"    -> Goto(th, "first")
             [] i >= Len(members[g]) /\ pc[th] = "schedule" -> Goto(th, "return")
  /\ UNCHANGED <<taskVars, parentSet, hooks, activeCount, queue, addVars, cur, scheduled, frames,
                 helpVars>>

\* Mutant: one task too many is added.
SpawnOneMore(th) ==
  /\ At(th, "spawning")
  /\ LET g == cur[th]
         t == members[g][at[th] + 1]
         n == scheduled[th] + 1
     IN IF grabbed[t] \/ done[t]
        THEN Goto(th, "spawn") /\ UNCHANGED <<adding, asking, scheduled>>
        ELSE /\ Add(th, t)
             /\ scheduled' = [scheduled EXCEPT ![th] = IF maxTasks[g] > 0 THEN n ELSE @]
             /\ Goto(th, IF maxTasks[g] > 0 /\ n >= maxTasks[g] THEN "first" ELSE "spawn")
  /\ UNCHANGED <<pending, taskVars, parentSet, hooks, groupVars, cur, at, frames, helpVars>>

\* executeImpl adds a task nobody has, and stops when it has added enough.
SpawnTask(th) ==
  /\ At(th, "spawning")
  /\ LET g == cur[th]
         t == members[g][at[th] + 1]
         n == scheduled[th] + 1
     IN IF grabbed[t] \/ done[t]
        THEN Goto(th, "spawn") /\ UNCHANGED <<adding, asking, scheduled>>
        ELSE /\ Add(th, t)
             /\ scheduled' = [scheduled EXCEPT ![th] = IF maxTasks[g] > 0 THEN n ELSE @]
             /\ Goto(th, IF maxTasks[g] > 0 /\ n >= maxTasks[g] - 1 THEN "first" ELSE "spawn")
  /\ UNCHANGED <<pending, taskVars, parentSet, hooks, groupVars, cur, at, frames, helpVars>>

\* ... and runs the first task itself.
GrabFirst(th) ==
  /\ At(th, "first")
  /\ LET t == members[cur[th]][1]
     IN /\ grabbed' = [grabbed EXCEPT ![t] = TRUE]
        /\ IF grabbed[t]
           THEN Goto(th, "return") /\ UNCHANGED cur
           ELSE Goto(th, "execute") /\ On(th, t)
  /\ UNCHANGED <<submitted, done, notified, parentSet, hooks, groupVars, addVars, at, scheduled,
                 frames, helpVars>>

-----------------------------------------------------------------------------
(* The end of a task: notify, notifyParent, oneTaskDone, notifyGroupDone.    *)

\* Mutant: the parent hears of the task, those who wait for it do not.
NotifyNobody(th) ==
  /\ At(th, "notify")
  /\ Goto(th, "report")
  /\ UNCHANGED <<taskVars, parentSet, hooks, groupVars, addVars, callVars, frames, helpVars>>

\* onPostExecute, then the event.
NotifyTask(th) ==
  /\ At(th, "notify")
  /\ Hook(cur[th], "post")
  /\ notified' = [notified EXCEPT ![cur[th]] = TRUE]
  /\ Goto(th, "report")
  /\ UNCHANGED <<submitted, grabbed, done, parentSet, groupVars, addVars, callVars, frames,
                 helpVars>>

\* notifyParent without a parent.
ReportToNobody(th) ==
  /\ At(th, "report")
  /\ Parent(cur[th]) = NoTask
  /\ Goto(th, "return")
  /\ UNCHANGED <<taskVars, parentSet, hooks, groupVars, addVars, callVars, frames, helpVars>>

\* notifyParent: oneTaskDone on the parent, and the reset of the pointer after.
EnterParent(th) ==
  /\ frames' = [frames EXCEPT ![th] = Append(@, cur[th])]
  /\ On(th, Parent(cur[th]))

\* Mutant: the group is completed one task too early.
ReportTooEarly(th) ==
  /\ At(th, "report")
  /\ Parent(cur[th]) \in Parallel
  /\ LET g == Parent(cur[th])
     IN /\ activeCount' = [activeCount EXCEPT ![g] = @ - 1]
        /\ Goto(th, IF activeCount[g] <= 2 THEN "join"
                    ELSE IF maxTasks[g] > 0 THEN "schedule" ELSE "return")
  /\ EnterParent(th)
  /\ UNCHANGED <<taskVars, parentSet, hooks, nextIndex, queue, addVars, at, scheduled, helpVars>>

\* Mutant: what fetch_sub returns is taken for the new count.
ReportLastNeverJoins(th) ==
  /\ At(th, "report")
  /\ Parent(cur[th]) \in Parallel
  /\ LET g == Parent(cur[th])
     IN /\ activeCount' = [activeCount EXCEPT ![g] = @ - 1]
        /\ Goto(th, IF activeCount[g] = 0 THEN "join"
                    ELSE IF maxTasks[g] > 0 THEN "schedule" ELSE "return")
  /\ EnterParent(th)
  /\ UNCHANGED <<taskVars, parentSet, hooks, nextIndex, queue, addVars, at, scheduled, helpVars>>

\* parallel_group::oneTaskDone: activeTasksCount_.fetch_sub(1).
ReportToParallel(th) ==
  /\ At(th, "report")
  /\ Parent(cur[th]) \in Parallel
  /\ LET g == Parent(cur[th])
     IN /\ activeCount' = [activeCount EXCEPT ![g] = @ - 1]
        /\ Goto(th, IF activeCount[g] = 1 THEN "join"
                    ELSE IF maxTasks[g] > 0 THEN "schedule" ELSE "return")
  /\ EnterParent(th)
  /\ UNCHANGED <<taskVars, parentSet, hooks, nextIndex, queue, addVars, at, scheduled, helpVars>>

\* Its loop finds the next task that nobody has.
ScheduleNext(th) ==
  /\ At(th, "scheduling")
  /\ LET t == members[cur[th]][at[th] + 1]
     IN IF grabbed[t] \/ done[t]
        THEN Goto(th, "schedule") /\ UNCHANGED <<adding, asking>>
        ELSE Add(th, t) /\ Goto(th, "return")
  /\ UNCHANGED <<pending, taskVars, parentSet, hooks, groupVars, callVars, frames, helpVars>>

\* Mutant: the sequence is completed once its last task is queued.
ReportBeforeLast(th) ==
  /\ At(th, "report")
  /\ Parent(cur[th]) \in Sequence
  /\ LET q == queue[Parent(cur[th])]
     IN IF q = <<>>
        THEN Goto(th, "join") /\ UNCHANGED <<queue, adding, asking>>
        ELSE /\ queue' = [queue EXCEPT ![Parent(cur[th])] = Tail(q)]
             /\ Add(th, Head(q))
             /\ Goto(th, IF Len(q) = 1 THEN "join" ELSE "return")
  /\ EnterParent(th)
  /\ UNCHANGED <<pending, taskVars, parentSet, hooks, activeCount, nextIndex, at, scheduled,
                 helpVars>>

\* sequence_group::oneTaskDone.
ReportToSequence(th) ==
  /\ At(th, "report")
  /\ Parent(cur[th]) \in Sequence
  /\ LET q == queue[Parent(cur[th])]
     IN IF q = <<>>
        THEN Goto(th, "join") /\ UNCHANGED <<queue, adding, asking>>
        ELSE /\ queue' = [queue EXCEPT ![Parent(cur[th])] = Tail(q)]
             /\ Add(th, Head(q))
             /\ Goto(th, "return")
  /\ EnterParent(th)
  /\ UNCHANGED <<pending, taskVars, parentSet, hooks, activeCount, nextIndex, at, scheduled,
                 helpVars>>

\* notifyGroupDone; it notifies the group, then the parent of the group.
JoinGroup(th) ==
  /\ At(th, "join")
  /\ done' = [done EXCEPT ![cur[th]] = TRUE]
  /\ Goto(th, "notify")
  /\ UNCHANGED <<submitted, grabbed, notified, parentSet, hooks, groupVars, addVars, callVars,
                 frames, helpVars>>

\* spParentGroup_.reset(), from the innermost notifyParent outwards.
ResetParent(th) ==
  /\ At(th, "return")
  /\ frames[th] # <<>>
  /\ LET n == Len(frames[th])
     IN /\ parentSet' = [parentSet EXCEPT ![frames[th][n]] = FALSE]
        /\ frames' = [frames EXCEPT ![th] = SubSeq(@, 1, n - 1)]
  /\ UNCHANGED <<taskVars, hooks, groupVars, addVars, pc, callVars, helpVars>>

\* Back to the scheduler, to the caller of activeWait, or to its loop.
Return(th) ==
  /\ At(th, "return")
  /\ frames[th] = <<>>
  /\ On(th, NoTask)
  /\ Goto(th, IF helping[th] # NoTask THEN "help" ELSE "idle")
  /\ UNCHANGED <<taskVars, parentSet, hooks, groupVars, addVars, at, scheduled, frames, helpVars>>

-----------------------------------------------------------------------------
(* What clients do. *)

\* task::activeWait: run the task, or wait for who does.
ActiveWaitTask(c, t) ==
  /\ At(c, "idle")
  /\ t \in ActivelyWaited \cap Unit
  /\ grabbed' = [grabbed EXCEPT ![t] = TRUE]
  /\ Goto(c, IF grabbed[t] THEN "waiting" ELSE "execute")
  /\ On(c, t)
  /\ UNCHANGED <<submitted, done, notified, parentSet, hooks, groupVars, addVars, at, scheduled,
                 frames, helpVars>>

\* parallel_group::activeWait: run every task that nobody has, then wait.
ActiveWaitGroup(c, g) ==
  /\ At(c, "idle")
  /\ g \in ActivelyWaited \cap Parallel
  /\ helping' = [helping EXCEPT ![c] = g]
  /\ helpAt' = [helpAt EXCEPT ![c] = 1]
  /\ Goto(c, "help")
  /\ UNCHANGED <<taskVars, parentSet, hooks, groupVars, addVars, callVars, frames, outer>>

\* Mutant: the tasks are run whether or not tryGrab succeeds.
HelpWithoutGrab(c) ==
  /\ At(c, "help")
  /\ helpAt[c] <= Len(members[helping[c]])
  /\ LET t == members[helping[c]][helpAt[c]]
     IN /\ grabbed' = [grabbed EXCEPT ![t] = TRUE]
        /\ Goto(c, "execute") /\ On(c, t)
  /\ helpAt' = [helpAt EXCEPT ![c] = @ + 1]
  /\ UNCHANGED <<submitted, done, notified, parentSet, hooks, groupVars, addVars, at, scheduled,
                 frames, helping, outer>>

Help(c) ==
  /\ At(c, "help")
  /\ helpAt[c] <= Len(members[helping[c]])
  /\ LET t == members[helping[c]][helpAt[c]]
     IN /\ grabbed' = [grabbed EXCEPT ![t] = TRUE]
        /\ IF grabbed[t] THEN UNCHANGED <<pc, cur>> ELSE Goto(c, "execute") /\ On(c, t)
  /\ helpAt' = [helpAt EXCEPT ![c] = @ + 1]
  /\ UNCHANGED <<submitted, done, notified, parentSet, hooks, groupVars, addVars, at, scheduled,
                 frames, helping, outer>>

HelpEnds(c) ==
  /\ At(c, "help")
  /\ helpAt[c] > Len(members[helping[c]])
  /\ Goto(c, "waiting")
  /\ On(c, helping[c])
  /\ helping' = [helping EXCEPT ![c] = NoTask]
  /\ helpAt' = [helpAt EXCEPT ![c] = 1]
  /\ UNCHANGED <<taskVars, parentSet, hooks, groupVars, addVars, at, scheduled, frames, outer>>

Wait(c, t) ==
  /\ At(c, "idle")
  /\ t \in Root
  /\ Goto(c, "waiting")
  /\ On(c, t)
  /\ UNCHANGED <<taskVars, parentSet, hooks, groupVars, addVars, at, scheduled, frames, helpVars>>

WaitReturns(th) ==
  /\ At(th, "waiting") /\ outer[th] = <<>>
  /\ notified[cur[th]]
  /\ Goto(th, "idle")
  /\ On(th, NoTask)
  /\ UNCHANGED <<taskVars, parentSet, hooks, groupVars, addVars, at, scheduled, frames,
                 helpVars>>

\* activeWait returns to the function of a task.
CallReturns(th) ==
  /\ At(th, "waiting") /\ outer[th] # <<>>
  /\ notified[cur[th]]
  /\ LET n == Len(outer[th])
         o == outer[th][n]
     IN /\ On(th, o.task)
        /\ frames' = [frames EXCEPT ![th] = o.frames]
        /\ helping' = [helping EXCEPT ![th] = o.helping]
        /\ helpAt' = [helpAt EXCEPT ![th] = o.helpAt]
        /\ outer' = [outer EXCEPT ![th] = SubSeq(@, 1, n - 1)]
  /\ Goto(th, "called")
  /\ UNCHANGED <<taskVars, parentSet, hooks, groupVars, addVars, at, scheduled>>

-----------------------------------------------------------------------------
\* What a thread does once it has started something.
Continue(th) ==
  \/ TestTask(th) \/ AskParent(th) \/ PushTask(th) \/ Verify(th)
  \/ ExecuteTask(th) \/ CallGroup(th) \/ FinishCaller(th)
  \/ ExecuteSequence(th) \/ ExecuteParallel(th)
  \/ FetchIndex(th) \/ SpawnTask(th) \/ GrabFirst(th)
  \/ NotifyTask(th) \/ ReportToNobody(th) \/ ReportToParallel(th) \/ ScheduleNext(th)
  \/ ReportToSequence(th) \/ JoinGroup(th) \/ ResetParent(th) \/ Return(th)
  \/ Help(th) \/ HelpEnds(th) \/ WaitReturns(th) \/ CallReturns(th)

Crashed == \E th \in Thread : pc[th] = "crashed"

Next ==
  /\ ~Crashed
  /\ \/ \E th \in Thread : Continue(th)
     \/ \E w \in Worker, t \in Task : PopTask(w, t)
     \/ \E c \in Client, t \in Task : Submit(c, t) \/ ActiveWaitTask(c, t) \/ Wait(c, t)
     \/ \E c \in Client, g \in Parallel : ActiveWaitGroup(c, g)

Spec == Init /\ [][Next]_vars

(* Threads that can go on do, and workers keep taking what is queued (which  *)
(* Scheduler.tla shows).  Clients are free to submit and to wait, or not.    *)
FairSpec ==
  /\ Spec
  /\ \A th \in Thread : WF_vars(~Crashed /\ Continue(th))
  /\ \A w \in Worker : WF_vars(~Crashed /\ \E t \in Task : PopTask(w, t))

-----------------------------------------------------------------------------
TypeOK ==
  /\ pending \in [Task -> Nat]
  /\ submitted \subseteq Root \cup Called
  /\ grabbed \in [Task -> BOOLEAN] /\ done \in [Task -> BOOLEAN]
  /\ notified \in [Task -> BOOLEAN] /\ parentSet \in [Task -> BOOLEAN]
  /\ hooks \in [Task -> Seq({"pre", "post"})]
  /\ activeCount \in [Parallel -> Nat] /\ nextIndex \in [Parallel -> Nat]
  /\ queue \in [Sequence -> Seq(Task)]
  /\ pc \in [Thread -> PC]
  /\ cur \in [Thread -> Task \cup {NoTask}]
  /\ at \in [Thread -> Nat] /\ scheduled \in [Thread -> Nat]
  /\ adding \in [Thread -> Task \cup {NoTask}] /\ asking \in [Thread -> Task \cup {NoTask}]
  /\ frames \in [Thread -> Seq(Task)]
  /\ helping \in [Thread -> Task \cup {NoTask}] /\ helpAt \in [Thread -> Nat]
  /\ outer \in [Thread -> Seq([task : Unit, frames : Seq(Task),
                              helping : Task \cup {NoTask}, helpAt : Nat])]

\* A done task of which the group has not heard yet.
Unreported(t) ==
  ~done[t] \/ \E th \in Thread : cur[th] = t /\ pc[th] \in {"notify", "report"}

\* activeTasksCount_ is the number of tasks that have not reported: no task
\* reports twice, whoever ran it, so that the group is completed by one thread,
\* the one that took the counter to zero.
CountsUnreported ==
  \A g \in Parallel :
    activeCount[g] = Cardinality({t \in Members(g) : Unreported(t)})

\* The queue of a sequence group is a std::queue without a lock: at most one
\* thread at a time is about to read or pop it, in execute() or oneTaskDone().
AtQueue(th, g) ==
  \/ pc[th] = "execute" /\ cur[th] = g
  \/ pc[th] = "report" /\ Parent(cur[th]) = g

SequenceQueueExclusive ==
  \A g \in Sequence : \A th1, th2 \in Thread :
    AtQueue(th1, g) /\ AtQueue(th2, g) => th1 = th2

\* The code's own checks hold: no empty sequence is executed (sequence_group.hpp:88
\* "Attempting to execute an empty sequence"), and a priority is inherited from a
\* parent that is there (scheduler.hpp:214).
NoCheckFails == ~Crashed

\* parallel_group.hpp:142, of maxSimultaneousTasks_: "Number of maximum tasks
\* this group is allowed to run in parallel".
Running(g) == {t \in Members(g) : grabbed[t] /\ ~done[t]}
AtMostMaxTasks ==
  \A g \in Parallel : maxTasks[g] > 0 => Cardinality(Running(g)) <= maxTasks[g]

\* What t is a part of: the groups it lies in, the tasks that called them...
Above(t) ==
  {g \in Group : t \in Members(g)} \cup {u \in Unit : Calls[u] = t /\ t # NoTask}

Line(t) ==
  {x \in Task : \A C \in SUBSET Task :
                  t \in C /\ (\A a \in C : Above(a) \subseteq C) => x \in C}

\* What clients may run or complete out of its turn: the tasks they call activeWait on,
\* and what those are a part of.
Free == UNION {Line(t) : t \in ActivelyWaited}

\* The hooks of a context nest: each is called once at most, onPostExecute after
\* onPreExecute for a task; onPostExecute of a group comes after that of all of its
\* tasks, of a caller after that of what it called; and onPreExecute of a group
\* comes before those of its tasks, if the group is not helped: if no activeWait, on the
\* group or on what lies in it, runs a task that the group has not started
\* (task_group.hpp:50-55, 97-103).
Helped(g) == g \in Free \cup Called

Heard(t, h) == \E i \in DOMAIN hooks[t] : hooks[t][i] = h

HooksNest ==
  /\ \A t \in Task : \A i, j \in DOMAIN hooks[t] : hooks[t][i] = hooks[t][j] => i = j
  /\ \A t \in Unit : Heard(t, "post") =>
       /\ hooks[t][1] = "pre"
       /\ Calls[t] # NoTask => Heard(Calls[t], "post")
  /\ \A g \in Group : Heard(g, "post") => \A t \in Members(g) : Heard(t, "post")
  /\ \A g \in Group : ~Helped(g) /\ (\E t \in Members(g) : hooks[t] # <<>>) =>
       hooks[g] # <<>> /\ hooks[g][1] = "pre"

\* The whole tree of a submitted task ends: threads that wait within tasks for
\* others do not all wait for each other.
SubmittedTaskEnds == \A t \in Root : (t \in submitted) ~> (notified[t] \/ Crashed)

\* Whoever waits for a submitted task, a client or a task, is released.
WaiterReleased ==
  \A th \in Thread :
    (pc[th] = "waiting" /\ cur[th] \in submitted) ~> (pc[th] # "waiting" \/ Crashed)

-----------------------------------------------------------------------------
\* The groups implement ForkJoin.
state ==
  [t \in Task |-> IF done[t] THEN "done"
                  ELSE IF t \in Unit /\ grabbed[t] THEN "running" ELSE "idle"]

\* Clients leave the sequences their order: they submit whole trees, and wait actively
\* for nothing that lies in a sequence.
InTurn ==
  /\ \A t \in Root, g \in Group : t \notin Members(g)
  /\ \A s \in Sequence : Members(s) \cap Free = {}

\* ... and the tasks of which the scheduler asks the groups for a priority: a task that
\* inherits it is run by nobody who waits for it or for its group.
NoRace ==
  /\ InTurn
  /\ Inherit \cap Free = {}
  /\ \A g \in (ActivelyWaited \cap Parallel) \cup Called : Members(g) \cap Inherit = {}

\* ... and the groups with a maximum to who executes them and his followers: nobody waits
\* actively for such a group or for what lies in it, and the maximum leaves room for a
\* task besides the first one, which is added before any comparison (parallel_group.hpp:100).
MaxKept ==
  /\ InTurn
  /\ \A g \in Parallel : maxTasks[g] > 0 => maxTasks[g] > 1 /\ g \notin Free \cup Called

\* What comes before t or a group it lies in, in a sequence.
before ==
  [t \in Unit |->
     UNION {{members[g][i] : i \in {i \in DOMAIN members[g] :
                                      \E j \in DOMAIN members[g] :
                                        i < j /\ members[g][j] \in Line(t)}}
            : g \in Sequence}]

Promise ==
  INSTANCE ForkJoin WITH TasksOf <- [g \in Group |-> Members(g)], Before <- before,
                         WaitsFor <- [t \in Unit |-> {Calls[t]} \ {NoTask}]

\* Tasks are run once, a group is done after all of its tasks and once, a function
\* that waits for a group ends after it, and the tasks of a sequence are run in its
\* order: "Tn waits on Tn-1 completion" (sequence_group.hpp:15).
ImplementsForkJoin == Promise!Spec
=============================================================================
