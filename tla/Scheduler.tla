----------------------------- MODULE Scheduler -----------------------------
(***************************************************************************)
(* The scheduler of oqpi and its worker threads: scheduler.hpp, worker.hpp, *)
(* worker_base.hpp and the grabbed/done protocol of task_base.hpp/task.hpp. *)
(*                                                                         *)
(* Workers, clients (any thread that holds a task handle) and the thread    *)
(* that starts and stops the scheduler interleave one atomic operation at a *)
(* time: an atomic load, store or compare-exchange, one locked queue        *)
(* operation or one semaphore operation.  Two atomic loads are merged only  *)
(* where the first one cannot become stale in a way the second would miss   *)
(* (done_ and grabbed_ never go back to false).                             *)
(***************************************************************************)
EXTENDS Integers, Sequences

CONSTANTS
  WorkerCount,   \* number of registered workers, in the order of workers_
  Client,        \* the threads that are not workers
  PRIO_COUNT,    \* number of priorities, 0 being the highest
  workerPrio,    \* worker -> the set of priorities of its worker_config
  Task,          \* every task, unit tasks and groups
  Group,         \* the tasks that are groups
  priority,      \* task -> its resolved priority
  NoTask,        \* the invalid task_handle
  CreateMayFail, \* whether the creation of a worker's thread may fail
  MaxAdds,       \* bound: task -> how many times it is given to add()
  MaxStarts      \* bound: how many times the scheduler is started

Worker   == 1..WorkerCount
Thread   == Worker \cup Client
Priority == 0..(PRIO_COUNT - 1)

ASSUME SchedulerAssumption ==
  /\ WorkerCount \in Nat \ {0}
  /\ PRIO_COUNT \in Nat \ {0}
  /\ Client \cap Worker = {}
  /\ workerPrio \in [Worker -> SUBSET Priority]
  /\ Group \subseteq Task
  /\ priority \in [Task -> Priority]
  /\ NoTask \notin Task
  /\ CreateMayFail \in BOOLEAN
  /\ MaxAdds \in [Task -> Nat]
  /\ MaxStarts \in Nat

VARIABLES
  running,       \* scheduler::running_
  pendingTasks,  \* scheduler::pendingTasks_, one queue per priority
  workerRunning, \* worker::running_
  tokens,        \* the semaphore count of worker::notifier_
  grabbed,       \* task_base::grabbed_
  done,          \* task_base::done_
  notified,      \* whether the task's event has been notified
  pc,            \* where each thread is
  hTask,         \* the handle a thread has in hand: the local hTask of
                 \* waitForNextTask, then the member worker_base::hTask_
  scanPrio,      \* the priority the scan of the queues has reached
  adding,        \* the task a thread inside add() has still to push
  waking,        \* the workers a thread inside add() has still to notify
  adds,          \* how many times each task was given to add()
  ctl,           \* what the controlling thread is doing: start() or stop()
  visiting,      \* the worker its loop over workers_ has reached
  starts,        \* number of calls to start()
  stopped        \* whether stop() was ever called

taskVars == <<grabbed, done, notified>>
addVars  == <<adding, waking, adds>>
ctlVars  == <<running, workerRunning, ctl, visiting, starts, stopped>>
wVars    == <<pc, hTask, scanPrio>>
vars     == <<pendingTasks, tokens, taskVars, addVars, ctlVars, wVars>>

PC == {"off", "loop", "drain", "check", "scan", "grab", "wait", "verify",
       "returned", "run", "notify", "finish", "ready", "waiting", "crashed"}

Phase == {"off", "starting", "on", "stopping", "waking", "joining"}

canWorkOnPriority(w, p) == p \in workerPrio[w]

Init ==
  /\ running = FALSE
  /\ pendingTasks = [p \in Priority |-> <<>>]
  /\ workerRunning = [w \in Worker |-> FALSE]
  /\ tokens = [w \in Worker |-> 0]
  /\ grabbed = [t \in Task |-> FALSE]
  /\ done = [t \in Task |-> FALSE]
  /\ notified = [t \in Task |-> FALSE]
  /\ pc = [th \in Thread |-> IF th \in Worker THEN "off" ELSE "ready"]
  /\ hTask = [th \in Thread |-> NoTask]
  /\ scanPrio = [w \in Worker |-> 0]
  /\ adding = [th \in Thread |-> NoTask]
  /\ waking = [th \in Thread |-> {}]
  /\ adds = [t \in Task |-> 0]
  /\ ctl = "off"
  /\ visiting = 1
  /\ starts = 0
  /\ stopped = FALSE

-----------------------------------------------------------------------------
(* scheduler::add, by a client or from code a worker runs: the body of a    *)
(* task, the execution of a group or the notification of a parent group.    *)

InAdd(th) == adding[th] # NoTask \/ waking[th] # {}

BeginAdd(th, t) ==
  /\ pc[th] \in {"ready", "run", "finish"}
  /\ ~InAdd(th)
  /\ adds[t] < MaxAdds[t]
  /\ ~grabbed[t] /\ ~done[t]
  /\ adding' = [adding EXCEPT ![th] = t]
  /\ adds' = [adds EXCEPT ![t] = @ + 1]
  /\ UNCHANGED <<pendingTasks, tokens, waking, taskVars, ctlVars, wVars>>

\* Mutant: add() does not wake anybody.
PushTaskSilently(th) ==
  /\ adding[th] # NoTask
  /\ pendingTasks' = [pendingTasks EXCEPT ![priority[adding[th]]] = Append(@, adding[th])]
  /\ adding' = [adding EXCEPT ![th] = NoTask]
  /\ UNCHANGED <<tokens, waking, adds, taskVars, ctlVars, wVars>>

PushTask(th) ==
  /\ adding[th] # NoTask
  /\ LET t == adding[th]
         p == priority[t]
     IN /\ pendingTasks' = [pendingTasks EXCEPT ![p] = Append(@, t)]
        /\ waking' = [waking EXCEPT ![th] =
                        {w \in Worker : canWorkOnPriority(w, p)}]
  /\ adding' = [adding EXCEPT ![th] = NoTask]
  /\ UNCHANGED <<tokens, adds, taskVars, ctlVars, wVars>>

\* Mutant: the loop stops at the first worker it notifies.
NotifyOneWorker(th, w) ==
  /\ w \in waking[th]
  /\ \A v \in waking[th] : w <= v
  /\ tokens' = [tokens EXCEPT ![w] = @ + 1]
  /\ waking' = [waking EXCEPT ![th] = {}]
  /\ UNCHANGED <<pendingTasks, adding, adds, taskVars, ctlVars, wVars>>

\* One iteration of wakeUpWorkersWithPriority, in the order of workers_.
NotifyWorker(th, w) ==
  /\ w \in waking[th]
  /\ \A v \in waking[th] : w <= v
  /\ tokens' = [tokens EXCEPT ![w] = @ + 1]
  /\ waking' = [waking EXCEPT ![th] = @ \ {w}]
  /\ UNCHANGED <<pendingTasks, adding, adds, taskVars, ctlVars, wVars>>

AddStep(th) == PushTask(th) \/ \E w \in Worker : NotifyWorker(th, w)

-----------------------------------------------------------------------------
(* worker::run and, inlined where run calls it, signalAvailableWorker.      *)

Goto(th, label) == pc' = [pc EXCEPT ![th] = label]
Hold(th, t)     == hTask' = [hTask EXCEPT ![th] = t]

EnterLoop(w) ==
  /\ pc[w] = "loop"
  /\ workerRunning[w]
  /\ Goto(w, "drain")
  /\ UNCHANGED <<pendingTasks, tokens, hTask, scanPrio, taskVars, addVars, ctlVars>>

\* The thread ends; whatever handle it still has is released.
ExitLoop(w) ==
  /\ pc[w] = "loop"
  /\ ~workerRunning[w]
  /\ Goto(w, "off")
  /\ Hold(w, NoTask)
  /\ UNCHANGED <<pendingTasks, tokens, scanPrio, taskVars, addVars, ctlVars>>

\* while (w.tryWait()), one token at a time.
DrainToken(w) ==
  /\ pc[w] = "drain"
  /\ tokens[w] > 0
  /\ tokens' = [tokens EXCEPT ![w] = @ - 1]
  /\ UNCHANGED <<pendingTasks, wVars, taskVars, addVars, ctlVars>>

Drained(w) ==
  /\ pc[w] = "drain"
  /\ tokens[w] = 0
  /\ Goto(w, "check")
  /\ UNCHANGED <<pendingTasks, tokens, hTask, scanPrio, taskVars, addVars, ctlVars>>

\* pumpTask starts by giving up when the scheduler is not running.
CheckRunning(w) ==
  /\ pc[w] = "check"
  /\ Goto(w, IF running THEN "scan" ELSE "verify")
  /\ scanPrio' = [scanPrio EXCEPT ![w] = 0]
  /\ UNCHANGED <<pendingTasks, tokens, hTask, taskVars, addVars, ctlVars>>

\* This queue has nothing for w: go to the next one, or to sleep after the last.
ScanNext(w) ==
  /\ pc[w] = "scan"
  /\ LET p == scanPrio[w]
     IN /\ ~canWorkOnPriority(w, p) \/ pendingTasks[p] = <<>>
        /\ scanPrio' = [scanPrio EXCEPT ![w] = p + 1]
        /\ Goto(w, IF p + 1 = PRIO_COUNT THEN "wait" ELSE "scan")
  /\ UNCHANGED <<pendingTasks, tokens, hTask, taskVars, addVars, ctlVars>>

\* Mutant: running_ is tested after the pop, and the handle is dropped.
PopUnlessStopping(w) ==
  /\ pc[w] = "scan"
  /\ LET p == scanPrio[w]
     IN /\ canWorkOnPriority(w, p)
        /\ pendingTasks[p] # <<>>
        /\ Hold(w, IF running THEN Head(pendingTasks[p]) ELSE NoTask)
        /\ pendingTasks' = [pendingTasks EXCEPT ![p] = Tail(@)]
  /\ Goto(w, IF running THEN "grab" ELSE "verify")
  /\ UNCHANGED <<tokens, scanPrio, taskVars, addVars, ctlVars>>

PopTask(w) ==
  /\ pc[w] = "scan"
  /\ LET p == scanPrio[w]
     IN /\ canWorkOnPriority(w, p)
        /\ pendingTasks[p] # <<>>
        /\ Hold(w, Head(pendingTasks[p]))
        /\ pendingTasks' = [pendingTasks EXCEPT ![p] = Tail(@)]
  /\ Goto(w, "grab")
  /\ UNCHANGED <<tokens, scanPrio, taskVars, addVars, ctlVars>>

\* Mutant: grabbed_ is set without looking at what it was.
GrabAnyTask(w) ==
  /\ pc[w] = "grab"
  /\ Goto(w, IF done[hTask[w]] THEN "scan" ELSE "verify")
  /\ Hold(w, IF done[hTask[w]] THEN NoTask ELSE hTask[w])
  /\ grabbed' = [grabbed EXCEPT ![hTask[w]] = TRUE]
  /\ UNCHANGED <<pendingTasks, tokens, scanPrio, done, notified, addVars, ctlVars>>

\* tryGrab() && !isDone(); on failure the handle is dropped and the same
\* queue is popped again.
GrabTask(w) ==
  /\ pc[w] = "grab"
  /\ LET t == hTask[w]
     IN \/ ~grabbed[t] /\ ~done[t] /\ Goto(w, "verify") /\ UNCHANGED hTask
        \/ (grabbed[t] \/ done[t]) /\ Goto(w, "scan") /\ Hold(w, NoTask)
  /\ grabbed' = [grabbed EXCEPT ![hTask[w]] = TRUE]
  /\ UNCHANGED <<pendingTasks, tokens, scanPrio, done, notified, addVars, ctlVars>>

\* Mutant: the test of running_ is missing.
GiveUpAnytime(w) ==
  /\ pc[w] = "verify"
  /\ Goto(w, "returned")
  /\ Hold(w, NoTask)
  /\ UNCHANGED <<pendingTasks, tokens, scanPrio, taskVars, addVars, ctlVars>>

\* Back in signalAvailableWorker: the scheduler was stopped, and the handle,
\* grabbed or invalid, is dropped.
GiveUp(w) ==
  /\ pc[w] = "verify"
  /\ ~running
  /\ Goto(w, "returned")
  /\ Hold(w, NoTask)
  /\ UNCHANGED <<pendingTasks, tokens, scanPrio, taskVars, addVars, ctlVars>>

\* A group can be done by now: look for another task.
SkipDoneTask(w) ==
  /\ pc[w] = "verify"
  /\ running
  /\ hTask[w] # NoTask /\ done[hTask[w]]
  /\ Goto(w, "drain")
  /\ Hold(w, NoTask)
  /\ UNCHANGED <<pendingTasks, tokens, scanPrio, taskVars, addVars, ctlVars>>

AssignTask(w) ==
  /\ pc[w] = "verify"
  /\ running
  /\ hTask[w] # NoTask /\ ~done[hTask[w]]
  /\ Goto(w, "returned")
  /\ UNCHANGED <<pendingTasks, tokens, hTask, scanPrio, taskVars, addVars, ctlVars>>

\* Back in run(): a worker that still runs and has no task fails the check of
\* line 106 (and, with checks compiled out, executes an invalid handle).
ReturnToRun(w) ==
  /\ pc[w] = "returned"
  /\ Goto(w, IF ~workerRunning[w] THEN "loop"
             ELSE IF hTask[w] # NoTask THEN "run" ELSE "crashed")
  /\ UNCHANGED <<pendingTasks, tokens, hTask, scanPrio, taskVars, addVars, ctlVars>>

\* Mutant: the semaphore is decremented whatever its value.
TakeMissingToken(w) ==
  /\ pc[w] = "wait"
  /\ tokens' = [tokens EXCEPT ![w] = @ - 1]
  /\ Goto(w, "drain")
  /\ UNCHANGED <<pendingTasks, hTask, scanPrio, taskVars, addVars, ctlVars>>

\* posix_semaphore_wrapper::wait: sem_wait.
TakeToken(w) ==
  /\ pc[w] = "wait"
  /\ tokens[w] > 0
  /\ tokens' = [tokens EXCEPT ![w] = @ - 1]
  /\ Goto(w, "drain")
  /\ UNCHANGED <<pendingTasks, hTask, scanPrio, taskVars, addVars, ctlVars>>

\* sem_wait interrupted by a signal: wait() fails and its result is ignored.
SpuriousWake(w) ==
  /\ pc[w] = "wait"
  /\ Goto(w, "drain")
  /\ UNCHANGED <<pendingTasks, tokens, hTask, scanPrio, taskVars, addVars, ctlVars>>

-----------------------------------------------------------------------------
(* Execution of a grabbed task (task::execute, task_group::execute), by a   *)
(* worker or by a client inside activeWait.                                 *)

\* Mutant: done_ is not set.
RunTaskOnly(th) ==
  /\ pc[th] = "run" /\ ~InAdd(th)
  /\ hTask[th] \notin Group
  /\ Goto(th, "notify")
  /\ UNCHANGED <<pendingTasks, tokens, hTask, scanPrio, taskVars, addVars, ctlVars>>

\* The user's function returns and the task is flagged done.
RunTask(th) ==
  /\ pc[th] = "run" /\ ~InAdd(th)
  /\ hTask[th] \notin Group
  /\ done' = [done EXCEPT ![hTask[th]] = TRUE]
  /\ Goto(th, "notify")
  /\ UNCHANGED <<pendingTasks, tokens, hTask, scanPrio, grabbed, notified, addVars, ctlVars>>

\* Mutant: the event of a finished task is not notified.
NotifyNobody(th) ==
  /\ pc[th] = "notify"
  /\ Goto(th, "finish")
  /\ UNCHANGED <<pendingTasks, tokens, hTask, scanPrio, taskVars, addVars, ctlVars>>

NotifyTask(th) ==
  /\ pc[th] = "notify"
  /\ notified' = [notified EXCEPT ![hTask[th]] = TRUE]
  /\ Goto(th, "finish")
  /\ UNCHANGED <<pendingTasks, tokens, hTask, scanPrio, grabbed, done, addVars, ctlVars>>

\* Executing a group only adds its tasks (BeginAdd); the group is not done.
RunGroup(th) ==
  /\ pc[th] = "run" /\ ~InAdd(th)
  /\ hTask[th] \in Group
  /\ Goto(th, "finish")
  /\ UNCHANGED <<pendingTasks, tokens, hTask, scanPrio, taskVars, addVars, ctlVars>>

\* After notifyParent, the handle is reset.
FinishTask(th) ==
  /\ pc[th] = "finish" /\ ~InAdd(th)
  /\ Hold(th, NoTask)
  /\ Goto(th, IF th \in Worker THEN "loop" ELSE "ready")
  /\ UNCHANGED <<pendingTasks, tokens, scanPrio, taskVars, addVars, ctlVars>>

\* The last task of a group completes it, also when the group itself was never
\* grabbed because activeWait ran all of its tasks.
CompleteGroup(t) ==
  /\ t \in Group
  /\ ~done[t]
  /\ done' = [done EXCEPT ![t] = TRUE]
  /\ notified' = [notified EXCEPT ![t] = TRUE]
  /\ UNCHANGED <<pendingTasks, tokens, grabbed, addVars, ctlVars, wVars>>

ExecuteStep(th) == RunTask(th) \/ NotifyTask(th) \/ RunGroup(th) \/ FinishTask(th)

-----------------------------------------------------------------------------
(* task::wait and task::activeWait on a unit task, by a client.             *)

\* Mutant: the caller runs the task whether or not it grabbed it.
ActiveWaitWithoutGrab(c, t) ==
  /\ pc[c] = "ready" /\ ~InAdd(c)
  /\ t \notin Group
  /\ Hold(c, t)
  /\ Goto(c, "run")
  /\ grabbed' = [grabbed EXCEPT ![t] = TRUE]
  /\ UNCHANGED <<pendingTasks, tokens, scanPrio, done, notified, addVars, ctlVars>>

ActiveWait(c, t) ==
  /\ pc[c] = "ready" /\ ~InAdd(c)
  /\ t \notin Group
  /\ Hold(c, t)
  /\ Goto(c, IF grabbed[t] THEN "waiting" ELSE "run")
  /\ grabbed' = [grabbed EXCEPT ![t] = TRUE]
  /\ UNCHANGED <<pendingTasks, tokens, scanPrio, done, notified, addVars, ctlVars>>

Wait(c, t) ==
  /\ pc[c] = "ready" /\ ~InAdd(c)
  /\ t \notin Group
  /\ Hold(c, t)
  /\ Goto(c, "waiting")
  /\ UNCHANGED <<pendingTasks, tokens, scanPrio, taskVars, addVars, ctlVars>>

WaitReturns(c) ==
  /\ pc[c] = "waiting"
  /\ notified[hTask[c]]
  /\ Hold(c, NoTask)
  /\ Goto(c, "ready")
  /\ UNCHANGED <<pendingTasks, tokens, scanPrio, taskVars, addVars, ctlVars>>

\* sem_wait interrupted by a signal: task::wait returns all the same.
WaitInterrupted(c) ==
  /\ pc[c] = "waiting"
  /\ Hold(c, NoTask)
  /\ Goto(c, "ready")
  /\ UNCHANGED <<pendingTasks, tokens, scanPrio, taskVars, addVars, ctlVars>>

-----------------------------------------------------------------------------
(* scheduler::start and scheduler::stop, called by one thread.              *)

\* The loop over workers_ has done its work for one more worker.
VisitNext(here, next) ==
  /\ ctl = here
  /\ ctl' = IF visiting = WorkerCount THEN next ELSE here
  /\ visiting' = IF visiting = WorkerCount THEN 1 ELSE visiting + 1

Start ==
  /\ ctl = "off"
  /\ starts < MaxStarts
  /\ running' = TRUE
  /\ starts' = starts + 1
  /\ ctl' = "starting"
  /\ UNCHANGED <<pendingTasks, tokens, workerRunning, visiting, stopped,
                 taskVars, addVars, wVars>>

\* worker::start: running_ first, then the thread, which may fail to be created.
StartWorker ==
  /\ VisitNext("starting", "on")
  /\ workerRunning' = [workerRunning EXCEPT ![visiting] = TRUE]
  /\ \/ Goto(visiting, "loop")
     \/ CreateMayFail /\ UNCHANGED pc
  /\ UNCHANGED <<pendingTasks, tokens, running, starts, stopped,
                 hTask, scanPrio, taskVars, addVars>>

Stop ==
  /\ ctl = "on"
  /\ running' = FALSE
  /\ stopped' = TRUE
  /\ ctl' = "stopping"
  /\ UNCHANGED <<pendingTasks, tokens, workerRunning, visiting, starts,
                 taskVars, addVars, wVars>>

StopWorker ==
  /\ VisitNext("stopping", "waking")
  /\ workerRunning' = [workerRunning EXCEPT ![visiting] = FALSE]
  /\ UNCHANGED <<pendingTasks, tokens, running, starts, stopped,
                 taskVars, addVars, wVars>>

\* Mutant: only the workers that are still flagged as running are notified.
WakeUpRunningWorker ==
  /\ VisitNext("waking", "joining")
  /\ tokens' = [tokens EXCEPT ![visiting] = IF workerRunning[visiting] THEN @ + 1 ELSE @]
  /\ UNCHANGED <<pendingTasks, running, workerRunning, starts, stopped,
                 taskVars, addVars, wVars>>

WakeUpWorker ==
  /\ VisitNext("waking", "joining")
  /\ tokens' = [tokens EXCEPT ![visiting] = @ + 1]
  /\ UNCHANGED <<pendingTasks, running, workerRunning, starts, stopped,
                 taskVars, addVars, wVars>>

\* Blocks until the thread has ended, or was never created.
JoinWorker ==
  /\ VisitNext("joining", "off")
  /\ pc[visiting] = "off"
  /\ UNCHANGED <<pendingTasks, tokens, running, workerRunning, starts, stopped,
                 taskVars, addVars, wVars>>

ControlStep == StartWorker \/ StopWorker \/ WakeUpWorker \/ JoinWorker

-----------------------------------------------------------------------------
WorkerStep(w) ==
  \/ EnterLoop(w) \/ ExitLoop(w) \/ DrainToken(w) \/ Drained(w)
  \/ CheckRunning(w) \/ ScanNext(w) \/ PopTask(w) \/ GrabTask(w)
  \/ GiveUp(w) \/ SkipDoneTask(w) \/ AssignTask(w) \/ ReturnToRun(w)
  \/ TakeToken(w)

\* A failed assertion or the use of an invalid handle ends the whole process.
Crashed == \E w \in Worker : pc[w] = "crashed"

Next ==
  /\ ~Crashed
  /\ \/ \E th \in Thread, t \in Task : BeginAdd(th, t)
     \/ \E th \in Thread : AddStep(th) \/ ExecuteStep(th)
     \/ \E w \in Worker : WorkerStep(w) \/ SpuriousWake(w)
     \/ \E c \in Client :
          WaitReturns(c) \/ WaitInterrupted(c) \/ \E t \in Task : ActiveWait(c, t) \/ Wait(c, t)
     \/ \E t \in Task : CompleteGroup(t)
     \/ Start \/ Stop \/ ControlStep

Spec == Init /\ [][Next]_vars

(* Threads that can take a step of code take it; start() and stop() finish  *)
(* once called.  Nothing is assumed of the callers: what is added, waited   *)
(* for, started or stopped, and when, is theirs to choose.                  *)
Fairness ==
  /\ \A th \in Thread : WF_vars(~Crashed /\ AddStep(th))
                        /\ WF_vars(~Crashed /\ ExecuteStep(th))
  /\ \A w \in Worker : WF_vars(~Crashed /\ WorkerStep(w))
  /\ \A c \in Client : WF_vars(~Crashed /\ WaitReturns(c))
  /\ WF_vars(~Crashed /\ ControlStep)

FairSpec == Spec /\ Fairness

-----------------------------------------------------------------------------
TypeOK ==
  /\ running \in BOOLEAN
  /\ pendingTasks \in [Priority -> Seq(Task)]
  /\ workerRunning \in [Worker -> BOOLEAN]
  /\ tokens \in [Worker -> Nat]
  /\ grabbed \in [Task -> BOOLEAN]
  /\ done \in [Task -> BOOLEAN]
  /\ notified \in [Task -> BOOLEAN]
  /\ pc \in [Thread -> PC]
  /\ hTask \in [Thread -> Task \cup {NoTask}]
  /\ scanPrio \in [Worker -> 0..PRIO_COUNT]
  /\ adding \in [Thread -> Task \cup {NoTask}]
  /\ waking \in [Thread -> SUBSET Worker]
  /\ adds \in [Task -> Nat]
  /\ ctl \in Phase
  /\ visiting \in Worker
  /\ starts \in 0..MaxStarts
  /\ stopped \in BOOLEAN

\* What each program point says of the handle in hand and of the scan: a thread
\* grabs, runs and waits on a valid handle, and holds none while it sleeps.
PointOK ==
  /\ \A th \in Thread :
       /\ pc[th] \in {"grab", "run", "notify", "finish", "waiting"} => hTask[th] \in Task
       /\ pc[th] \in {"off", "drain", "check", "scan", "wait", "ready"} => hTask[th] = NoTask
       /\ adding[th] # NoTask => waking[th] = {}
       /\ th \in Client => pc[th] \in {"ready", "waiting", "run", "notify", "finish"}
  /\ \A w \in Worker :
       /\ pc[w] \notin {"ready", "waiting"}
       /\ pc[w] \in {"scan", "grab"} => scanPrio[w] \in Priority
       /\ pc[w] = "loop" /\ workerRunning[w] => hTask[w] = NoTask
       /\ pc[w] = "verify" /\ running => hTask[w] # NoTask

\* What each phase of start() and stop() says of the workers it has visited.
PhaseOK ==
  /\ running <=> ctl \in {"starting", "on"}
  /\ ctl \in {"off", "on"} => visiting = 1
  /\ ctl \in {"stopping", "waking", "joining"} => stopped
  /\ \A w \in Worker :
       \/ ctl = "off"
       \/ ctl = "starting" /\ visiting <= w
       \/ ctl = "joining" /\ w < visiting
       \/ ~stopped /\ ~workerRunning[w]
       => pc[w] = "off"

-----------------------------------------------------------------------------
\* The scan of w went past the queue of priority p, or w sleeps.
HasPassed(w, p) == pc[w] \in {"scan", "grab", "wait"} /\ p < scanPrio[w]

WakeUpComing(w) == tokens[w] > 0 \/ \E th \in Thread : w \in waking[th]

\* No wake-up is lost: whenever a queue is not empty and a worker that could
\* serve it is asleep or has already scanned past it, that worker has a token
\* it will find before it can sleep, or is about to be given one.  The push
\* comes before the notifications and the tokens are drained before the scan.
NoLostWakeup ==
  \A w \in Worker : \A p \in workerPrio[w] :
    HasPassed(w, p) /\ pendingTasks[p] # <<>> => WakeUpComing(w)

\* stop() reaches every worker: one that got past the test of running_ before
\* stop() cleared it has a token or is still to be notified by stop().
StopWakesEveryone ==
  \A w \in Worker :
    ~running /\ pc[w] \in {"scan", "grab", "wait"} =>
      \/ tokens[w] > 0
      \/ ctl = "stopping"
      \/ ctl = "waking" /\ visiting <= w

\* th has grabbed t (a handle that is only popped or waited on is not grabbed).
Owns(th, t) == hTask[th] = t /\ pc[th] \notin {"grab", "waiting"}

\* A task is in the hands of at most one thread, however many times it was
\* added and whoever else waits actively on it.
ExclusiveOwner ==
  \A t \in Task : \A th1, th2 \in Thread :
    Owns(th1, t) /\ Owns(th2, t) => th1 = th2

\* A task in a thread's hands is grabbed, and a unit task is done exactly once
\* the thread has run it; its event is notified after that.
HandOK ==
  /\ \A th \in Thread, t \in Task :
       Owns(th, t) =>
         /\ grabbed[t]
         /\ t \notin Group => (done[t] <=> pc[th] \in {"notify", "finish"})
         /\ pc[th] = "notify" => t \notin Group
  /\ \A t \in Task :
       /\ notified[t] => done[t]
       /\ t \notin Group /\ done[t] => grabbed[t]

Queued(t) == \E i \in DOMAIN pendingTasks[priority[t]] : pendingTasks[priority[t]][i] = t

\* A task given to add() and not yet taken by anyone can still be found: the
\* early returns and the dropped duplicates never lose the last handle to it.
NoTaskForgotten ==
  \A t \in Task : adds[t] > 0 /\ ~grabbed[t] /\ ~done[t] =>
    \/ \E th \in Thread : adding[th] = t
    \/ Queued(t)
    \/ \E w \in Worker : pc[w] = "grab" /\ hTask[w] = t

\* Only stop() can abandon a task that was grabbed: until it is called a
\* grabbed unit task that is not done is in the hands of a thread.
OnlyStopDropsTasks ==
  \A t \in Task \ Group : grabbed[t] /\ ~done[t] /\ ~stopped =>
    \E th \in Thread : Owns(th, t)

\* A unit task is run once: never again after it is done, and only by the
\* thread that grabbed it.
RunOnce ==
  [][\A th \in Thread : RunTask(th) => ~done[hTask[th]] /\ grabbed[hTask[th]]]_vars

\* A wait that was not interrupted returns only when the task is done, so that
\* getResult is allowed after it (task.hpp:112 checks isDone).
WaitMeansDone ==
  [][\A c \in Client : WaitReturns(c) => done[hTask[c]]]_vars

\* A worker that may run t has its thread: the creation of others may have failed, which
\* nobody is told (worker.hpp:47).
Served(t) == ctl = "on" /\ \E w \in Worker : pc[w] # "off" /\ canWorkOnPriority(w, priority[t])

\* While the scheduler is not stopped, every unit task added to it runs, as long as one
\* worker for its priority has a thread.
AddedTaskRuns ==
  \A t \in Task \ Group : (adds[t] > 0 /\ Served(t)) ~> (done[t] \/ stopped)

\* A client waiting on such a task is released, unless stop() intervenes.
WaiterReleased ==
  \A c \in Client :
    (pc[c] = "waiting" /\ adds[hTask[c]] > 0 /\ Served(hTask[c]))
      ~> (pc[c] = "ready" \/ stopped)

\* stop() returns: every worker that was started leaves its thread.
StopTerminates == (ctl = "stopping") ~> (ctl = "off" \/ Crashed)

\* What worker.hpp:105 says when signalAvailableWorker returns: "we either have
\* a task to work on or we've been waken up to quit the thread".
WorkerHasTaskOrQuits ==
  \A w \in Worker : pc[w] = "returned" => hTask[w] # NoTask \/ ~workerRunning[w]

-----------------------------------------------------------------------------
\* The scheduler implements TaskLifecycle for the unit tasks.
StatusOf(t) ==
  IF done[t] THEN "done"
  ELSE IF grabbed[t] THEN "taken"
  ELSE IF adds[t] > 0 THEN "added" ELSE "idle"

Has(th, t) == Owns(th, t) /\ ~done[t]

HolderOf(th) ==
  IF \E t \in Task \ Group : Has(th, t) THEN hTask[th] ELSE NoTask

status == [t \in Task \ Group |-> StatusOf(t)]
holder == [th \in Thread |-> HolderOf(th)]

Lifecycle == INSTANCE TaskLifecycle WITH Task <- Task \ Group

\* Every behaviour of the scheduler is one TaskLifecycle allows: a unit task is
\* taken once, by one thread, completed by that thread, and abandoned only after
\* stop() was called.
ImplementsLifecycle == Lifecycle!Spec

=============================================================================
