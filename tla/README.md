# oqpi: specification, model checking and proofs

oqpi is a header-only C++ library: a task scheduler (workers, priority queues,
tasks, groups of tasks, `parallel_for`) over its own synchronisation objects
(event, semaphore, mutex) and threads, each with a POSIX and a Windows
implementation. This directory holds TLA+ modules of the parts where threads
meet, the TLC configurations that check them, and proofs of the main results.
Paths below are relative to `src/include/oqpi/`.

    tlc -workers 2 -config Scheduler.cfg MCScheduler
    tlapm SchedulerProofs.tla

## 1. Inventory

| Component | State it keeps | Operations | What makes it correct |
|---|---|---|---|
| scheduler (`scheduling/scheduler.hpp`, `concurrent_queue.hpp`) | `running_`, one locked queue of handles per priority, the workers | `start`, `stop`, `registerWorker`, `add`, `waitForNextTask`, `signalAvailableWorker`, `isIdle`, `waitUntilIdle` | a queued task is found by a worker that may run it; none is lost or run twice; `stop` ends every worker |
| worker (`scheduling/worker.hpp`, `worker_base.hpp`) | `running_`, a notifier (semaphore), the handle in hand | `start`, `run` loop, `wait`/`tryWait`/`notify`, `assign`, `stop`, `join` | never asleep on work it could do; leaves when told to |
| task, handle, notifier (`task_base.hpp`, `task.hpp`, `task_handle.hpp`, `task_notifier.hpp`) | `grabbed_`, `done_`, `spParentGroup_`, the event | `tryGrab`, `execute`, `wait`, `activeWait`, `onDone`, `notifyParent` | one thread executes it; a wait ends when it is done, not before |
| parallel group (`parallel_group.hpp`) | `tasks_`, `activeTasksCount_`, `currentTaskIndex_`, `maxSimultaneousTasks_` | `executeImpl`, `oneTaskDone`, `activeWait` | completed once, after all of its tasks; no more than the maximum at a time; the next task is always scheduled |
| sequence group (`sequence_group.hpp`) | `tasks_` (an unlocked `std::queue`) | `executeImpl`, `oneTaskDone`, `activeWait` | one task at a time, in order |
| contexts (`context_container.hpp`) | the user's | `onPreExecute` and `onPostExecute` of tasks, groups and workers, and hooks of construction | the hooks of a task nest in those of what it is a part of |
| helpers (`scheduling_helpers.hpp`) | one static scheduler | `sequence_tasks`, `fork_tasks`, `parallel_for`, `parallel_for_each`, and overloads that forward | what they build is what the groups expect |
| partitioners, `parallel_for` (`parallel_algorithms/`) | the range; a shared atomic index, or quotient and remainder | `getNextValidRange`, the loop of a batch | the function is called once on every index before `parallel_for` returns |
| POSIX event (`synchronization/posix/posix_event.hpp`) | a semaphore | `notify`, `wait`, `waitFor`, `reset` | a wait succeeds only on a signaled event, and does |
| POSIX semaphore wrapper, semaphore, mutex (`synchronization/posix/`) | `sem_t` (own or named), name, whether it is open | create/open, `release`, `lock`, `tryLock`, `unlock`, `post`, `notify(n)` | a name means one object; the mutex excludes; no token is lost |
| Windows event, semaphore, mutex (`synchronization/win/`) | a native handle | the same, each one call to the system | the same promises |
| POSIX and Windows threads (`threading/`) | the native handle and id | `create`, `join`, `detach`, `terminate`, move, priorities | joined or detached once, the launcher freed once |
| interfaces and layers, errors | none of their own | forwarding, macros | compile-time composition |

How they meet. A client calls `scheduler::add` on a handle; it is pushed on the
queue of its priority and every worker that serves this priority gets a token
on its notifier. A worker empties its notifier, scans the queues of its
priorities from the highest, tries to grab what it pops, and sleeps on the
notifier when it found nothing. Whoever grabs a task executes it, sets `done_`,
notifies the task's event and tells the parent group, *on the same thread*; the
group may then add more tasks to the scheduler (a sequence, a parallel group
with a maximum) or be done itself and tell its own parent. `activeWait` lets any
other thread grab tasks too, so every execution races with it; the function of a
task may itself make a group (`parallel_for`) and wait actively for it, on top of
what its thread was doing. `stop` clears the scheduler's flag, then the workers'
flags, then notifies them, then joins them.

Hard behaviours: the missed wake-up between a scan and a sleep; the race on
`tryGrab` between duplicate handles and helpers; the group that is completed
while it is queued; the unlocked queue of a sequence; the shared index of the
maximum; tasks that block their worker on other tasks; flags read in one order
and cleared in another; events built from counting semaphores; owners that die.
`PROJECT.json` lists them as hazards, line by line; where no property covers one, because it
is what the code does or because it is not modelled, a note says so.

## 2. Modules

| Module | Models | How state and steps correspond |
|---|---|---|
| `Scheduler` | scheduler, workers, the queues, the tasks' flags and events | one action per atomic operation, locked queue operation or semaphore operation of `add`, `worker::run`, `waitForNextTask`, `signalAvailableWorker`, `execute`, `wait`, `activeWait`, `start` and `stop` |
| `TaskLifecycle` | the abstract life of a unit task: taken once, completed by who took it, abandoned only after `stop()` | what `Scheduler` implements |
| `TaskGroups` | parallel and sequence groups, nested in any way, with inherited priorities and a maximum; functions that make a group and wait for it; the hooks of contexts; clients that submit, wait and wait actively | one action per atomic operation of `executeImpl`, `oneTaskDone`, `notifyParent`, `notifyGroupDone`, `activeWait`, `add`; `outer` is the stack of the functions a thread is in; the scheduler is a bag of handles from which an idle worker takes any one |
| `ForkJoin` | the abstract meaning of a tree of groups and of the functions that wait for groups | what `TaskGroups` implements |
| `BasePartitioner`, `AtomicPartitioner`, `SimplePartitioner` | the two partitioners, each batch being a thread in a loop on `getNextValidRange` | load and compare-exchange are separate steps |
| `Partition` | what both hand out | what both implement |
| `ParallelFor` | `parallel_for`: the tasks of the batches, their group, the caller that helps and waits | each call of the function is a step; a range is what `Partition` gives, and it is not empty (on an empty one `parallel_for` calls nothing) |
| `Event` | the abstract event | what both events implement |
| `PosixEvent` | the event as a semaphore: `sem_post`, `sem_wait`, `sem_timedwait`, `sem_getvalue` as steps | a manual reset waiter takes, then posts again; `reset` reads, then takes |
| `WinEvent` | the event of the system, over the state and calls of `PosixEvent` | `SetEvent`, `WaitForSingleObjectEx`, `ResetEvent` |
| `Semaphore` | both semaphores, that of `platform` | `notify(n)` is n posts (POSIX) or one call (Windows), which succeeds (`WinNotify`) or fails as a whole (`WinNotifyFails`, counted in `refused`) |
| `EventAndSemaphore` | an event and a semaphore side by side | `Semaphore` under names of its own; `MCSynchronisation` and the proofs stand on it |
| `NamedMutex` | the mutex made of a named semaphore, between processes: construction with each creation option, `lock`, `tryLock`, `tryLockFor`, `unlock`, destruction, death | one action per system call (`sem_open` twice, `sem_close` and `sem_unlink` apart, `sem_getvalue` and `sem_post` apart); the system keeps objects and the name |
| `WinMutex` | the named mutex of Windows, over the state and calls of `NamedMutex` | owned by a thread, as often as it locked it; abandoned when that dies; gone with its last handle |
| `ThreadHandle` | thread objects, the threads they stand for, the launcher on the heap | `pthread_create`, the release of the launcher and the steps of the new thread are separate; moves, `join`, `detach`, `terminate`, destruction and priorities by the thread that uses the objects |
| `WinThread` | the same objects over Windows | `CreateThread`, then the priority while the thread runs; `TerminateThread`, `CloseHandle` |
| `MC*` | the instances TLC checks | `MCPartitioners` composes `ParallelFor` with each partitioner; `MCSynchronisation` and `MCThreadHandle` choose the object and the platform in their initial state |
| `*Proofs` | the theorems | |

`Scheduler` and `TaskGroups` split the system at `add`/`tryGrab`. In `Scheduler`
a group is a task whose execution may add tasks and which may become done at any
later time, by any thread (`CompleteGroup`); in `TaskGroups` the queues are a bag,
because `Scheduler` shows that a queued handle is always found and is free in
the order it is (several queues, several workers). So the union of what the two
modules allow covers what the code does when both work together. `ParallelFor`
stands on both in the same way: its group is what `TaskGroups` shows of a fork, its
partitioner is `Partition`, which each real one implements.

Mutants. Operators commented "Mutant:" are plausible bugs of the operator that
follows; for each property of each run one of them, put in the place of the
right one, makes TLC report that property. No specification uses them.

## 3. Abstractions

* Tasks carry no code and no result; executing a unit task is a step, or the calls
  it makes to a group of its own (`Calls`).
* A handle is the task; `shared_ptr` lifetimes are left out, and so is the
  exception `tryGrab` on an invalid handle would be: the modules show that a
  handle used is valid (`PointOK`).
* In `Scheduler` two atomic loads are one step where the first cannot become
  stale in a way the second misses: `grabbed_` and `done_` never go back.
* The checks of the code (`oqpi_check`, assertions) are steps to `crashed`: the
  behaviour ends there, and the properties say when it cannot be reached.
* `std::atomic` is sequentially consistent, as every operation of the code uses
  the default order. The plain fields read by other threads are hazards of
  their own: `sequence_group::tasks_` (`SequenceQueueExclusive`) and the parent
  pointer (`NoCheckFails`).
* In `Scheduler` a wait may return early, as `sem_wait` may be interrupted
  (`WaitInterrupted`, `SpuriousWake`) and nobody looks at what it returns. In
  `TaskGroups` and `ParallelFor` waits are not interrupted: with a signal during
  `activeWait` a function would go on with its group undone, as `Scheduler` shows.
* In `TaskGroups` the contexts of a task hear of a hook in one step, in the order
  of the list: nothing of the library runs between them.
* In `NamedMutex` a name is valid and memory suffices; a process has one handle
  and one thread, and unlocks what it was told it holds. `SEM_FAILED` is the null
  pointer on Linux, so that a failed construction releases nothing. Waits that time
  out or are interrupted return false and leave the count alone.
* In `ThreadHandle` a thread's identity is never used again, while the system
  uses the memory behind a `pthread_t` again: `HandlesAreExclusive` shows that no
  object keeps the identity of a thread that is gone. What pthread_create leaves
  in `handle_` when it fails is undefined: `NoThread` or `Dangling` (the GNU C
  library has written it when the kernel refuses the thread or its priority).
  Names, stacks and affinities are left out, and so is `join` by the thread
  itself, which only warns (posix_thread.hpp:189). Priorities are computed with
  integers; the code's single precision gives the same for 1..99.
* Objects of Windows are what its documentation says of the calls the code makes;
  the code around the calls is modelled as it is.

## 4. Runs

Each run finishes in minutes with two TLC workers. `PROJECT.json` gives for
each property the mutant that breaks it.

| Run | Question | Result |
|---|---|---|
| `scheduler` | does every interleaving of add, wait, activeWait, start, stop, start again, with thread creation that may fail, keep tasks, owners and wake-ups? | holds, 2.3 million states |
| `scheduler_liveness` | with a task queued twice and threads that may fail to be created: does the scheduler implement `TaskLifecycle`, does the task run, are waiters released, does `stop()` return? | holds, 280,500 states |
| `scheduler_stop_race` | is worker.hpp:105 right? | no: finding 1 |
| `groups` | a fork, two at a time, in a sequence in a fork, whose last task makes a fork of its own, with helpers | holds, 386,000 states |
| `groups_liveness` | a sequence whose first task makes a fork, two at a time, and waits for it: does the whole tree end, whatever the threads take? | holds, 43,500 states |
| `groups_inherit_race` | does scheduler.hpp:214 hold? | no: finding 2 |
| `groups_out_of_turn` | does sequence_group.hpp:88 hold? | no: finding 3 |
| `partitioners` | `parallel_for` over eight indices in three batches: the simple partitioner (a remainder of two) and the atomic one (three at a time, a last range of two) | holds, 198,000 states |
| `atomic_partitioner_offset` | a range that starts at 1 | no: finding 4 |
| `synchronisation` | on each platform: waits, timeouts, interruptions and a reset of an event; a mutex with a name, whatever the order of constructions, locks, deaths and releases of three processes; a semaphore that is filled and overfilled | holds (the mutex of POSIX until its name is unlinked), 480,000 states |
| `event_auto_counts` | is an auto reset event unsignaled by one wait? | not if it was notified twice before: finding 5 |
| `thread` | on each platform: three objects and two threads, launchers, joins, leaks, priorities | holds, 473,000 states |

Bounds and why they are enough for the cases that matter.

* `Scheduler`: two workers, one for both priorities and one for the lower only,
  so that a worker may be notified of work it then finds gone, and a task may be
  reachable by one worker only. A unit task and a group of different
  priorities, so that a scan passes a queue that is filled behind it. One
  client that interleaves with the workers in every role: `add`, `wait`,
  `activeWait`. `MaxStarts` 2 covers a restart over queues and tokens left from
  the first time. In the liveness run a task is added twice (`AddDup`): two
  handles of it, and a helper, compete; either worker may come without its thread
  (`CreateMayFail`), and a task is promised to run while one of those that serve its
  priority has one (`Served`). `MaxAdds` and `MaxStarts` bound the counters.
* `TaskGroups`: the tree `(a | ((b | d | e) -> c))`, where `c` makes `(f | h)` and
  waits for it, has each kind of group inside the other, a last-but-one task that
  ends the inner group while the outer one has another left, priorities inherited
  over one level (`b`) and over two (`Q`), more tasks than the maximum, and a
  function that waits on a worker or on a client that helps. Two workers and a client
  are enough for two threads to end tasks together while a third adds. The
  liveness run has a called group with a maximum, whose last task is scheduled by
  whoever ends the first one. Nothing is bounded but the tree: every counter is
  bounded by it.
* `MCPartitioners`: eight indices in three batches. By three at a time the last
  range of the atomic partitioner is cut, and one batch may lose a race twice;
  the simple one has a remainder of 2, so that batches with and without an extra
  element meet. Any batch may be run by a worker or by the caller.
* `MCSynchronisation`: an event with three threads, two calls each (`MaxCalls`),
  two notifications (`MaxNotifies`): one before and one after a reset, and two
  tokens at once. Three processes for the mutex, a holder, one that opens and one
  that releases or dies meanwhile; two objects (`MaxObjects`), so that a name may be
  lost and made again; a recursion of two (`MaxDepth`), the least that tells a
  count from a flag. A semaphore that starts at `InitCount` 1 with a `MaxCount` of 2 is
  filled by one notification and overfilled by another, or by one of two at once.
* `AutoResetEvent`: two threads and three notifications on an event that is made unsignaled,
  as the test makes it (`UnsignaledEventSpec`); the counterexample needs one thread and two
  notifications.
* `MCThreadHandle`: three objects (a member, a temporary and one more, as in
  `worker::start`) and two creations (`MaxThreads`). A limit of 50 grants the lower
  half of the priorities, 0 none and 99 all.

Deadlock is not checked in any run, as in each of them the system really stops:
clients may stop calling, the scheduler may be off and bounds may be reached.
That nothing hangs is stated by the liveness properties.

### Fairness

* `Scheduler!FairSpec`: each thread, inside the library, takes a step it can
  take (weak fairness per thread and program point): the operating system
  schedules every runnable thread. Calls into the library are free: a client need
  not add, start or stop anything. Taking a token a thread waits for is fair as a
  worker is the only one to wait on its own notifier.
* `TaskGroups!FairSpec`: the same, and an idle worker ends up taking a queued
  handle, which is what `AddedTaskRuns` shows of the scheduler.
* `MCPartitioners!MCSpec`: the caller goes on, and whoever has taken a task. No
  worker need ever take one: `parallel_for` returns without help. A
  compare-exchange that fails does so because another succeeded, and the range is
  finite.
* `PosixEvent!FairPosixEventSpec`, and the same for Windows in `MCSynchronisation!MCSpec`: a
  thread that can go on does. Timeouts and interruptions are not fair. A waiter
  competes with others for the token; the calls are bounded, so it gets it. With
  waiters that call for ever this would need a fair semaphore. Mutexes and
  semaphores have safety properties only.
* `ThreadHandle!FairSpec`, and `MCThreadHandle!BothSpec`: main goes on inside a
  call, and each thread runs until its function returns. That is the contract of
  `join`: it waits for a function that never returns.

## 5. What the runs show of the code

The findings, each with a counterexample:

1. `stop()` clears `scheduler::running_` first; a worker that sees it false
   returns from `signalAvailableWorker` with no task while its own flag is still
   true, and the check after worker.hpp:105 fails.
2. A helper in `activeWait` may complete a task while `executeImpl` adds it:
   `resolveTaskPriority` then reads a parent that is gone (scheduler.hpp:214).
3. `activeWait` on a later task of a sequence runs it out of turn and makes
   the sequence execute on an empty queue (sequence_group.hpp:88).
4. `atomic_partitioner` compares a count with an index: a range that starts at
   `f > 0` loses its last `f` indices (atomic_partitioner.hpp:49).
5. A POSIX auto reset event counts its notifications (posix_event.hpp:73): made unsignaled
   and notified twice, it is still signaled when one wait has returned, where
   event_tests.hpp:19 has it unsignaled "after being signaled and waited upon once".
   The event of Windows does not count.

Met while reading, and visible with other constants or properties of the same
modules, but not among the runs:

Of groups: a maximum of 1 runs two tasks at once, as `executeImpl` adds one before
it compares and runs the first one itself (parallel_group.hpp:100; `AtMostMaxTasks`
with `maxTasks` 1); each task that `activeWait` takes schedules one more when it
ends, so with helpers on the group itself the number of tasks at a time grows past
the maximum (the same property with such a client). `activeWait` looks only at the
tasks of its own group. If tasks wait in this way for groups that contain groups,
the inner tasks are left to the workers, and as many such waits as there are
workers, on groups whose inner tasks are all queued, block the program for ever
(parallel_group.hpp:75): `SubmittedTaskEnds` and `WaiterReleased` hold while fewer
threads wait so than there are workers, or the called groups have unit tasks only,
as those of `parallel_for`.

Of hooks: those of a group that somebody helps may come in any order.
`activeWait` on a parallel group completes it before a worker executes it, so that
`onPostExecute` is called without `onPreExecute`, or before it when the worker is past
its test of `isDone` (task_group.hpp:53, scheduler.hpp:300). `parallel_for` waits in
this way, and `src/tests/timer_contexts.hpp:133` subtracts what one hook read from
what the other did. `HooksNest` says what is left: no hook is called twice, the last
hook of a group comes after those of its tasks, and its first one before theirs
where nobody helps.

Of `parallel_for`: a scheduler without workers of the priority divides by zero
(simple_partitioner.hpp:20, with `workersCount` 0 from scheduling_helpers.hpp:402).

Of POSIX events and semaphores: a timed wait on a signaled manual reset event may
fail while another waiter holds the token (posix_event.hpp:104); a waiter that took
the token posts it back after `reset()` has read zero, which leaves signaled an
event that posix_event.hpp:145 calls unsignaled. `posix_semaphore` never enforces
its maximum, while `notifyAll` of Windows adds the maximum and so fails as a whole
whenever the count is above zero: `ReleaseSemaphore` changes nothing, `oqpi_verify` reports it
in a build with checks only, and the notification is lost (win_semaphore.hpp:95). That is
`WinNotifyFails`; `TokensConserved` says of POSIX that nothing is lost, `WinTokensConserved` of
Windows that nothing else is and that the count stays within the maximum.
`posix_semaphore::waitFor` returns nothing
(posix_semaphore.hpp:92).

Of named semaphores: whoever releases one unlinks its name (wrapper:246), so that
processes which opened it before and after exclude each other no more: a mutex is
one until the first release only, and `MutualExclusion` says so (`unlinked`). A
failing `open_existing` creates the object, releases it and unlinks the name, to
the loss of whoever opened it in between (wrapper:183). The second `sem_open` may
create (wrapper:195), with a count of 0 that nobody will post. A process that
dies with the lock leaves it locked. `lockOnCreation` is true by default, and with
`open_or_create` the caller cannot tell whether it created, and so holds, the lock.
Assigning to a semaphore that is valid does nothing, and the temporary then
releases, and unlinks, what it was made for (wrapper:60).

Of the mutex of Windows: `lock()` on an abandoned mutex returns false though the
caller owns it from then on (win_mutex.hpp:120): `ToldMeansOwned` holds, its converse
does not, and such a caller keeps everybody out until it dies. Moving a mutex over
a valid one leaks the handle of the other (win_mutex.hpp:65), so the object
outlives its users. Waits are alertable: an asynchronous call ends `lock()` and
the waits of events and semaphores with false. interface_mutex.hpp calls mutexes
Lockable as those of the standard library are, whose `lock` does not fail.

Of threads: a POSIX object whose creation failed may look joinable, and then aborts
the program when it is destroyed or, in a worker that starts again, assigned to
(posix_thread.hpp:148). A priority above `RLIMIT_RTPRIO` makes the creation fail.
Without real-time priorities `setPriority` has no effect and `getPriority` always
returns `lowest`, where threading_tests.hpp:47 expects what was set.
`all_cores` is 32 cores. `TerminateThread` leaks the launcher of a thread it stops
before the function has returned, and the handle as well. Reading the cores of a
thread of Windows sets them, to one core, and sets them back (win_thread.hpp:257).

## 6. Proofs

All for every value of the constants that satisfies the assumptions named in
the modules (`SchedulerAssumption`, `GroupsAssumption`, `PartitionerAssumption`, `GrabAssumption`,
`EventAssumption`, `MutexAssumption`, `DepthAssumption`, `ThreadAssumption`), which
are what the constructors and the types require. Five theorems about groups have a
hypothesis of their own on what clients wait for: `InTurn` (`QueueExclusive`,
`GroupsKeepPromise`, `HooksHold`), `NoRace` (`ChecksHold`) or `MaxKept` (`MaximumHolds`).

* `SchedulerProofs`. `TypeInv` is `TypeOK`, `PointOK` and `PhaseOK` together: the type of a
  handle in hand depends on where the thread is, and what a worker may be doing
  depends on how far `start` and `stop` are, so none of the three is inductive
  alone. Over `TypeInv`, three invariants are inductive by themselves or with
  one strengthening:
  `NoLostWakeup` (push before notify; drain before scan; a worker only moves its
  scan past an empty queue), `StopWakesEveryone` (which rests on `PhaseOK`), and
  `OwnerInv`, that is `ExclusiveOwner` and `HandOK`: to show that a grab gives the
  task to one thread one needs that whoever has it has set `grabbed`, and to show
  that a task runs once, that it is done exactly when its owner has run it.
  From them follow `RunOnce`, `WaitMeansDone`, `OnlyStopDropsTasks`,
  `NoTaskForgotten` and the refinement of `TaskLifecycle`, for any number of
  workers, priorities, tasks, clients, duplicates and restarts.
* `TaskGroupsProofs`, for every tree, any number of threads, and functions that make
  groups and wait for them on top of others.
  `Work` is inductive with no hypothesis: the types; `Hands` (who runs a task
  that is not done, who is in a call from it, and who is about to report it is one
  thread, and they exclude each other); and `Counts` (the counter of a group is
  the number of its tasks that are `Unreported`, and a thread that is past a counter
  of zero, or past the last task of a sequence, is at a group with nothing left).
  `TypeOK` and `CountsUnreported` follow, and only together: that the counter does
  not go below zero is because it counts something, and that it counts is because
  no task is reported twice.
  `Turns` orders the sequences, under `InTurn`: clients submit whole trees and
  wait actively for nothing that lies in a sequence (finding 3 is what happens
  otherwise). A task of a sequence that anybody has `Touched` (queued, is adding,
  took, completed) has left the queue, all that left before it are done, and the
  task of a group is touched only after the group is started. This rests in
  turn on where a thread in the middle of a group comes from (`LeaderTurns`).
  `QueueExclusive` follows: two threads about to use the queue would be two that
  run or report the one task that left last.
  `GroupsKeepPromise` adds `Callers`: a function that waits for a group is done
  after it. Then each step that sets `grabbed` of a unit task is a `Take` of
  `ForkJoin` (its turn has come), each that sets `done` a `Finish` (what it waits
  for and contains is done), and all others stutter.
  `ChecksHold` is about `NoCheckFails`, under `NoRace`: tasks that inherit a priority are run
  by no helper (finding 2). `Fresh` says that such a task is touched by one
  fetch of its group's index or one pop, so that it is not done while it is being
  added; `Parents`, that a parent's pointer is reset only after the task is done, and
  that what `resolveTaskPriority` reaches lies above the task being added, none of
  which is done while that is not.
  `MaximumHolds` is about `AtMostMaxTasks`, under `MaxKept`: besides `InTurn`, nobody
  waits actively for a group with a maximum or for what lies in it, and the maximum is
  not 1 (section 5 says what happens otherwise). The running tasks are not inductive:
  a task runs because it was scheduled earlier, and who ends one schedules the next
  before another thread knows. `Slots` counts places instead: a task takes one when it
  is added, and keeps it until whoever reported it has scheduled another in its stead.
  `Slotted` says that the places never exceed the maximum and that who executes the
  group counts those it has filled, with one kept for the first task, which it adds last
  (`FirstLast`). `Leading` is what makes the count a count: one thread executes a group,
  tasks are touched only after it began (`NotBegun`), and the task which a thread in the
  middle of `oneTaskDone` replaces is its own and nobody else's (`Followers`).
  `HooksHold` is about `HooksNest`, under `InTurn`. `Heeded` follows each hook: a task that
  has heard `onPreExecute` was grabbed, or begun if it is a group; one that has heard
  `onPostExecute` was notified, which happens once and after it is done; a function that
  runs, and a group of `Own` (that nobody helps) that has begun, have heard of it first.
  Of two kinds of orders one comes from `Turns` (a group is done after its tasks, a caller
  after what it called) and the other from `NotBegun`.
  `InTurn` and `NoRace` hold in `Groups.cfg` and `GroupsLiveness.cfg`, `MaxKept` in
  `Groups.cfg` (the fork of two at a time in the middle of the tree); each of the two
  violations breaks the hypothesis that names its finding.
* `AtomicPartitionerProofs`. The invariant: what was handed out is exactly
  what lies below `sharedIndex`, in disjoint sets, and a copy of it is never ahead
  of it. `RangesAreExclusive` needs a first index of 0 or more,
  `AtomicImplementsPartition` a first index of 0: that is finding 4.
* `SimplePartitionerProofs`. The bounds of the batches, from the quotient and
  the remainder, are ordered and meet: no overlap and no gap, for every range
  and number of batches.
* `ParallelForProofs`. `EveryIndexIsCalledOnce`: an index that was given to a batch was
  called on, or is left of the range that batch is in, and to no other; the count
  of the group is the number of tasks that have not reported, so that who takes it
  to zero knows them all to be past their last range; and a batch is past its last
  range only when every index was given. It needs of the partitioner what
  `Partition` says, which the two proofs before give.
* `SynchronisationProofs`. `NotificationsStick`: the invariant adds to
  `SignalSticks` that nobody is in `reset()` when the last event was a notification.
  `ImplementsManualResetEvent`: an event is signaled when it has a token *or* a
  waiter owes one, and that is what makes the gap between take and post harmless
  to waiters. `WinImplementsEvent` and `WinNotificationsStick` are the same of Windows,
  with either reset policy; its invariant adds that the state is 0 or 1 and nobody owes.
  `TokensAreConserved` and `WinTokensAreConserved`, of the semaphores of POSIX and of Windows:
  what was given is there, was taken, or is yet to be posted (POSIX) or was refused (Windows,
  whose initial count is assumed within the maximum, as `CreateSemaphore` requires). What is
  yet to be posted is the size of a set, `ToPost`, of pairs of a thread and the number of a post. A call of
  `notify(n)` adds n pairs, by the library's theorems on the cardinality of products and
  disjoint unions, and a post removes one; this takes the place of an induction over the
  threads.
* `NamedMutexProofs`. `OneHolder` is inductive with the types, the fact that an
  object not yet created is open nowhere, and `NameIsOneObject`: while the name was
  never unlinked, whoever has an object open has the one the name stands for. From
  the two, `MutualExclusion`; and from `OneHolder`, that `unlock` by the holder
  always finds a count of zero (`UnlockNeverRefused`). On Windows the invariant is
  that every open handle is to the object of the name, and that the object is owned
  by one process at most, which is when its state is 0, and by every holder.
* `ThreadHandleProofs`. The invariant adds to the properties what main knows in
  the middle of a creation (`Creation`): which attempt it is about and whether a
  thread came of it, so that the launcher is freed by one side only. The steps of
  both platforms keep it (`WinThreadsToo`).
  `PrioritiesAreReadBack` rests on a lemma on quotients: five steps or more of
  system priorities are enough for rounding up and then down to cancel out.

Left to TLC: every liveness property (`AddedTaskRuns`, `WaiterReleased`,
`StopTerminates`, `SubmittedTaskEnds`, `ParallelForReturns`, `WaitersReleased`,
`ResetReturns`, `JoinReturned`), as the prover handles neither fairness nor ENABLED.
Every invariant of the runs, and every refinement, is stated by a theorem. No theorem
rests on induction over data and no module declares a RECURSIVE operator: the
library's induction theorems take an operator as a parameter, which the provers
cannot instantiate, and RECURSIVE would take the SMT prover away.

## 7. Not modelled, and why

* Interfaces, layers, error macros: forwarding and compile-time choices without
  state.
* Affinities and names of threads: calls whose effect is the system's.
* Events and semaphores of Windows by name: their creation and opening differ
  from those of the mutex only in the call.
* `isIdle`/`waitUntilIdle`, and the order of the priorities a scan has seen: planned.
* `executeSingleThreaded`: planned.
* Hooks of workers, and those called when a task is made or added: one thread
  calls them in sequence.
* Life and death of `shared_ptr`s, exceptions of the user's code, moves of events
  and semaphores.
* The local mutex, which does not compile (the local semaphore takes no name), and
  the arithmetic of deadlines (nanoseconds without a carry).

## 8. Plan

1. (done) `Scheduler`, `TaskLifecycle`: safety, liveness, refinement, proofs.
2. (done) `TaskGroups`, `ForkJoin`: safety, liveness, refinement, calls from within
   tasks, hooks.
3. (done) partitioners and `parallel_for`, events of both platforms, with their
   abstract specifications and proofs.
4. (done) `NamedMutex`, `WinMutex`, `Semaphore`: safety; proofs of the mutexes.
5. (done) `ThreadHandle`, `WinThread`: safety, liveness of `join` and proofs.
6. (done) `TaskGroups` proofs: types, counters, the queues of sequences, the code's
   checks, the maximum, the hooks and the refinement of `ForkJoin`; the tokens of
   `Semaphore`.
7. Extensions: `executeSingleThreaded`, `waitUntilIdle`, affinity masks, the
   deadlines of `waitFor`, and objects that several threads use.
