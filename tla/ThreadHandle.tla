---------------------------- MODULE ThreadHandle ----------------------------
(***************************************************************************)
(* interface_thread.hpp over posix_thread.hpp: thread objects, the threads   *)
(* they stand for, and the launcher on the heap that takes a function into   *)
(* its thread.  One thread of the program (main) uses the objects; the       *)
(* threads it starts run beside it.                                         *)
(***************************************************************************)
EXTENDS Integers

CONSTANTS
  Handle,                     \* the thread objects of the program
  MaxThreads,                 \* bound: the threads it tries to create
  MinPriority, MaxPriority,   \* sched_get_priority_min and _max of SCHED_RR
  Limits                      \* what RLIMIT_RTPRIO may be

\* Fewer system priorities than thread_priority has steps would not tell them apart.
ASSUME ThreadAssumption ==
  /\ MaxThreads \in Nat
  /\ MinPriority \in Nat \ {0}
  /\ MaxPriority \in Nat
  /\ MaxPriority - MinPriority >= 5
  /\ Limits \subseteq Nat

\* An attempt to create a thread, the thread it creates and its launcher.
Thread   == 1..MaxThreads
NoThread == 0
Dangling == -1      \* a handle_ that pthread_create wrote before it failed

\* thread_priority, lowest to time_critical
thread_priority == 0..5

VARIABLES
  rlimit,     \* RLIMIT_RTPRIO of the process: 0, no real time priorities
  objects,    \* the thread objects that are constructed
  handle,     \* object -> handle_
  pc,         \* where main is (Windows only: "configuring")
  self,       \* the object main is in a call of
  attempts,   \* how often creation was attempted
  thread,     \* thread -> where it is (Windows only: "killed")
  attached,   \* thread -> whether it was joined or detached
  cancelled,  \* the threads that terminate() cancelled
  schedule,   \* thread -> its priority for the system; 0: none, or normal on Windows
  freed       \* thread -> how often its launcher was freed

mainVars   == <<objects, handle, pc, self>>
threadVars == <<thread, schedule, freed>>
vars == <<rlimit, objects, handle, pc, self, attempts, thread, attached, cancelled, schedule, freed>>

Init ==
  /\ rlimit \in Limits
  /\ objects = {}
  /\ handle = [h \in Handle |-> NoThread]
  /\ pc = "idle"
  /\ self \in Handle
  /\ attempts = 0
  /\ thread = [t \in Thread |-> "none"]
  /\ attached = [t \in Thread |-> "joinable"]
  /\ cancelled = {}
  /\ schedule = [t \in Thread |-> 0]
  /\ freed = [t \in Thread |-> 0]

-----------------------------------------------------------------------------
(* Priorities. *)

\* Mutant: the priority is rounded down.
floorPriority(prio) == MinPriority + (prio * (MaxPriority - MinPriority)) \div 5

\* Rounded up.
posix_thread_priority(prio) == MinPriority + (prio * (MaxPriority - MinPriority) + 4) \div 5

\* Converted to an integer towards zero: without real time it is 0, lowest.
get_priority(posixPrio) ==
  IF posixPrio < MinPriority
    THEN -(((MinPriority - posixPrio) * 5) \div (MaxPriority - MinPriority))
    ELSE ((posixPrio - MinPriority) * 5) \div (MaxPriority - MinPriority)

-----------------------------------------------------------------------------
(* Creation: the constructor with a function, launch and create. *)

Construct(h) ==
  /\ pc = "idle" /\ h \notin objects
  /\ objects' = objects \cup {h}
  /\ UNCHANGED <<rlimit, handle, pc, self, attempts, attached, cancelled, threadVars>>

\* The launcher is made and create called.
Launch(h) ==
  /\ pc = "idle" /\ h \notin objects
  /\ attempts < MaxThreads
  /\ attempts' = attempts + 1
  /\ self' = h
  /\ pc' = "creating"
  /\ UNCHANGED <<rlimit, objects, handle, attached, cancelled, threadVars>>

\* pthread_create, with the priority asked for if the process has any.
Create(prio) ==
  /\ pc = "creating"
  /\ rlimit = 0 \/ posix_thread_priority(prio) <= rlimit
  /\ thread' = [thread EXCEPT ![attempts] = "starting"]
  /\ schedule' = [schedule EXCEPT ![attempts] =
                    IF rlimit = 0 THEN 0 ELSE posix_thread_priority(prio)]
  /\ handle' = [handle EXCEPT ![self] = attempts]
  /\ pc' = "created"
  /\ UNCHANGED <<rlimit, objects, self, attempts, attached, cancelled, freed>>

\* It may always fail, for lack of resources, and does for a priority that the
\* process may not have; handle_ is undefined then.
CreateFails ==
  /\ pc = "creating"
  /\ \E undefined \in {NoThread, Dangling} : handle' = [handle EXCEPT ![self] = undefined]
  /\ pc' = "failed"
  /\ UNCHANGED <<rlimit, objects, self, attempts, attached, cancelled, threadVars>>

\* Mutant: the launcher is not released, and freed with the unique_ptr of launch.
KeepLauncher ==
  /\ pc = "created"
  /\ objects' = objects \cup {self}
  /\ freed' = [freed EXCEPT ![attempts] = @ + 1]
  /\ pc' = "idle"
  /\ UNCHANGED <<rlimit, handle, self, attempts, thread, attached, cancelled, schedule>>

\* upLauncher.release(), perhaps long after the thread took it and freed it.
ReleaseLauncher ==
  /\ pc = "created"
  /\ objects' = objects \cup {self}
  /\ pc' = "idle"
  /\ UNCHANGED <<rlimit, handle, self, attempts, attached, cancelled, threadVars>>

\* The unique_ptr of launch frees what no thread took.
FreeLauncher ==
  /\ pc = "failed"
  /\ objects' = objects \cup {self}
  /\ freed' = [freed EXCEPT ![attempts] = @ + 1]
  /\ pc' = "idle"
  /\ UNCHANGED <<rlimit, handle, self, attempts, thread, attached, cancelled, schedule>>

\* The thread puts the launcher in a unique_ptr of its own and calls it.
Start(t) ==
  /\ thread[t] = "starting"
  /\ thread' = [thread EXCEPT ![t] = "running"]
  /\ UNCHANGED <<rlimit, mainVars, attempts, attached, cancelled, schedule, freed>>

\* The function returns, or a cancellation unwinds it.
End(t) ==
  /\ thread[t] = "running"
  /\ thread' = [thread EXCEPT ![t] = "ended"]
  /\ freed' = [freed EXCEPT ![t] = @ + 1]
  /\ UNCHANGED <<rlimit, mainVars, attempts, attached, cancelled, schedule>>

-----------------------------------------------------------------------------
(* The operations of an object. *)

joinable(h) == handle[h] # NoThread

\* std::terminate
Abort == pc' = "aborted" /\ UNCHANGED <<objects, handle, self>>

\* Mutant: an object is destroyed whatever it stands for.
DestroyAnyway(h) ==
  /\ pc = "idle" /\ h \in objects
  /\ objects' = objects \ {h}
  /\ UNCHANGED <<rlimit, handle, pc, self, attempts, attached, cancelled, threadVars>>

Destroy(h) ==
  /\ pc = "idle" /\ h \in objects
  /\ \/ joinable(h) /\ Abort
     \/ ~joinable(h) /\ objects' = objects \ {h} /\ UNCHANGED <<handle, pc, self>>
  /\ UNCHANGED <<rlimit, attempts, attached, cancelled, threadVars>>

MoveConstruct(h, other) ==
  /\ pc = "idle" /\ h \notin objects /\ other \in objects
  /\ objects' = objects \cup {h}
  /\ handle' = [handle EXCEPT ![h] = handle[other], ![other] = NoThread]
  /\ UNCHANGED <<rlimit, pc, self, attempts, attached, cancelled, threadVars>>

\* Mutant: the handle is copied.
CopyAssign(h, rhs) ==
  /\ pc = "idle" /\ h \in objects /\ rhs \in objects \ {h}
  /\ \/ joinable(h) /\ Abort
     \/ /\ ~joinable(h)
        /\ handle' = [handle EXCEPT ![h] = handle[rhs]]
        /\ UNCHANGED <<objects, pc, self>>
  /\ UNCHANGED <<rlimit, attempts, attached, cancelled, threadVars>>

MoveAssign(h, rhs) ==
  /\ pc = "idle" /\ h \in objects /\ rhs \in objects \ {h}
  /\ \/ joinable(h) /\ Abort
     \/ /\ ~joinable(h)
        /\ handle' = [handle EXCEPT ![h] = handle[rhs], ![rhs] = NoThread]
        /\ UNCHANGED <<objects, pc, self>>
  /\ UNCHANGED <<rlimit, attempts, attached, cancelled, threadVars>>

\* join() on nothing only warns.
Join(h) ==
  /\ pc = "idle" /\ h \in objects /\ joinable(h)
  /\ self' = h
  /\ pc' = "joining"
  /\ UNCHANGED <<rlimit, objects, handle, attempts, attached, cancelled, threadVars>>

\* pthread_join returns once the thread has ended, if nobody joined or detached it.
JoinReturns ==
  /\ pc = "joining"
  /\ handle[self] \in Thread
  /\ thread[handle[self]] = "ended" /\ attached[handle[self]] = "joinable"
  /\ attached' = [attached EXCEPT ![handle[self]] = "joined"]
  /\ handle' = [handle EXCEPT ![self] = NoThread]
  /\ pc' = "idle"
  /\ UNCHANGED <<rlimit, objects, self, attempts, cancelled, threadVars>>

\* On a handle that stands for no thread, it fails or the program crashes.
JoinFails ==
  /\ pc = "joining"
  /\ handle[self] = Dangling
  /\ pc' \in {"idle", "aborted"}
  /\ UNCHANGED <<rlimit, objects, handle, self, attempts, attached, cancelled, threadVars>>

\* Mutant: the object is still joinable after detach().
DetachOnly(h) ==
  /\ pc = "idle" /\ h \in objects /\ handle[h] \in Thread
  /\ attached' = [attached EXCEPT ![handle[h]] = "detached"]
  /\ UNCHANGED <<rlimit, mainVars, attempts, cancelled, threadVars>>

Detach(h) ==
  /\ pc = "idle" /\ h \in objects /\ handle[h] \in Thread
  /\ attached' = [attached EXCEPT ![handle[h]] = "detached"]
  /\ handle' = [handle EXCEPT ![h] = NoThread]
  /\ UNCHANGED <<rlimit, objects, pc, self, attempts, cancelled, threadVars>>

\* pthread_cancel: the object lets go of a thread that is neither joined nor detached.
\* (Where it fails, of a thread that has ended, nothing changes.)
Terminate(h) ==
  /\ pc = "idle" /\ h \in objects /\ handle[h] \in Thread
  /\ cancelled' = cancelled \cup {handle[h]}
  /\ handle' = [handle EXCEPT ![h] = NoThread]
  /\ UNCHANGED <<rlimit, objects, pc, self, attempts, attached, threadVars>>

\* They may crash the program too.
CrashOnDangling(h) ==
  /\ pc = "idle" /\ h \in objects /\ handle[h] = Dangling
  /\ Abort
  /\ UNCHANGED <<rlimit, attempts, attached, cancelled, threadVars>>

\* pthread_setschedprio, whose result nobody looks at.
SetPriority(h, prio) ==
  /\ pc = "idle" /\ h \in objects /\ handle[h] \in Thread
  /\ thread[handle[h]] # "ended"
  /\ schedule' = [schedule EXCEPT ![handle[h]] =
                    IF posix_thread_priority(prio) <= rlimit THEN posix_thread_priority(prio) ELSE @]
  /\ UNCHANGED <<rlimit, mainVars, attempts, thread, attached, cancelled, freed>>

-----------------------------------------------------------------------------
CallReturns ==
  \/ \E prio \in thread_priority : Create(prio)
  \/ CreateFails \/ ReleaseLauncher \/ FreeLauncher
  \/ JoinReturns \/ JoinFails

Call(h) ==
  \/ Construct(h) \/ Launch(h) \/ Destroy(h) \/ Join(h)
  \/ Detach(h) \/ Terminate(h) \/ CrashOnDangling(h)
  \/ \E other \in Handle : MoveConstruct(h, other) \/ MoveAssign(h, other)
  \/ \E prio \in thread_priority : SetPriority(h, prio)

ThreadStep(t) == pc # "aborted" /\ (Start(t) \/ End(t))

Next == CallReturns \/ (\E h \in Handle : Call(h)) \/ (\E t \in Thread : ThreadStep(t))

Spec == Init /\ [][Next]_vars

\* The system runs main and the threads, whose functions return: join() waits for
\* one that does not, by its contract.
FairSpec == Spec /\ WF_vars(CallReturns) /\ \A t \in Thread : WF_vars(ThreadStep(t))

-----------------------------------------------------------------------------
TypeOK ==
  /\ rlimit \in Limits
  /\ objects \subseteq Handle
  /\ handle \in [Handle -> Thread \cup {NoThread, Dangling}]
  /\ pc \in {"idle", "creating", "configuring", "created", "failed", "joining", "aborted"}
  /\ self \in Handle
  /\ attempts \in 0..MaxThreads
  /\ thread \in [Thread -> {"none", "starting", "running", "ended", "killed"}]
  /\ attached \in [Thread -> {"joinable", "detached", "joined"}]
  /\ cancelled \subseteq Thread
  /\ schedule \in [Thread -> Int]
  /\ freed \in [Thread -> Nat]
  /\ \A h \in Handle : h \notin objects /\ handle[h] # NoThread => pc \in {"configuring", "created", "failed"}

\* The launcher has one owner at a time, whoever is faster, the new thread or the
\* return of pthread_create: nobody frees it under a thread that is yet to call it
\* or calls it, nobody frees it twice, and it is lost only with a thread that
\* TerminateThread killed.
LauncherFreedOnce ==
  \A t \in Thread :
    /\ thread[t] \in {"starting", "running", "killed"} => freed[t] = 0
    /\ thread[t] = "ended" => freed[t] = 1
    /\ t <= attempts /\ thread[t] = "none" =>
         freed[t] = (IF t = attempts /\ pc \in {"creating", "failed"} THEN 0 ELSE 1)

\* An object that is joinable stands for a thread that the system still knows, as
\* nobody joined or detached it, and no other object stands for that thread.
HandlesAreExclusive ==
  \A h \in Handle : handle[h] \in Thread =>
    /\ thread[handle[h]] # "none" /\ attached[handle[h]] = "joinable"
    /\ \A g \in Handle : handle[g] = handle[h] => g = h

\* Moves lose no thread: one that is neither joined nor detached has an object,
\* unless terminate() let it go (nobody frees its stack then).
OnlyTerminateLeaks ==
  \A t \in Thread :
    thread[t] # "none" /\ attached[t] = "joinable" /\ (\A h \in Handle : handle[h] # t)
      => t \in cancelled

\* getPriority gives back what was asked for, at the creation or later, where the
\* system grants it: the two roundings cancel out.
PriorityReadBack ==
  [][\A prio \in thread_priority :
       rlimit # 0 /\ posix_thread_priority(prio) <= rlimit =>
         /\ Create(prio) => get_priority(schedule'[attempts]) = prio
         /\ \A h \in Handle :
              SetPriority(h, prio) => get_priority(schedule'[handle[h]]) = prio]_vars

\* join() returns: its thread can still be joined.
JoinReturned == pc = "joining" ~> pc # "joining"
=============================================================================
