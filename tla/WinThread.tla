------------------------------ MODULE WinThread ------------------------------
(***************************************************************************)
(* interface_thread.hpp over win_thread.hpp: the objects, the launcher and    *)
(* the calls of main are those of ThreadHandle; what differs is what each      *)
(* call to the system does.  handle_ and id_ are set and cleared together, and *)
(* are one variable here.                                                   *)
(***************************************************************************)
EXTENDS ThreadHandle

\* THREAD_PRIORITY_LOWEST to THREAD_PRIORITY_TIME_CRITICAL
win_thread_priority(prio) == <<-2, -1, 0, 1, 2, 15>>[prio + 1]

\* The first priority of the table with this value, or normal.
win_get_priority(winPrio) ==
  LET found == {prio \in thread_priority : win_thread_priority(prio) = winPrio}
  IN  IF found = {} THEN 2 ELSE CHOOSE prio \in found : \A q \in found : prio <= q

WinInit == Init /\ rlimit = 0

\* CreateThread: the thread begins with the normal priority, on any core ...
WinCreate ==
  /\ pc = "creating"
  /\ thread' = [thread EXCEPT ![attempts] = "starting"]
  /\ handle' = [handle EXCEPT ![self] = attempts]
  /\ pc' = "configuring"
  /\ UNCHANGED <<rlimit, objects, self, attempts, attached, cancelled, schedule, freed>>

\* ... and gets the priority asked for while it runs, or after it ended.
Configure(prio) ==
  /\ pc = "configuring"
  /\ schedule' = [schedule EXCEPT ![attempts] = win_thread_priority(prio)]
  /\ pc' = "created"
  /\ UNCHANGED <<rlimit, objects, handle, self, attempts, thread, attached, cancelled, freed>>

\* CreateThread returns NULL, which is what handle_ becomes.
WinCreateFails ==
  /\ pc = "creating"
  /\ handle' = [handle EXCEPT ![self] = NoThread]
  /\ pc' = "failed"
  /\ UNCHANGED <<rlimit, objects, self, attempts, attached, cancelled, threadVars>>

\* CloseHandle: the system frees the thread once it has ended.
WinDetach(h) == Detach(h)

\* Mutant: the handle of a thread that was waited for is not closed.
WaitOnly ==
  /\ pc = "joining"
  /\ thread[handle[self]] \in {"ended", "killed"}
  /\ handle' = [handle EXCEPT ![self] = NoThread]
  /\ pc' = "idle"
  /\ UNCHANGED <<rlimit, objects, self, attempts, attached, cancelled, threadVars>>

\* WaitForSingleObject returns once the thread has ended, then detach().
WinJoinReturns ==
  /\ pc = "joining"
  /\ thread[handle[self]] \in {"ended", "killed"}
  /\ attached' = [attached EXCEPT ![handle[self]] = "detached"]
  /\ handle' = [handle EXCEPT ![self] = NoThread]
  /\ pc' = "idle"
  /\ UNCHANGED <<rlimit, objects, self, attempts, cancelled, threadVars>>

\* TerminateThread stops the thread where it is: nobody frees its launcher, and
\* nobody closes its handle.  (Where it fails nothing changes.)
WinTerminate(h) ==
  /\ pc = "idle" /\ h \in objects /\ handle[h] \in Thread
  /\ thread' = [thread EXCEPT ![handle[h]] = IF @ = "ended" THEN @ ELSE "killed"]
  /\ cancelled' = cancelled \cup {handle[h]}
  /\ handle' = [handle EXCEPT ![h] = NoThread]
  /\ UNCHANGED <<rlimit, objects, pc, self, attempts, attached, schedule, freed>>

WinSetPriority(h, prio) ==
  /\ pc = "idle" /\ h \in objects /\ handle[h] \in Thread
  /\ schedule' = [schedule EXCEPT ![handle[h]] = win_thread_priority(prio)]
  /\ UNCHANGED <<rlimit, mainVars, attempts, thread, attached, cancelled, freed>>

-----------------------------------------------------------------------------
WinCallReturns ==
  \/ WinCreate \/ WinCreateFails
  \/ \E prio \in thread_priority : Configure(prio)
  \/ ReleaseLauncher \/ FreeLauncher \/ WinJoinReturns

WinCall(h) ==
  \/ Construct(h) \/ Launch(h) \/ Destroy(h) \/ Join(h)
  \/ WinDetach(h) \/ WinTerminate(h)
  \/ \E other \in Handle : MoveConstruct(h, other) \/ MoveAssign(h, other)
  \/ \E prio \in thread_priority : WinSetPriority(h, prio)

WinNext ==
  \/ WinCallReturns
  \/ \E h \in Handle : WinCall(h)
  \/ \E t \in Thread : ThreadStep(t)

WinSpec == WinInit /\ [][WinNext]_vars

-----------------------------------------------------------------------------
\* getPriority gives back what creation, or setPriority, asked for.
WinPriorityReadBack ==
  [][\A prio \in thread_priority :
       /\ Configure(prio) => win_get_priority(schedule'[attempts]) = prio
       /\ \A h \in Handle :
            WinSetPriority(h, prio) => win_get_priority(schedule'[handle[h]]) = prio]_vars
=============================================================================
