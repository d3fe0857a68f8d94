-------------------------- MODULE MCSynchronisation --------------------------
(* Small instances of an event, a named mutex and a semaphore, each on one     *)
(* platform or the other: the three share nothing, and a behaviour is one's.  *)
EXTENDS EventAndSemaphore, WinMutex

CONSTANTS p1, p2, p3, t1, t2, t3

VARIABLE object    \* the platform is that of the semaphore, for all three

mutexVars == <<vars, winVars>>
allVars   == <<object, platform, mutexVars, eventVars, semaphoreVars>>

Of(which, system) == object = which /\ platform = system /\ UNCHANGED <<object, platform>>

EventStep ==
  /\ \/ Of("event", "posix") /\ PosixEventNext
     \/ Of("event", "win") /\ WinEventNext
  /\ UNCHANGED <<mutexVars, semaphoreVars>>

EventContinues(th) ==
  /\ \/ Of("event", "posix") /\ Continue(th)
     \/ Of("event", "win") /\ WinContinue(th)
  /\ UNCHANGED <<mutexVars, semaphoreVars>>

MutexStep ==
  /\ \/ Of("mutex", "posix") /\ Next /\ UNCHANGED winVars
     \/ Of("mutex", "win") /\ WinNext
  /\ UNCHANGED <<eventVars, semaphoreVars>>

SemaphoreStep ==
  /\ object = "semaphore" /\ Semaphore!Next
  /\ UNCHANGED <<object, mutexVars, eventVars>>

MCInit ==
  /\ object \in {"event", "mutex", "semaphore"}
  /\ WinInit /\ EventInit /\ Semaphore!Init
  /\ object # "event" => tokens = 0

\* The fairness of FairPosixEventSpec, on both platforms.
MCSpec ==
  /\ MCInit
  /\ [][EventStep \/ MutexStep \/ SemaphoreStep]_allVars
  /\ \A th \in Thread : WF_allVars(EventContinues(th))
=============================================================================
