------------------------------ MODULE WinEvent ------------------------------
(***************************************************************************)
(* win_event.hpp: an event of the system.  Its state is a count of 0 or 1 here;      *)
(* the threads and what they call are those of PosixEvent.                   *)
(***************************************************************************)
EXTENDS PosixEvent

\* SetEvent
WinNotify ==
  /\ notifies < MaxNotifies
  /\ notifies' = notifies + 1
  /\ tokens' = 1
  /\ last' = IF Resetting THEN "none" ELSE "notify"
  /\ UNCHANGED <<where, result, calls>>

\* WaitForSingleObjectEx returns WAIT_OBJECT_0; the system resets an auto reset event.
WinWake(th) ==
  /\ where[th] \in {"waiting", "timed"}
  /\ tokens = 1
  /\ tokens' = IF Manual THEN 1 ELSE 0
  /\ Returns(th, TRUE)
  /\ UNCHANGED <<notifies, calls, last>>

\* The waits are alertable: an asynchronous call to the thread ends them
\* (WAIT_IO_COMPLETION), which is reported as an error and returned as a timeout.
WinInterrupted(th) ==
  /\ where[th] \in {"waiting", "timed"}
  /\ Returns(th, FALSE)
  /\ UNCHANGED <<tokens, notifies, calls, last>>

\* ResetEvent ...
ResetEvent(th) ==
  /\ where[th] = "reading"
  /\ tokens' = 0
  /\ MoveTo(th, "draining")
  /\ last' = IF last = "resetting" THEN "reset" ELSE last
  /\ UNCHANGED <<result, notifies, calls>>

\* ... and reset() returns.
ResetReturned(th) ==
  /\ where[th] = "draining"
  /\ MoveTo(th, "out")
  /\ UNCHANGED <<tokens, result, notifies, calls, last>>

WinContinue(th) == WinWake(th) \/ ResetEvent(th) \/ ResetReturned(th)

WinEventNext ==
  \/ WinNotify
  \/ \E th \in Thread :
       \/ CallWait(th) \/ CallReset(th)
       \/ WinContinue(th) \/ TimeOut(th) \/ WinInterrupted(th)

WinEventSpec == EventInit /\ [][WinEventNext]_eventVars
=============================================================================
