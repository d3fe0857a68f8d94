------------------------------- MODULE Event -------------------------------
(***************************************************************************)
(* What an event promises to the threads that wait on it: a wait succeeds    *)
(* only while the event is signaled.  A manual reset event stays signaled    *)
(* for everybody until a thread is in reset(); an auto reset event is         *)
(* unsignaled by the one wait it lets through.  A wait may also fail          *)
(* (timeout, interruption) and change nothing.  It begins in either state.   *)
(***************************************************************************)
CONSTANTS Thread, Manual

VARIABLES
  signaled,   \* whether the event is
  inside,     \* the threads in a call to wait() or waitFor()
  resetting,  \* the threads in a call to reset()
  result      \* thread -> what its last wait returned

vars == <<signaled, inside, resetting, result>>

Init ==
  /\ signaled \in BOOLEAN
  /\ inside = {} /\ resetting = {}
  /\ result = [th \in Thread |-> FALSE]

Notify == signaled' = TRUE /\ UNCHANGED <<inside, resetting, result>>

Enter(th) ==
  /\ th \notin inside \cup resetting
  /\ inside' = inside \cup {th}
  /\ UNCHANGED <<signaled, resetting, result>>

Succeed(th) ==
  /\ th \in inside
  /\ signaled
  /\ inside' = inside \ {th}
  /\ result' = [result EXCEPT ![th] = TRUE]
  /\ signaled' = Manual
  /\ UNCHANGED resetting

Fail(th) ==
  /\ th \in inside
  /\ inside' = inside \ {th}
  /\ result' = [result EXCEPT ![th] = FALSE]
  /\ UNCHANGED <<signaled, resetting>>

EnterReset(th) ==
  /\ th \notin inside \cup resetting
  /\ resetting' = resetting \cup {th}
  /\ UNCHANGED <<signaled, inside, result>>

Unsignal ==
  /\ resetting # {}
  /\ signaled' = FALSE
  /\ UNCHANGED <<inside, resetting, result>>

LeaveReset(th) ==
  /\ th \in resetting
  /\ resetting' = resetting \ {th}
  /\ UNCHANGED <<signaled, inside, result>>

Next ==
  \/ Notify \/ Unsignal
  \/ \E th \in Thread :
       Enter(th) \/ Succeed(th) \/ Fail(th) \/ EnterReset(th) \/ LeaveReset(th)

Spec == Init /\ [][Next]_vars
=============================================================================
