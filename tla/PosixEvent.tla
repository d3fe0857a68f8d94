----------------------------- MODULE PosixEvent -----------------------------
(***************************************************************************)
(* posix_event.hpp: an event made of a semaphore.  A thread that wakes up    *)
(* from a manual reset event posts again what it has taken, for the next     *)
(* waiter; reset() takes tokens until it reads a count of zero.  Each step   *)
(* is one call to the semaphore (posix_semaphore_wrapper.hpp).               *)
(***************************************************************************)
EXTENDS Integers, FiniteSets

CONSTANTS
  Thread,      \* the threads that share the event
  Resetter,    \* those that call reset()
  Manual,      \* _ResetPolicy::is_manual_reset_enabled()
  MaxNotifies, \* bound: calls to notify()
  MaxCalls     \* bound: calls of each thread to wait(), waitFor() or reset()

ASSUME EventAssumption ==
  /\ Resetter \subseteq Thread
  /\ Manual \in BOOLEAN
  /\ ~Manual => Resetter = {}    \* reset() does not compile for auto reset
  /\ MaxNotifies \in Nat /\ MaxCalls \in Nat

VARIABLES
  tokens,     \* the count of sem_
  where,     \* thread -> where it is
  result,    \* thread -> what its last wait returned
  notifies,  \* calls to notify() so far
  calls,     \* thread -> its calls so far
  last       \* history: which of notify and reset ended last, if they did not overlap

eventVars == <<tokens, where, result, notifies, calls, last>>

Where == {"out", "waiting", "timed", "posting", "reading", "draining"}

MoveTo(th, label) == where' = [where EXCEPT ![th] = label]
Returns(th, r)  == MoveTo(th, "out") /\ result' = [result EXCEPT ![th] = r]

Resetting == \E th \in Thread : where[th] \in {"reading", "draining"}

EventInit ==
  /\ tokens \in {0, 1}    \* initialState
  /\ where = [th \in Thread |-> "out"]
  /\ result = [th \in Thread |-> FALSE]
  /\ notifies = 0
  /\ calls = [th \in Thread |-> 0]
  /\ last = "none"

Notify ==
  /\ notifies < MaxNotifies
  /\ notifies' = notifies + 1
  /\ tokens' = tokens + 1
  /\ last' = IF Resetting THEN "none" ELSE "notify"
  /\ UNCHANGED <<where, result, calls>>

Call(th, label) ==
  /\ where[th] = "out"
  /\ calls[th] < MaxCalls
  /\ calls' = [calls EXCEPT ![th] = @ + 1]
  /\ MoveTo(th, label)
  /\ UNCHANGED <<tokens, result, notifies>>

\* wait() and waitFor().
CallWait(th) == \E label \in {"waiting", "timed"} : Call(th, label) /\ UNCHANGED last

\* Mutant: a woken thread does not wake the next one.
WakeForOneself(th) ==
  /\ where[th] \in {"waiting", "timed"}
  /\ tokens > 0
  /\ tokens' = tokens - 1
  /\ Returns(th, TRUE)
  /\ UNCHANGED <<notifies, calls, last>>

\* sem_wait or sem_timedwait returns 0.
Wake(th) ==
  /\ where[th] \in {"waiting", "timed"}
  /\ tokens > 0
  /\ tokens' = tokens - 1
  /\ IF Manual THEN MoveTo(th, "posting") /\ UNCHANGED result ELSE Returns(th, TRUE)
  /\ UNCHANGED <<notifies, calls, last>>

\* "To signal other potential waiters, increment lock. Snowball effect."
PassOn(th) ==
  /\ where[th] = "posting"
  /\ tokens' = tokens + 1
  /\ Returns(th, TRUE)
  /\ UNCHANGED <<notifies, calls, last>>

\* Mutant: a wait that times out is reported as a success.
TimeOutAsSuccess(th) ==
  /\ where[th] = "timed"
  /\ tokens = 0
  /\ Returns(th, TRUE)
  /\ UNCHANGED <<tokens, notifies, calls, last>>

\* The deadline passes while the count is zero (ETIMEDOUT).
TimeOut(th) ==
  /\ where[th] = "timed"
  /\ tokens = 0
  /\ Returns(th, FALSE)
  /\ UNCHANGED <<tokens, notifies, calls, last>>

\* A signal handler interrupts a call (EINTR), also the wait() of reset().
Interrupted(th) ==
  /\ \/ where[th] \in {"waiting", "timed"} /\ Returns(th, FALSE)
     \/ where[th] = "draining" /\ MoveTo(th, "out") /\ UNCHANGED result
  /\ UNCHANGED <<tokens, notifies, calls, last>>

CallReset(th) ==
  /\ th \in Resetter
  /\ Call(th, "reading")
  /\ last' = "resetting"

\* Mutant: the loop takes one token too many.
ReadThenDrain(th) ==
  /\ where[th] = "reading"
  /\ MoveTo(th, "draining")
  /\ UNCHANGED <<tokens, result, notifies, calls, last>>

\* getValue(): the loop ends when it is zero.
ReadTokens(th) ==
  /\ where[th] = "reading"
  /\ MoveTo(th, IF tokens = 0 THEN "out" ELSE "draining")
  /\ last' = IF tokens = 0 /\ last = "resetting" THEN "reset" ELSE last
  /\ UNCHANGED <<tokens, result, notifies, calls>>

Drain(th) ==
  /\ where[th] = "draining"
  /\ tokens > 0
  /\ tokens' = tokens - 1
  /\ MoveTo(th, "reading")
  /\ UNCHANGED <<result, notifies, calls, last>>

Continue(th) == Wake(th) \/ PassOn(th) \/ ReadTokens(th) \/ Drain(th)

PosixEventNext ==
  \/ Notify
  \/ \E th \in Thread :
       \/ CallWait(th) \/ CallReset(th)
       \/ Continue(th) \/ TimeOut(th) \/ Interrupted(th)

PosixEventSpec == EventInit /\ [][PosixEventNext]_eventVars

\* From an event that is made as tests make them, not signaled (interface_event.hpp:37).
UnsignaledEventSpec == tokens = 0 /\ PosixEventSpec

\* A thread that can go on does; notifying, calling and timing out are free.
FairPosixEventSpec == PosixEventSpec /\ \A th \in Thread : WF_eventVars(Continue(th))

-----------------------------------------------------------------------------
EventTypeOK ==
  /\ tokens \in Nat
  /\ where \in [Thread -> Where]
  /\ result \in [Thread -> BOOLEAN]
  /\ notifies \in 0..MaxNotifies
  /\ calls \in [Thread -> 0..MaxCalls]
  /\ last \in {"none", "notify", "resetting", "reset"}

\* The event is signaled: there is a token, or a thread that will give one back.
Signaled == tokens > 0 \/ \E th \in Thread : where[th] = "posting"

\* A notification that no reset overlaps or follows is never lost, however many
\* waiters, timeouts and interruptions there are between (manual reset).
SignalSticks == Manual /\ last = "notify" => Signaled

Promise ==
  INSTANCE Event WITH
    signaled  <- Signaled,
    inside    <- {th \in Thread : where[th] \in {"waiting", "timed", "posting"}},
    resetting <- {th \in Thread : where[th] \in {"reading", "draining"}}

\* An auto reset event "should be automatically set to the non_signalled state
\* after being signaled and waited upon once" (event_tests.hpp:19), until it is
\* notified again.
UnsignaledAfterWait == [][\A th \in Thread : Wake(th) /\ ~Manual => tokens' = 0]_eventVars

\* A wait succeeds only while the event is signaled, which no thread but one in
\* reset() can undo: what the notifier of a task, whose event nobody resets,
\* relies on.
ImplementsEvent == Promise!Spec

\* Every thread that waits on an event which was notified, and not reset since,
\* gets through.
WaitersReleased ==
  \A th \in Thread :
    (where[th] \in {"waiting", "timed"} /\ last = "notify")
      ~> (where[th] = "out" \/ last # "notify")

\* reset() returns, when no other thread resets the same event.
ResetReturns == \A th \in Resetter : (where[th] \in {"reading", "draining"}) ~> (where[th] = "out")
=============================================================================
