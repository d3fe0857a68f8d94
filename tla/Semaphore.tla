----------------------------- MODULE Semaphore -----------------------------
(***************************************************************************)
(* posix_semaphore.hpp and win_semaphore.hpp: a count that each successful     *)
(* wait lowers and that notify(n) raises: on POSIX in n calls to sem_post,    *)
(* whatever the maximum is; on Windows in one to ReleaseSemaphore, which adds *)
(* all of n or, above the maximum, fails and adds nothing.                   *)
(***************************************************************************)
EXTENDS Integers, FiniteSets

CONSTANTS
  Thread,
  InitCount,    \* initCount, in 0..MaxCount
  MaxCount,     \* maxCount_, above 0
  MaxNotifies   \* bound: calls to notify() and notifyAll()

VARIABLES
  platform,  \* "posix" or "win", which never changes
  count,     \* the count of the system's semaphore
  waiting,   \* the threads in wait() or waitFor()
  left,      \* thread -> the posts its notify(n) has yet to do
  notifies,  \* calls of notify and notifyAll
  given,     \* history: what they were to add
  refused,   \* history: what those of them that failed were to add
  taken      \* history: the waits that took one

vars == <<platform, count, waiting, left, notifies, given, refused, taken>>

Init ==
  /\ platform \in {"posix", "win"}
  /\ count = InitCount
  /\ waiting = {} /\ notifies = 0 /\ given = 0 /\ refused = 0 /\ taken = 0
  /\ left = [th \in Thread |-> 0]

Outside(th) == th \notin waiting /\ left[th] = 0

\* notifyOne, notify(n), and notifyAll, which is notify(maxCount_).
Notification(th, n, system) ==
  /\ platform = system
  /\ Outside(th) /\ notifies < MaxNotifies
  /\ notifies' = notifies + 1
  /\ n \in 1..MaxCount
  /\ given' = given + n
  /\ UNCHANGED <<platform, waiting, taken>>

\* Mutant: the loop of notify(n) runs once too often.
NotifyOneMore(th, n) ==
  /\ Notification(th, n, "posix")
  /\ left' = [left EXCEPT ![th] = n + 1]
  /\ UNCHANGED <<count, refused>>

Notify(th, n) ==
  /\ Notification(th, n, "posix")
  /\ left' = [left EXCEPT ![th] = n]
  /\ UNCHANGED <<count, refused>>

\* sem_post, whatever maxCount_ is.
Post(th) ==
  /\ platform = "posix" /\ left[th] > 0
  /\ left' = [left EXCEPT ![th] = @ - 1]
  /\ count' = count + 1
  /\ UNCHANGED <<platform, waiting, notifies, given, refused, taken>>

\* ReleaseSemaphore adds n at once ...
WinNotify(th, n) ==
  /\ Notification(th, n, "win")
  /\ count + n <= MaxCount
  /\ count' = count + n
  /\ UNCHANGED <<left, refused>>

\* Mutant: the maximum is filled up with a part of n.
WinNotifyInPart(th, n) ==
  /\ Notification(th, n, "win")
  /\ count + n > MaxCount
  /\ count' = MaxCount
  /\ refused' = refused + n
  /\ UNCHANGED left

\* ... or fails, which oqpi_verify reports in a build with checks and nobody looks at
\* otherwise: notify(n) returns, and the notification is lost.
WinNotifyFails(th, n) ==
  /\ Notification(th, n, "win")
  /\ count + n > MaxCount
  /\ refused' = refused + n
  /\ UNCHANGED <<count, left>>

CallWait(th) ==
  /\ Outside(th)
  /\ waiting' = waiting \cup {th}
  /\ UNCHANGED <<platform, count, left, notifies, given, refused, taken>>

\* wait(), waitFor() and, straight away, tryWait().
Take(th) ==
  /\ th \in waiting \/ Outside(th)
  /\ count > 0
  /\ count' = count - 1
  /\ taken' = taken + 1
  /\ waiting' = waiting \ {th}
  /\ UNCHANGED <<platform, left, notifies, given, refused>>

\* A timeout, a signal, or an asynchronous call.
GiveUp(th) ==
  /\ th \in waiting
  /\ waiting' = waiting \ {th}
  /\ UNCHANGED <<platform, count, left, notifies, given, refused, taken>>

WaitStep(th) == CallWait(th) \/ Take(th) \/ GiveUp(th)

Next ==
  \E th \in Thread :
    \/ WaitStep(th) \/ Post(th)
    \/ \E n \in 1..MaxCount : Notify(th, n) \/ WinNotify(th, n) \/ WinNotifyFails(th, n)

Spec == Init /\ [][Next]_vars

-----------------------------------------------------------------------------
\* The posts that calls of notify(n) have yet to do, numbered from the last one.
ToPost == UNION {{th} \X (1..left[th]) : th \in Thread}

\* On POSIX no notification is lost or counted twice: what was given, in however many
\* posts between which others wait, time out and notify, is there, was taken or is yet
\* to be posted (posix_semaphore.hpp:63-71).
TokensConserved ==
  platform = "posix" => InitCount + given = count + taken + Cardinality(ToPost)

\* On Windows a notification is lost as a whole or not at all: what was given by the calls
\* that did not fail is there or was taken, and the count is within the maximum
\* (win_semaphore.hpp:91-102).
WinTokensConserved ==
  platform = "win" =>
    /\ InitCount + given = count + taken + refused
    /\ count <= MaxCount
=============================================================================
