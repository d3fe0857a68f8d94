----------------------- MODULE SynchronisationProofs -----------------------
(***************************************************************************)
(* For any number of threads and calls: a manual reset event made of a       *)
(* semaphore loses no notification, and implements Event, resets included;    *)
(* so does an event of Windows, which also is an auto reset event; a          *)
(* semaphore loses no token, or on Windows those of the calls that fail.     *)
(***************************************************************************)
EXTENDS EventAndSemaphore, FiniteSetTheorems, TLAPS

\* Whoever resets does so after the last notification that counts.
Inv == EventTypeOK /\ SignalSticks /\ (last = "notify" => ~Resetting)

\* The invariant holds at the start.
LEMMA InvInit == EventInit => Inv
BY EventAssumption DEF EventInit, Inv, EventTypeOK, SignalSticks, Where

\* A thread takes a token and owes it, or gives it back: a manual reset event
\* stays as signaled as it was.
LEMMA TakeKeepsSignaled ==
  ASSUME EventTypeOK, NEW th \in Thread, Wake(th) PROVE Manual => Signaled' /\ Signaled
BY DEF EventTypeOK, Wake, MoveTo, Signaled

\* The invariant holds after a step of Wake or PassOn.
LEMMA TokenStep ==
  ASSUME Inv, NEW th \in Thread, Wake(th) \/ PassOn(th) PROVE Inv'
<1>1. EventTypeOK'
  <2>1. tokens' \in Nat
    <3>1. tokens \in Nat
      BY DEF Inv, EventTypeOK
    <3>2. CASE Wake(th)
      <4>1. tokens > 0 /\ tokens' = tokens - 1
        BY <3>2 DEF Wake
      <4> QED
        BY <3>1, <4>1
    <3>3. CASE PassOn(th)
      <4>1. tokens' = tokens + 1
        BY <3>3 DEF PassOn
      <4> QED
        BY <3>1, <4>1
    <3> QED
      BY <3>2, <3>3
  <2>2. where' \in [Thread -> Where]
    BY DEF Inv, EventTypeOK, Where, Wake, PassOn, MoveTo, Returns
  <2>3. result' \in [Thread -> BOOLEAN]
    BY DEF Inv, EventTypeOK, Wake, PassOn, Returns
  <2> QED
    BY <2>1, <2>2, <2>3 DEF Inv, EventTypeOK, Wake, PassOn
<1>2. Manual => Signaled'
  <2>1. CASE Wake(th)
    BY <2>1, TakeKeepsSignaled DEF Inv
  <2>2. CASE PassOn(th)
    BY <2>2 DEF Inv, EventTypeOK, PassOn, Signaled
  <2> QED
    BY <2>1, <2>2
<1>3. Resetting' => Resetting
  BY DEF Inv, EventTypeOK, Resetting, Wake, PassOn, MoveTo, Returns
<1>4. last' = last
  BY DEF Wake, PassOn
<1> QED
  BY <1>1, <1>2, <1>3, <1>4 DEF Inv, SignalSticks

\* Every step keeps the invariant.
LEMMA InvStep == Inv /\ [PosixEventNext]_eventVars => Inv'
<1> SUFFICES ASSUME Inv, [PosixEventNext]_eventVars PROVE Inv'
  OBVIOUS
<1> USE EventAssumption
<1>1. CASE Notify
  <2>1. EventTypeOK' /\ tokens' > 0
    BY <1>1 DEF Inv, EventTypeOK, Notify
  <2>2. Resetting' <=> Resetting
    BY <1>1 DEF Notify, Resetting
  <2> QED
    BY <1>1, <2>1, <2>2 DEF Inv, Notify, SignalSticks, Signaled
<1>2. ASSUME NEW th \in Thread, CallWait(th) PROVE Inv'
  <2>1. EventTypeOK'
    BY <1>2 DEF Inv, EventTypeOK, Where, CallWait, Call, MoveTo
  <2>2. Signaled => Signaled'
    BY <1>2 DEF Inv, EventTypeOK, CallWait, Call, MoveTo, Signaled
  <2>3. Resetting' => Resetting
    BY <1>2 DEF Inv, EventTypeOK, CallWait, Call, MoveTo, Resetting
  <2> QED
    BY <1>2, <2>1, <2>2, <2>3 DEF Inv, CallWait, SignalSticks
<1>3. ASSUME NEW th \in Thread, CallReset(th) PROVE Inv'
  BY <1>3 DEF Inv, EventTypeOK, Where, CallReset, Call, MoveTo, SignalSticks
<1>4. ASSUME NEW th \in Thread, Wake(th) \/ PassOn(th) PROVE Inv'
  BY <1>4, TokenStep
<1>5. ASSUME NEW th \in Thread, ReadTokens(th) \/ Drain(th) PROVE Inv'
  <2>1. EventTypeOK'
    BY <1>5 DEF Inv, EventTypeOK, Where, ReadTokens, Drain, MoveTo
  <2>2. Resetting
    BY <1>5 DEF ReadTokens, Drain, Resetting
  <2>3. last' # "notify"
    BY <1>5, <2>2 DEF Inv, ReadTokens, Drain
  <2> QED
    BY <2>1, <2>3 DEF Inv, SignalSticks
<1>6. ASSUME NEW th \in Thread, TimeOut(th) \/ Interrupted(th) PROVE Inv'
  <2>1. EventTypeOK'
    BY <1>6 DEF Inv, EventTypeOK, Where, TimeOut, Interrupted, MoveTo, Returns
  <2>2. Signaled => Signaled'
    BY <1>6 DEF Inv, EventTypeOK, TimeOut, Interrupted, MoveTo, Returns, Signaled
  <2>3. Resetting' => Resetting
    BY <1>6 DEF Inv, EventTypeOK, TimeOut, Interrupted, MoveTo, Returns, Resetting
  <2>4. last' = last
    BY <1>6 DEF TimeOut, Interrupted
  <2> QED
    BY <2>1, <2>2, <2>3, <2>4 DEF Inv, SignalSticks
<1>7. CASE UNCHANGED eventVars
  BY <1>7 DEF eventVars, Inv, EventTypeOK, SignalSticks, Signaled, Resetting
<1> QED
  BY <1>1, <1>2, <1>3, <1>4, <1>5, <1>6, <1>7 DEF PosixEventNext, Continue

\* A notification that no reset overlaps or follows is never lost.
THEOREM NotificationsStick == PosixEventSpec => []SignalSticks
<1>1. Inv => SignalSticks
  BY DEF Inv
<1> QED
  BY <1>1, InvInit, InvStep, PTL DEF PosixEventSpec

\* The threads inside a wait, and inside a reset, for Event.
Inside == {th \in Thread : where[th] \in {"waiting", "timed", "posting"}}
InReset == {th \in Thread : where[th] \in {"reading", "draining"}}

\* A call to reset() begins, goes round its loop or ends, and the event may be
\* unsignaled by it.
LEMMA ResetStep ==
  ASSUME Inv, NEW th \in Thread, CallReset(th) \/ ReadTokens(th) \/ Drain(th)
  PROVE  [Promise!Next]_Promise!vars
<1> USE DEF Inv, EventTypeOK
<1>0. Inside' = Inside /\ result' = result
  BY DEF CallReset, Call, ReadTokens, Drain, MoveTo, Inside
<1>1. CASE CallReset(th)
  <2>1. Signaled' = Signaled
    BY <1>1 DEF CallReset, Call, MoveTo, Signaled
  <2>2. InReset' = InReset \cup {th} /\ th \notin Inside \cup InReset
    BY <1>1 DEF CallReset, Call, MoveTo, Inside, InReset
  <2>3. Promise!EnterReset(th)
    BY <1>0, <2>1, <2>2 DEF Promise!EnterReset, Inside, InReset
  <2> QED
    BY <2>3 DEF Promise!Next
<1>2. CASE ReadTokens(th)
  <2>1. Signaled' = Signaled
    BY <1>2 DEF ReadTokens, MoveTo, Signaled
  <2>2. CASE tokens = 0
    <3>1. InReset' = InReset \ {th} /\ th \in InReset
      BY <1>2, <2>2 DEF ReadTokens, MoveTo, InReset
    <3>2. Promise!LeaveReset(th)
      BY <1>0, <2>1, <3>1 DEF Promise!LeaveReset, Inside, InReset
    <3> QED
      BY <3>2 DEF Promise!Next
  <2>3. CASE tokens # 0
    <3>1. InReset' = InReset
      BY <1>2, <2>3 DEF ReadTokens, MoveTo, InReset
    <3> QED
      BY <1>0, <2>1, <3>1 DEF Promise!vars, Inside, InReset
  <2> QED
    BY <2>2, <2>3
<1>3. CASE Drain(th)
  <2>1. InReset' = InReset /\ th \in InReset
    BY <1>3 DEF Drain, MoveTo, InReset
  <2>2. Signaled = TRUE
    BY <1>3 DEF Drain, Signaled
  <2>3. CASE Signaled' = TRUE
    BY <1>0, <2>1, <2>2, <2>3 DEF Promise!vars, Inside, InReset
  <2>4. CASE Signaled' = FALSE
    <3>1. Promise!Unsignal
      BY <1>0, <2>1, <2>4 DEF Promise!Unsignal, Inside, InReset
    <3> QED
      BY <3>1 DEF Promise!Next
  <2> QED
    BY <2>3, <2>4 DEF Signaled
<1> QED
  BY <1>1, <1>2, <1>3

\* A wait that does not succeed fails, and a reset that is interrupted ends.
LEMMA FailureStep ==
  ASSUME Inv, NEW th \in Thread, TimeOut(th) \/ Interrupted(th)
  PROVE  Promise!Next
<1> USE DEF Inv, EventTypeOK
<1>1. Signaled' = Signaled
  BY DEF TimeOut, Interrupted, MoveTo, Returns, Signaled
<1>2. CASE where[th] \in {"waiting", "timed"}
  <2>0. Returns(th, FALSE)
    BY <1>2 DEF TimeOut, Interrupted
  <2>1. Inside' = Inside \ {th} /\ th \in Inside /\ InReset' = InReset
    BY <1>2, <2>0 DEF MoveTo, Returns, Inside, InReset
  <2>2. result' = [result EXCEPT ![th] = FALSE]
    BY <2>0 DEF Returns
  <2>3. Promise!Fail(th)
    BY <1>1, <2>1, <2>2 DEF Promise!Fail, Inside, InReset
  <2> QED
    BY <2>3 DEF Promise!Next
<1>3. CASE where[th] = "draining"
  <2>0. MoveTo(th, "out") /\ result' = result
    BY <1>3 DEF TimeOut, Interrupted
  <2>1. InReset' = InReset \ {th} /\ th \in InReset /\ Inside' = Inside
    BY <1>3, <2>0 DEF MoveTo, Inside, InReset
  <2>3. Promise!LeaveReset(th)
    BY <1>1, <2>0, <2>1 DEF Promise!LeaveReset, Inside, InReset
  <2> QED
    BY <2>3 DEF Promise!Next
<1> QED
  BY <1>2, <1>3 DEF TimeOut, Interrupted

\* Every step is one Event allows, or changes nothing it sees.
LEMMA PromiseStep ==
  ASSUME Manual
  PROVE  Inv /\ [PosixEventNext]_eventVars => [Promise!Next]_Promise!vars
<1> SUFFICES ASSUME Inv, [PosixEventNext]_eventVars PROVE [Promise!Next]_Promise!vars
  OBVIOUS
<1> USE DEF Inv, EventTypeOK
<1>1. CASE Notify
  <2>1. Signaled' = TRUE
    BY <1>1 DEF Notify, Signaled
  <2>2. Promise!Notify
    BY <1>1, <2>1 DEF Notify, Promise!Notify
  <2> QED
    BY <2>2 DEF Promise!Next
<1>2. ASSUME NEW th \in Thread, CallWait(th) PROVE Promise!Enter(th)
  <2>1. Signaled' = Signaled
    BY <1>2 DEF CallWait, Call, MoveTo, Signaled
  <2>2. Inside' = Inside \cup {th} /\ InReset' = InReset /\ th \notin Inside \cup InReset
    BY <1>2 DEF CallWait, Call, MoveTo, Inside, InReset
  <2>3. result' = result
    BY <1>2 DEF CallWait, Call
  <2> QED
    BY <2>1, <2>2, <2>3 DEF Promise!Enter, Inside, InReset
<1>3. ASSUME NEW th \in Thread, Wake(th) PROVE UNCHANGED Promise!vars
  <2>1. Signaled' = Signaled
    BY <1>3 DEF Wake, MoveTo, Signaled
  <2>2. Inside' = Inside /\ InReset' = InReset
    BY <1>3 DEF Wake, MoveTo, Inside, InReset
  <2>3. result' = result
    BY <1>3 DEF Wake
  <2> QED
    BY <2>1, <2>2, <2>3 DEF Promise!vars, Inside, InReset
<1>4. ASSUME NEW th \in Thread, PassOn(th) PROVE Promise!Succeed(th)
  <2>1. Signaled = TRUE /\ Signaled' = TRUE
    BY <1>4 DEF PassOn, Signaled
  <2>2. Inside' = Inside \ {th} /\ th \in Inside /\ InReset' = InReset
    BY <1>4 DEF PassOn, MoveTo, Returns, Inside, InReset
  <2>3. result' = [result EXCEPT ![th] = TRUE]
    BY <1>4 DEF PassOn, Returns
  <2> QED
    BY <2>1, <2>2, <2>3, EventAssumption DEF Promise!Succeed, Inside, InReset
<1>5. ASSUME NEW th \in Thread, TimeOut(th) \/ Interrupted(th) PROVE Promise!Next
  BY <1>5, FailureStep
<1>6. ASSUME NEW th \in Thread, CallReset(th) \/ ReadTokens(th) \/ Drain(th)
      PROVE  [Promise!Next]_Promise!vars
  BY <1>6, ResetStep
<1>7. CASE UNCHANGED eventVars
  BY <1>7 DEF eventVars, Promise!vars, Signaled
<1> QED
  BY <1>1, <1>2, <1>3, <1>4, <1>5, <1>6, <1>7 DEF PosixEventNext, Continue, Promise!Next

\* A manual reset event is the one Event describes: whatever the waits, timeouts,
\* interruptions and resets that interleave, a wait succeeds only while the event
\* is signaled, and only a reset unsignals it.
THEOREM ImplementsManualResetEvent ==
  ASSUME Manual PROVE PosixEventSpec => ImplementsEvent
<1>1. EventInit => Promise!Init
  <2> SUFFICES ASSUME EventInit PROVE Promise!Init
    OBVIOUS
  <2>1. Signaled \in BOOLEAN /\ Inside = {} /\ InReset = {}
    BY DEF EventInit, Signaled, Inside, InReset
  <2> QED
    BY <2>1 DEF EventInit, Promise!Init, Inside, InReset
<1>2. Inv /\ [PosixEventNext]_eventVars => [Promise!Next]_Promise!vars
  BY PromiseStep
<1> QED
  BY <1>1, <1>2, InvInit, InvStep, PTL DEF PosixEventSpec, ImplementsEvent, Promise!Spec

-----------------------------------------------------------------------------
(* Windows. *)

\* The state of the system's event, which nobody takes and gives back.
WinInv ==
  /\ Inv
  /\ tokens \in {0, 1}
  /\ \A th \in Thread : where[th] # "posting"

\* It is signaled or not, all at once.
LEMMA WinSignaled == ASSUME WinInv PROVE Signaled <=> tokens = 1
BY DEF WinInv, Signaled

\* The invariant holds after every step on Windows.
LEMMA WinInvStep == WinInv /\ [WinEventNext]_eventVars => WinInv'
<1> SUFFICES ASSUME WinInv, [WinEventNext]_eventVars PROVE WinInv'
  OBVIOUS
<1> USE EventAssumption
<1>1. CASE WinNotify
  <2>1. EventTypeOK' /\ tokens' = 1 /\ where' = where
    BY <1>1 DEF WinInv, Inv, EventTypeOK, WinNotify
  <2>2. Resetting' <=> Resetting
    BY <1>1 DEF WinNotify, Resetting
  <2> QED
    BY <1>1, <2>1, <2>2 DEF WinInv, Inv, WinNotify, SignalSticks, Signaled
<1>2. ASSUME NEW th \in Thread, CallWait(th) \/ TimeOut(th) \/ WinInterrupted(th) PROVE WinInv'
  <2>1. EventTypeOK' /\ tokens' = tokens /\ last' = last
    <3>1. CASE CallWait(th)
      BY <3>1 DEF WinInv, Inv, EventTypeOK, Where, CallWait, Call, MoveTo
    <3>2. CASE TimeOut(th) \/ WinInterrupted(th)
      BY <3>2 DEF WinInv, Inv, EventTypeOK, Where, TimeOut, WinInterrupted, MoveTo, Returns
    <3> QED
      BY <1>2, <3>1, <3>2
  <2>2. (\A t \in Thread : where'[t] # "posting") /\ (Resetting' => Resetting)
    BY <1>2 DEF WinInv, Inv, EventTypeOK, CallWait, Call, TimeOut, WinInterrupted, MoveTo, Returns,
         Resetting
  <2>3. Signaled' <=> Signaled
    BY <2>1, <2>2 DEF WinInv, Signaled
  <2> QED
    BY <2>1, <2>2, <2>3 DEF WinInv, Inv, SignalSticks
<1>3. ASSUME NEW th \in Thread, WinWake(th) PROVE WinInv'
  <2>1. EventTypeOK' /\ tokens' = (IF Manual THEN 1 ELSE 0) /\ last' = last
    BY <1>3 DEF WinInv, Inv, EventTypeOK, Where, WinWake, MoveTo, Returns
  <2>2. (\A t \in Thread : where'[t] # "posting") /\ (Resetting' => Resetting)
    BY <1>3 DEF WinInv, Inv, EventTypeOK, WinWake, MoveTo, Returns, Resetting
  <2>3. Manual => Signaled'
    BY <2>1 DEF Signaled
  <2> QED
    BY <2>1, <2>2, <2>3 DEF WinInv, Inv, SignalSticks
<1>4. ASSUME NEW th \in Thread, CallReset(th) \/ ResetEvent(th) \/ ResetReturned(th) PROVE WinInv'
  <2>1. EventTypeOK' /\ tokens' \in {0, 1}
    BY <1>4 DEF WinInv, Inv, EventTypeOK, Where, CallReset, Call, ResetEvent, ResetReturned, MoveTo
  <2>2. \A t \in Thread : where'[t] # "posting"
    BY <1>4 DEF WinInv, Inv, EventTypeOK, CallReset, Call, ResetEvent, ResetReturned, MoveTo
  <2>3. last' # "notify"
    <3>1. CASE CallReset(th)
      BY <3>1 DEF CallReset
    <3>2. CASE ResetEvent(th) \/ ResetReturned(th)
      <4>1. Resetting
        BY <3>2 DEF ResetEvent, ResetReturned, Resetting
      <4> QED
        BY <3>2, <4>1 DEF WinInv, Inv, ResetEvent, ResetReturned
    <3> QED
      BY <1>4, <3>1, <3>2
  <2> QED
    BY <2>1, <2>2, <2>3 DEF WinInv, Inv, SignalSticks
<1>5. CASE UNCHANGED eventVars
  BY <1>5 DEF eventVars, WinInv, Inv, EventTypeOK, SignalSticks, Signaled, Resetting
<1> QED
  BY <1>1, <1>2, <1>3, <1>4, <1>5 DEF WinEventNext, WinContinue

\* The invariant holds at the start.
LEMMA WinInvInit == EventInit => WinInv
BY InvInit DEF EventInit, WinInv

\* Every step on Windows is one Event allows, or changes nothing it sees.
LEMMA WinPromiseStep == WinInv /\ [WinEventNext]_eventVars => [Promise!Next]_Promise!vars
<1> SUFFICES ASSUME WinInv, [WinEventNext]_eventVars PROVE [Promise!Next]_Promise!vars
  OBVIOUS
<1>0. WinInv' /\ Signaled = (tokens = 1) /\ Signaled' = (tokens' = 1)
  <2>1. WinInv'
    BY WinInvStep
  <2> QED
    BY <2>1 DEF WinInv, Signaled
<1> USE DEF WinInv, Inv, EventTypeOK
<1>1. CASE WinNotify
  <2>1. Promise!Notify
    BY <1>0, <1>1 DEF WinNotify, Promise!Notify
  <2> QED
    BY <2>1 DEF Promise!Next
<1>2. ASSUME NEW th \in Thread, CallWait(th) PROVE Promise!Enter(th)
  <2>1. Inside' = Inside \cup {th} /\ InReset' = InReset /\ th \notin Inside \cup InReset
    BY <1>2 DEF CallWait, Call, MoveTo, Inside, InReset
  <2> QED
    BY <1>0, <1>2, <2>1 DEF CallWait, Call, Promise!Enter, Inside, InReset
<1>3. ASSUME NEW th \in Thread, WinWake(th) PROVE Promise!Succeed(th)
  <2>1. Inside' = Inside \ {th} /\ th \in Inside /\ InReset' = InReset
    BY <1>3 DEF WinWake, MoveTo, Returns, Inside, InReset
  <2>2. result' = [result EXCEPT ![th] = TRUE] /\ tokens = 1
    BY <1>3 DEF WinWake, Returns
  <2>3. Signaled' = Manual
    BY <1>0, <1>3, EventAssumption DEF WinWake
  <2> QED
    BY <1>0, <2>1, <2>2, <2>3 DEF Promise!Succeed, Inside, InReset
<1>4. ASSUME NEW th \in Thread, TimeOut(th) \/ WinInterrupted(th) PROVE Promise!Fail(th)
  <2>1. Inside' = Inside \ {th} /\ th \in Inside /\ InReset' = InReset
    BY <1>4 DEF TimeOut, WinInterrupted, MoveTo, Returns, Inside, InReset
  <2>2. result' = [result EXCEPT ![th] = FALSE] /\ tokens' = tokens
    BY <1>4 DEF TimeOut, WinInterrupted, Returns
  <2> QED
    BY <1>0, <2>1, <2>2 DEF Promise!Fail, Inside, InReset
<1>5. ASSUME NEW th \in Thread, CallReset(th) PROVE Promise!EnterReset(th)
  <2>1. InReset' = InReset \cup {th} /\ th \notin Inside \cup InReset /\ Inside' = Inside
    BY <1>5 DEF CallReset, Call, MoveTo, Inside, InReset
  <2> QED
    BY <1>0, <1>5, <2>1 DEF CallReset, Call, Promise!EnterReset, Inside, InReset
<1>6. ASSUME NEW th \in Thread, ResetEvent(th) PROVE Promise!Unsignal
  <2>1. InReset' = InReset /\ th \in InReset /\ Inside' = Inside
    BY <1>6 DEF ResetEvent, MoveTo, Inside, InReset
  <2>2. tokens' = 0
    BY <1>6 DEF ResetEvent
  <2>3. Signaled' = FALSE
    BY <1>0, <2>2 DEF Signaled
  <2> QED
    BY <1>0, <1>6, <2>1, <2>3 DEF ResetEvent, Promise!Unsignal, Inside, InReset
<1>7. ASSUME NEW th \in Thread, ResetReturned(th) PROVE Promise!LeaveReset(th)
  <2>1. InReset' = InReset \ {th} /\ th \in InReset /\ Inside' = Inside
    BY <1>7 DEF ResetReturned, MoveTo, Inside, InReset
  <2> QED
    BY <1>0, <1>7, <2>1 DEF ResetReturned, Promise!LeaveReset, Inside, InReset
<1>8. CASE UNCHANGED eventVars
  BY <1>0, <1>8 DEF eventVars, Promise!vars
<1> QED
  BY <1>1, <1>2, <1>3, <1>4, <1>5, <1>6, <1>7, <1>8 DEF WinEventNext, WinContinue, Promise!Next

\* An event of Windows is the one Event describes, with either reset policy.
THEOREM WinImplementsEvent == WinEventSpec => ImplementsEvent
<1>1. EventInit => Promise!Init
  BY DEF EventInit, Promise!Init, Signaled
<1> QED
  BY <1>1, WinInvInit, WinInvStep, WinPromiseStep, PTL
     DEF WinEventSpec, ImplementsEvent, Promise!Spec

\* On Windows too, a notification that no reset overlaps or follows is never lost.
THEOREM WinNotificationsStick == WinEventSpec => []SignalSticks
<1>1. WinInv => SignalSticks
  BY DEF WinInv, Inv
<1> QED
  BY <1>1, WinInvInit, WinInvStep, PTL DEF WinEventSpec

-----------------------------------------------------------------------------
(* The semaphore of either platform.                                          *)

SemaphoreTypes ==
  /\ count \in Nat /\ given \in Nat /\ refused \in Nat /\ taken \in Nat
  /\ left \in [Thread -> Nat]
  /\ IsFiniteSet(Semaphore!ToPost)

\* The instance has a Cardinality of its own, which is the same.
LEMMA SameCardinality ==
  ASSUME NEW S
  PROVE  Semaphore!Cardinality(S) = Cardinality(S)
BY DEF Cardinality, Semaphore!Cardinality

LEMMA SemaphoreInit ==
  ASSUME MaxCount \in Nat, InitCount \in Nat, Semaphore!Init
  PROVE  /\ SemaphoreTypes /\ TokensConserved
         /\ InitCount <= MaxCount => WinTokensConserved
<1>1. /\ count = InitCount /\ given = 0 /\ refused = 0 /\ taken = 0
      /\ left = [th \in Thread |-> 0]
  BY DEF Semaphore!Init
<1>2. Semaphore!ToPost = {}
  BY <1>1 DEF Semaphore!ToPost
<1>3. IsFiniteSet(Semaphore!ToPost) /\ Cardinality(Semaphore!ToPost) = 0
  BY <1>2, FS_EmptySet
<1>4. SemaphoreTypes
  BY <1>1, <1>3 DEF SemaphoreTypes
<1>5. TokensConserved
  BY <1>1, <1>3, SameCardinality DEF TokensConserved, Semaphore!TokensConserved
<1>6. InitCount <= MaxCount => WinTokensConserved
  BY <1>1 DEF WinTokensConserved, Semaphore!WinTokensConserved
<1> QED
  BY <1>4, <1>5, <1>6

\* A call of notify(n) has n posts to do.
LEMMA NotifyAddsPosts ==
  ASSUME SemaphoreTypes, MaxCount \in Nat,
         NEW th \in Thread, NEW n \in 1..MaxCount, Semaphore!Notify(th, n)
  PROVE  /\ IsFiniteSet(Semaphore!ToPost')
         /\ Cardinality(Semaphore!ToPost') = Cardinality(Semaphore!ToPost) + n
<1> DEFINE New == {th} \X (1..n)
           A == Semaphore!ToPost
           B == Semaphore!ToPost'
<1>1. left[th] = 0 /\ left' = [left EXCEPT ![th] = n] /\ n \in Nat /\ n >= 1
  BY DEF Semaphore!Notify, Semaphore!Notification, Semaphore!Outside
<1>2. B = A \cup New
  BY <1>1 DEF SemaphoreTypes, Semaphore!ToPost
<1>3. A \cap New = {}
  BY <1>1 DEF Semaphore!ToPost
<1>4. IsFiniteSet(1..n) /\ Cardinality(1..n) = n
  BY <1>1, FS_Interval
<1>5. IsFiniteSet({th}) /\ Cardinality({th}) = 1
  BY FS_Singleton
<1>6. IsFiniteSet(New) /\ Cardinality(New) = 1 * n
  BY <1>4, <1>5, FS_Product
<1>7. IsFiniteSet(A) /\ Cardinality(A) \in Nat
  BY FS_CardinalityType DEF SemaphoreTypes
<1>8. /\ IsFiniteSet(A \cup New)
      /\ Cardinality(A \cup New) = Cardinality(A) + Cardinality(New) - Cardinality(A \cap New)
  BY <1>6, <1>7, FS_Union
<1>9. Cardinality(A \cap New) = 0
  BY <1>3, FS_EmptySet
<1> QED
  BY <1>1, <1>2, <1>6, <1>7, <1>8, <1>9

\* A post is one of them.
LEMMA PostRemovesOne ==
  ASSUME SemaphoreTypes, NEW th \in Thread, Semaphore!Post(th)
  PROVE  /\ IsFiniteSet(Semaphore!ToPost')
         /\ Cardinality(Semaphore!ToPost') = Cardinality(Semaphore!ToPost) - 1
<1> DEFINE A == Semaphore!ToPost
           B == Semaphore!ToPost'
<1>1. left[th] \in Nat \ {0} /\ left' = [left EXCEPT ![th] = left[th] - 1]
  BY DEF Semaphore!Post, SemaphoreTypes
<1>2. <<th, left[th]>> \in A
  BY <1>1 DEF Semaphore!ToPost
<1>3. B = A \ {<<th, left[th]>>}
  <2>1. \A i : i \in 1..(left[th] - 1) <=> i \in 1..left[th] /\ i # left[th]
    BY <1>1
  <2> QED
    BY <1>1, <2>1 DEF SemaphoreTypes, Semaphore!ToPost
<1> QED
  BY <1>2, <1>3, FS_RemoveElement DEF SemaphoreTypes

\* A step keeps what the semaphore conserves, on the platform it is of.
LEMMA SemaphoreStep ==
  ASSUME MaxCount \in Nat, InitCount \in Nat, SemaphoreTypes, [Semaphore!Next]_Semaphore!vars
  PROVE  /\ SemaphoreTypes'
         /\ TokensConserved => TokensConserved'
         /\ WinTokensConserved => WinTokensConserved'
<1> DEFINE k == Cardinality(Semaphore!ToPost)
           k1 == Cardinality(Semaphore!ToPost')
           Goal == /\ SemaphoreTypes'
                   /\ TokensConserved => TokensConserved'
                   /\ WinTokensConserved => WinTokensConserved'
<1>t. /\ count \in Nat /\ given \in Nat /\ refused \in Nat /\ taken \in Nat
      /\ left \in [Thread -> Nat]
      /\ IsFiniteSet(Semaphore!ToPost) /\ k \in Nat
  BY FS_CardinalityType DEF SemaphoreTypes
<1>c. ASSUME count' \in Nat, given' \in Nat, refused' \in Nat, taken' \in Nat,
             left' \in [Thread -> Nat], IsFiniteSet(Semaphore!ToPost'), platform' = platform,
             platform = "posix" /\ InitCount + given = count + taken + k
               => InitCount + given' = count' + taken' + k1,
             platform = "win" /\ InitCount + given = count + taken + refused /\ count <= MaxCount
               => InitCount + given' = count' + taken' + refused' /\ count' <= MaxCount
      PROVE  Goal
  <2>1. SemaphoreTypes'
    BY <1>c DEF SemaphoreTypes
  <2>2. TokensConserved => TokensConserved'
    BY <1>c, SameCardinality DEF TokensConserved, Semaphore!TokensConserved
  <2>3. WinTokensConserved => WinTokensConserved'
    BY <1>c DEF WinTokensConserved, Semaphore!WinTokensConserved
  <2> QED
    BY <2>1, <2>2, <2>3
<1>u. ASSUME UNCHANGED left PROVE IsFiniteSet(Semaphore!ToPost') /\ k1 = k
  <2>1. Semaphore!ToPost' = Semaphore!ToPost
    BY <1>u DEF Semaphore!ToPost
  <2> QED
    BY <1>t, <2>1
<1>1. ASSUME NEW th \in Thread, Semaphore!WaitStep(th) PROVE Goal
  <2>1. UNCHANGED <<platform, left, given, refused>>
    BY <1>1 DEF Semaphore!WaitStep, Semaphore!CallWait, Semaphore!Take, Semaphore!GiveUp
  <2>2. \/ UNCHANGED <<count, taken>>
        \/ count > 0 /\ count' = count - 1 /\ taken' = taken + 1
    BY <1>1 DEF Semaphore!WaitStep, Semaphore!CallWait, Semaphore!Take, Semaphore!GiveUp
  <2>3. IsFiniteSet(Semaphore!ToPost') /\ k1 = k
    BY <1>u, <2>1
  <2> HIDE DEF k, k1, Goal
  <2>4. /\ count' \in Nat /\ taken' \in Nat /\ count' <= count
        /\ count' + taken' = count + taken
    BY <1>t, <2>1, <2>2
  <2>5. InitCount + given = count + taken + k => InitCount + given' = count' + taken' + k1
    BY <1>t, <2>1, <2>3, <2>4
  <2>6. InitCount + given = count + taken + refused /\ count <= MaxCount
          => InitCount + given' = count' + taken' + refused' /\ count' <= MaxCount
    <3>1. given' = given /\ refused' = refused
      BY <2>1
    <3>2. InitCount + given = count + taken + refused
            => InitCount + given' = count' + taken' + refused'
      BY <1>t, <2>4, <3>1
    <3>3. count <= MaxCount => count' <= MaxCount
      BY <1>t, <2>4
    <3> QED
      BY <3>2, <3>3
  <2> QED
    BY <1>t, <1>c, <2>1, <2>3, <2>4, <2>5, <2>6
<1>2. ASSUME NEW th \in Thread, Semaphore!Post(th) PROVE Goal
  <2>1. /\ count' = count + 1 /\ UNCHANGED <<platform, given, refused, taken>>
        /\ left' \in [Thread -> Nat] /\ platform = "posix"
    BY <1>t, <1>2 DEF Semaphore!Post
  <2>2. IsFiniteSet(Semaphore!ToPost') /\ k1 = k - 1
    BY <1>2, PostRemovesOne
  <2> HIDE DEF k, k1, Goal
  <2> QED
    BY <1>t, <1>c, <2>1, <2>2
<1>3. ASSUME NEW th \in Thread, NEW n \in 1..MaxCount, Semaphore!Notify(th, n) PROVE Goal
  <2>1. /\ n \in Nat /\ given' = given + n /\ UNCHANGED <<platform, count, refused, taken>>
        /\ left' \in [Thread -> Nat] /\ platform = "posix"
    BY <1>t, <1>3 DEF Semaphore!Notify, Semaphore!Notification
  <2>2. IsFiniteSet(Semaphore!ToPost') /\ k1 = k + n
    BY <1>3, NotifyAddsPosts
  <2> HIDE DEF k, k1, Goal
  <2> QED
    BY <1>t, <1>c, <2>1, <2>2
<1>4. ASSUME NEW th \in Thread, NEW n \in 1..MaxCount,
             Semaphore!WinNotify(th, n) \/ Semaphore!WinNotifyFails(th, n)
      PROVE  Goal
  <2>1. n \in Nat /\ given' = given + n /\ UNCHANGED <<platform, taken, left>> /\ platform = "win"
    BY <1>4 DEF Semaphore!WinNotify, Semaphore!WinNotifyFails, Semaphore!Notification
  <2>2. \/ count + n <= MaxCount /\ count' = count + n /\ refused' = refused
        \/ count' = count /\ refused' = refused + n
    BY <1>4 DEF Semaphore!WinNotify, Semaphore!WinNotifyFails
  <2>3. IsFiniteSet(Semaphore!ToPost') /\ k1 = k
    BY <1>u, <2>1
  <2> HIDE DEF k, k1, Goal
  <2> QED
    BY <1>t, <1>c, <2>1, <2>2, <2>3
<1>5. ASSUME UNCHANGED Semaphore!vars PROVE Goal
  <2>1. UNCHANGED <<platform, count, left, given, refused, taken>>
    BY <1>5 DEF Semaphore!vars
  <2>2. IsFiniteSet(Semaphore!ToPost') /\ k1 = k
    BY <1>u, <2>1
  <2> HIDE DEF k, k1, Goal
  <2>3. InitCount + given = count + taken + k => InitCount + given' = count' + taken' + k1
    BY <2>1, <2>2
  <2>4. InitCount + given = count + taken + refused /\ count <= MaxCount
          => InitCount + given' = count' + taken' + refused' /\ count' <= MaxCount
    BY <2>1
  <2>5. /\ count' \in Nat /\ given' \in Nat /\ refused' \in Nat /\ taken' \in Nat
        /\ left' \in [Thread -> Nat]
    BY <1>t, <2>1
  <2>6. platform' = platform
    BY <2>1
  <2>7. IsFiniteSet(Semaphore!ToPost')
    BY <2>2
  <2> QED
    BY <1>c, <2>3, <2>4, <2>5, <2>6, <2>7
<1> QED
  BY <1>1, <1>2, <1>3, <1>4, <1>5 DEF Semaphore!Next

\* What was given to a semaphore of POSIX is there, was taken or is yet to be posted, however
\* the posts of several calls, the waits and the timeouts follow one another.
THEOREM TokensAreConserved ==
  ASSUME MaxCount \in Nat, InitCount \in Nat
  PROVE  Semaphore!Spec => []TokensConserved
<1>1. Semaphore!Init => SemaphoreTypes /\ TokensConserved
  BY SemaphoreInit
<1>2. SemaphoreTypes /\ TokensConserved /\ [Semaphore!Next]_Semaphore!vars
        => SemaphoreTypes' /\ TokensConserved'
  BY SemaphoreStep
<1> QED
  BY <1>1, <1>2, PTL DEF Semaphore!Spec

\* What was given to a semaphore of Windows, but by the calls whose ReleaseSemaphore failed, is
\* there or was taken, and there is never more than the maximum; CreateSemaphore sees to it
\* that there is not at first.
THEOREM WinTokensAreConserved ==
  ASSUME MaxCount \in Nat, InitCount \in 0..MaxCount
  PROVE  Semaphore!Spec => []WinTokensConserved
<1>1. Semaphore!Init => SemaphoreTypes /\ WinTokensConserved
  BY SemaphoreInit
<1>2. SemaphoreTypes /\ WinTokensConserved /\ [Semaphore!Next]_Semaphore!vars
        => SemaphoreTypes' /\ WinTokensConserved'
  BY SemaphoreStep
<1> QED
  BY <1>1, <1>2, PTL DEF Semaphore!Spec
=============================================================================
