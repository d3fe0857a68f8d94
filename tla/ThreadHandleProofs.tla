------------------------- MODULE ThreadHandleProofs -------------------------
(***************************************************************************)
(* For any number of thread objects and threads, on both platforms: launchers *)
(* are freed once, an object stands for a thread that can be joined and no    *)
(* other does, only terminate() loses a thread, and priorities are read back  *)
(* as they were set.                                                       *)
(***************************************************************************)
EXTENDS WinThread, TLAPS

\* What main knows of the thread it is creating.
Creation ==
  /\ pc \in {"creating", "configuring", "created", "failed"} => attempts \in Thread /\ self \notin objects
  /\ pc = "creating" => thread[attempts] = "none" /\ handle[self] = NoThread
  /\ pc \in {"configuring", "created"} => thread[attempts] # "none" /\ handle[self] = attempts
  /\ pc = "failed" => thread[attempts] = "none" /\ handle[self] \notin Thread
  /\ \A t \in Thread : thread[t] # "none" => t <= attempts
  /\ \A t \in Thread : attached[t] # "joinable" => thread[t] # "none"
  /\ \A t \in Thread : t > attempts => freed[t] = 0
  /\ \A h \in Handle : h \notin objects /\ handle[h] # NoThread => h = self

Inv == TypeOK /\ Creation /\ LauncherFreedOnce /\ HandlesAreExclusive /\ OnlyTerminateLeaks

\* A thread_priority is a priority of the system, above 0.
LEMMA PrioritiesAreNumbers ==
  ASSUME NEW prio \in thread_priority
  PROVE  posix_thread_priority(prio) \in Nat
<1>1. MaxPriority - MinPriority \in Nat /\ MinPriority \in Nat
  BY ThreadAssumption
<1>2. prio * (MaxPriority - MinPriority) \in Nat
  BY <1>1 DEF thread_priority
<1> QED
  BY <1>1, <1>2 DEF posix_thread_priority

\* The priorities of Windows are integers.
LEMMA WinPrioritiesAreNumbers ==
  ASSUME NEW prio \in thread_priority
  PROVE  win_thread_priority(prio) \in Int
<1>1. prio \in {0, 1, 2, 3, 4, 5}
  BY DEF thread_priority
<1> QED
  BY <1>1 DEF win_thread_priority

\* The invariant holds at the start.
LEMMA InvInit == Init => Inv
<1> SUFFICES ASSUME Init PROVE Inv
  OBVIOUS
<1> USE ThreadAssumption DEF Init, Thread, NoThread, Dangling
<1>1. TypeOK
  BY DEF TypeOK
<1>2. Creation
  BY DEF Creation
<1>3. LauncherFreedOnce /\ HandlesAreExclusive /\ OnlyTerminateLeaks
  BY DEF LauncherFreedOnce, HandlesAreExclusive, OnlyTerminateLeaks
<1> QED
  BY <1>1, <1>2, <1>3 DEF Inv

\* The steps that are the same on both platforms.
SharedStep ==
  \/ ReleaseLauncher \/ FreeLauncher
  \/ \E h \in Handle :
       \/ Construct(h) \/ Launch(h) \/ Destroy(h) \/ Join(h) \/ Detach(h)
       \/ \E other \in Handle : MoveConstruct(h, other) \/ MoveAssign(h, other)
  \/ \E t \in Thread : ThreadStep(t)
  \/ UNCHANGED vars

\* They keep the invariant.
LEMMA SharedSteps == Inv /\ SharedStep => Inv'
<1> SUFFICES ASSUME Inv, SharedStep PROVE Inv'
  OBVIOUS
<1> USE ThreadAssumption DEF Thread, NoThread, Dangling, mainVars, threadVars, Abort, joinable
<1>1. ASSUME NEW h \in Handle, Construct(h) PROVE Inv'
  <2>1. TypeOK'
    BY <1>1 DEF Construct, Inv, TypeOK, Creation
  <2>2. Creation'
    BY <1>1 DEF Construct, Inv, Creation, TypeOK
  <2>3. LauncherFreedOnce'
    BY <1>1 DEF Construct, Inv, LauncherFreedOnce, TypeOK, Creation
  <2>4. HandlesAreExclusive'
    BY <1>1 DEF Construct, Inv, HandlesAreExclusive, TypeOK, Creation
  <2>5. OnlyTerminateLeaks'
    BY <1>1 DEF Construct, Inv, OnlyTerminateLeaks, TypeOK, Creation, HandlesAreExclusive
  <2> QED
    BY <2>1, <2>2, <2>3, <2>4, <2>5 DEF Inv
<1>2. ASSUME NEW h \in Handle, Launch(h) PROVE Inv'
  <2>1. TypeOK'
    BY <1>2 DEF Launch, Inv, TypeOK, Creation
  <2>2. Creation'
    BY <1>2 DEF Launch, Inv, Creation, TypeOK
  <2>3. LauncherFreedOnce'
    BY <1>2 DEF Launch, Inv, LauncherFreedOnce, TypeOK, Creation
  <2>4. HandlesAreExclusive'
    BY <1>2 DEF Launch, Inv, HandlesAreExclusive, TypeOK, Creation
  <2>5. OnlyTerminateLeaks'
    BY <1>2 DEF Launch, Inv, OnlyTerminateLeaks, TypeOK, Creation, HandlesAreExclusive
  <2> QED
    BY <2>1, <2>2, <2>3, <2>4, <2>5 DEF Inv
<1>3. ASSUME ReleaseLauncher PROVE Inv'
  <2>1. TypeOK'
    BY <1>3 DEF ReleaseLauncher, Inv, TypeOK, Creation
  <2>2. Creation'
    BY <1>3 DEF ReleaseLauncher, Inv, Creation, TypeOK
  <2>3. LauncherFreedOnce'
    BY <1>3 DEF ReleaseLauncher, Inv, LauncherFreedOnce, TypeOK, Creation
  <2>4. HandlesAreExclusive'
    BY <1>3 DEF ReleaseLauncher, Inv, HandlesAreExclusive, TypeOK, Creation
  <2>5. OnlyTerminateLeaks'
    BY <1>3 DEF ReleaseLauncher, Inv, OnlyTerminateLeaks, TypeOK, Creation, HandlesAreExclusive
  <2> QED
    BY <2>1, <2>2, <2>3, <2>4, <2>5 DEF Inv
<1>4. ASSUME FreeLauncher PROVE Inv'
  <2>1. TypeOK'
    BY <1>4 DEF FreeLauncher, Inv, TypeOK, Creation
  <2>2. Creation'
    BY <1>4 DEF FreeLauncher, Inv, Creation, TypeOK
  <2>3. LauncherFreedOnce'
    BY <1>4 DEF FreeLauncher, Inv, LauncherFreedOnce, TypeOK, Creation
  <2>4. HandlesAreExclusive'
    BY <1>4 DEF FreeLauncher, Inv, HandlesAreExclusive, TypeOK, Creation
  <2>5. OnlyTerminateLeaks'
    BY <1>4 DEF FreeLauncher, Inv, OnlyTerminateLeaks, TypeOK, Creation, HandlesAreExclusive
  <2> QED
    BY <2>1, <2>2, <2>3, <2>4, <2>5 DEF Inv
<1>5. ASSUME NEW h \in Handle, Destroy(h) PROVE Inv'
  <2>1. TypeOK'
    BY <1>5 DEF Destroy, Inv, TypeOK, Creation
  <2>2. Creation'
    BY <1>5 DEF Destroy, Inv, Creation, TypeOK
  <2>3. LauncherFreedOnce'
    BY <1>5 DEF Destroy, Inv, LauncherFreedOnce, TypeOK, Creation
  <2>4. HandlesAreExclusive'
    BY <1>5 DEF Destroy, Inv, HandlesAreExclusive, TypeOK, Creation
  <2>5. OnlyTerminateLeaks'
    BY <1>5 DEF Destroy, Inv, OnlyTerminateLeaks, TypeOK, Creation, HandlesAreExclusive
  <2> QED
    BY <2>1, <2>2, <2>3, <2>4, <2>5 DEF Inv
<1>6. ASSUME NEW h \in Handle, NEW other \in Handle, MoveConstruct(h, other) PROVE Inv'
  <2>1. TypeOK'
    BY <1>6 DEF MoveConstruct, Inv, TypeOK, Creation
  <2>2. Creation'
    BY <1>6 DEF MoveConstruct, Inv, Creation, TypeOK
  <2>3. LauncherFreedOnce'
    BY <1>6 DEF MoveConstruct, Inv, LauncherFreedOnce, TypeOK, Creation
  <2>4. HandlesAreExclusive'
    <3>1. h # other /\ UNCHANGED <<thread, attached>>
      BY <1>6 DEF MoveConstruct
    <3>2. \A g \in Handle :
            handle'[g] = IF g = other THEN 0 ELSE IF g = h THEN handle[other] ELSE handle[g]
      BY <1>6, <3>1 DEF MoveConstruct, Inv, TypeOK
    <3>3. \A f \in Handle : handle'[f] \in Thread =>
            \E g \in Handle : /\ handle'[f] = handle[g]
                              /\ g = IF f = h THEN other ELSE f
      BY <3>2, <1>6
    <3>4. ASSUME NEW f \in Handle, NEW g \in Handle, handle'[f] \in Thread,
                 handle'[g] = handle'[f]
          PROVE  g = f
      BY <3>1, <3>2, <3>3, <3>4, <1>6 DEF Inv, HandlesAreExclusive
    <3> QED
      BY <3>1, <3>3, <3>4 DEF Inv, HandlesAreExclusive
  <2>5. OnlyTerminateLeaks'
    BY <1>6 DEF MoveConstruct, Inv, OnlyTerminateLeaks, TypeOK, Creation, HandlesAreExclusive
  <2> QED
    BY <2>1, <2>2, <2>3, <2>4, <2>5 DEF Inv
<1>7. ASSUME NEW h \in Handle, NEW other \in Handle, MoveAssign(h, other) PROVE Inv'
  <2>1. TypeOK'
    BY <1>7 DEF MoveAssign, Inv, TypeOK, Creation
  <2>2. Creation'
    BY <1>7 DEF MoveAssign, Inv, Creation, TypeOK
  <2>3. LauncherFreedOnce'
    BY <1>7 DEF MoveAssign, Inv, LauncherFreedOnce, TypeOK, Creation
  <2>4. HandlesAreExclusive'
    <3>1. CASE joinable(h)
      BY <1>7, <3>1 DEF MoveAssign, Inv, HandlesAreExclusive
    <3>2. CASE ~joinable(h)
      <4>1. h # other /\ UNCHANGED <<thread, attached>>
        BY <1>7, <3>2 DEF MoveAssign
      <4>2. handle' = [handle EXCEPT ![h] = handle[other], ![other] = 0]
        BY <1>7, <3>2 DEF MoveAssign
      <4>3. \A g \in Handle :
              handle'[g] = IF g = h THEN handle[other] ELSE IF g = other THEN 0 ELSE handle[g]
        BY <4>1, <4>2 DEF Inv, TypeOK
      <4>4. \A f \in Handle : handle'[f] \in Thread =>
              \E g \in Handle : /\ handle'[f] = handle[g]
                                /\ g = IF f = h THEN other ELSE f
        BY <4>3, <1>7
      <4>5. ASSUME NEW f \in Handle, NEW g \in Handle, handle'[f] \in Thread,
                   handle'[g] = handle'[f]
            PROVE  g = f
        BY <4>1, <4>3, <4>4, <4>5, <1>7 DEF Inv, HandlesAreExclusive
      <4> QED
        BY <4>1, <4>4, <4>5 DEF Inv, HandlesAreExclusive
    <3> QED
      BY <3>1, <3>2
  <2>5. OnlyTerminateLeaks'
    <3>1. h # other /\ UNCHANGED <<thread, attached, cancelled>>
      BY <1>7 DEF MoveAssign
    <3>2. CASE joinable(h)
      BY <1>7, <3>1, <3>2 DEF MoveAssign, Inv, OnlyTerminateLeaks
    <3>3. CASE ~joinable(h)
      <4>1. /\ handle[h] = 0
            /\ \A g \in Handle :
                 handle'[g] = IF g = other THEN 0 ELSE IF g = h THEN handle[other] ELSE handle[g]
        BY <1>7, <3>1, <3>3 DEF MoveAssign, Inv, TypeOK
      <4>2. ASSUME NEW t \in Thread, NEW g \in Handle, handle[g] = t
            PROVE  \E f \in Handle : handle'[f] = t
        BY <4>1, <4>2, <3>1, <1>7
      <4> QED
        BY <4>2, <3>1 DEF Inv, OnlyTerminateLeaks
    <3> QED
      BY <3>2, <3>3
  <2> QED
    BY <2>1, <2>2, <2>3, <2>4, <2>5 DEF Inv
<1>8. ASSUME NEW h \in Handle, Join(h) PROVE Inv'
  <2>1. TypeOK'
    BY <1>8 DEF Join, Inv, TypeOK, Creation
  <2>2. Creation'
    BY <1>8 DEF Join, Inv, Creation, TypeOK
  <2>3. LauncherFreedOnce'
    BY <1>8 DEF Join, Inv, LauncherFreedOnce, TypeOK, Creation
  <2>4. HandlesAreExclusive'
    BY <1>8 DEF Join, Inv, HandlesAreExclusive, TypeOK, Creation
  <2>5. OnlyTerminateLeaks'
    BY <1>8 DEF Join, Inv, OnlyTerminateLeaks, TypeOK, Creation, HandlesAreExclusive
  <2> QED
    BY <2>1, <2>2, <2>3, <2>4, <2>5 DEF Inv
<1>9. ASSUME NEW h \in Handle, Detach(h) PROVE Inv'
  <2>1. TypeOK'
    BY <1>9 DEF Detach, Inv, TypeOK, Creation
  <2>2. Creation'
    BY <1>9 DEF Detach, Inv, Creation, TypeOK, HandlesAreExclusive
  <2>3. LauncherFreedOnce'
    BY <1>9 DEF Detach, Inv, LauncherFreedOnce, TypeOK, Creation
  <2>4. HandlesAreExclusive'
    BY <1>9 DEF Detach, Inv, HandlesAreExclusive, TypeOK, Creation
  <2>5. OnlyTerminateLeaks'
    BY <1>9 DEF Detach, Inv, OnlyTerminateLeaks, TypeOK, Creation, HandlesAreExclusive
  <2> QED
    BY <2>1, <2>2, <2>3, <2>4, <2>5 DEF Inv
<1>10. ASSUME NEW t \in Thread, Start(t) PROVE Inv'
  <2>1. TypeOK'
    <3>1. thread' \in [Thread -> {"none", "starting", "running", "ended", "killed"}]
      BY <1>10 DEF Start, Inv, TypeOK
    <3> QED
      BY <1>10, <3>1 DEF Start, Inv, TypeOK
  <2>2. Creation'
    BY <1>10 DEF Start, Inv, Creation, TypeOK
  <2>3. LauncherFreedOnce'
    BY <1>10 DEF Start, Inv, LauncherFreedOnce, TypeOK, Creation
  <2>4. HandlesAreExclusive'
    BY <1>10 DEF Start, Inv, HandlesAreExclusive, TypeOK, Creation
  <2>5. OnlyTerminateLeaks'
    BY <1>10 DEF Start, Inv, OnlyTerminateLeaks, TypeOK, Creation, HandlesAreExclusive
  <2> QED
    BY <2>1, <2>2, <2>3, <2>4, <2>5 DEF Inv
<1>11. ASSUME NEW t \in Thread, End(t) PROVE Inv'
  <2>1. TypeOK'
    <3>1. thread' \in [Thread -> {"none", "starting", "running", "ended", "killed"}]
      BY <1>11 DEF End, Inv, TypeOK
    <3>2. freed' \in [Thread -> Nat]
      BY <1>11 DEF End, Inv, TypeOK
    <3> QED
      BY <1>11, <3>1, <3>2 DEF End, Inv, TypeOK
  <2>2. Creation'
    BY <1>11 DEF End, Inv, Creation, TypeOK
  <2>3. LauncherFreedOnce'
    BY <1>11 DEF End, Inv, LauncherFreedOnce, TypeOK, Creation
  <2>4. HandlesAreExclusive'
    BY <1>11 DEF End, Inv, HandlesAreExclusive, TypeOK, Creation
  <2>5. OnlyTerminateLeaks'
    BY <1>11 DEF End, Inv, OnlyTerminateLeaks, TypeOK, Creation, HandlesAreExclusive
  <2> QED
    BY <2>1, <2>2, <2>3, <2>4, <2>5 DEF Inv
<1>12. CASE UNCHANGED vars
  BY <1>12 DEF vars, Inv, TypeOK, Creation, LauncherFreedOnce, HandlesAreExclusive,
       OnlyTerminateLeaks
<1> QED
  BY <1>1, <1>2, <1>3, <1>4, <1>5, <1>6, <1>7, <1>8, <1>9, <1>10, <1>11, <1>12
     DEF SharedStep, ThreadStep

\* Every step of a POSIX thread keeps the invariant.
LEMMA InvStep == Inv /\ [Next]_vars => Inv'
<1> SUFFICES ASSUME Inv, [Next]_vars PROVE Inv'
  OBVIOUS
<1> USE ThreadAssumption DEF Thread, NoThread, Dangling, mainVars, threadVars, Abort, joinable
<1>1. ASSUME NEW prio \in thread_priority, Create(prio) PROVE Inv'
  <2>1. TypeOK'
    BY <1>1, PrioritiesAreNumbers DEF Create, Inv, TypeOK, Creation
  <2>2. Creation'
    BY <1>1 DEF Create, Inv, Creation, TypeOK
  <2>3. LauncherFreedOnce'
    BY <1>1 DEF Create, Inv, LauncherFreedOnce, TypeOK, Creation
  <2>4. HandlesAreExclusive'
    BY <1>1 DEF Create, Inv, HandlesAreExclusive, TypeOK, Creation
  <2>5. OnlyTerminateLeaks'
    BY <1>1 DEF Create, Inv, OnlyTerminateLeaks, TypeOK, Creation, HandlesAreExclusive
  <2> QED
    BY <2>1, <2>2, <2>3, <2>4, <2>5 DEF Inv
<1>2. ASSUME CreateFails PROVE Inv'
  <2>1. TypeOK'
    BY <1>2 DEF CreateFails, Inv, TypeOK, Creation
  <2>2. Creation'
    BY <1>2 DEF CreateFails, Inv, Creation, TypeOK
  <2>3. LauncherFreedOnce'
    BY <1>2 DEF CreateFails, Inv, LauncherFreedOnce, TypeOK, Creation
  <2>4. HandlesAreExclusive'
    BY <1>2 DEF CreateFails, Inv, HandlesAreExclusive, TypeOK, Creation
  <2>5. OnlyTerminateLeaks'
    BY <1>2 DEF CreateFails, Inv, OnlyTerminateLeaks, TypeOK, Creation, HandlesAreExclusive
  <2> QED
    BY <2>1, <2>2, <2>3, <2>4, <2>5 DEF Inv
<1>3. ASSUME JoinReturns PROVE Inv'
  <2>1. TypeOK'
    BY <1>3 DEF JoinReturns, Inv, TypeOK, Creation
  <2>2. Creation'
    BY <1>3 DEF JoinReturns, Inv, Creation, TypeOK
  <2>3. LauncherFreedOnce'
    BY <1>3 DEF JoinReturns, Inv, LauncherFreedOnce, TypeOK, Creation
  <2>4. HandlesAreExclusive'
    BY <1>3 DEF JoinReturns, Inv, HandlesAreExclusive, TypeOK, Creation
  <2>5. OnlyTerminateLeaks'
    BY <1>3 DEF JoinReturns, Inv, OnlyTerminateLeaks, TypeOK, Creation, HandlesAreExclusive
  <2> QED
    BY <2>1, <2>2, <2>3, <2>4, <2>5 DEF Inv
<1>4. ASSUME JoinFails PROVE Inv'
  <2>1. TypeOK'
    BY <1>4 DEF JoinFails, Inv, TypeOK, Creation
  <2>2. Creation'
    BY <1>4 DEF JoinFails, Inv, Creation, TypeOK
  <2>3. LauncherFreedOnce'
    BY <1>4 DEF JoinFails, Inv, LauncherFreedOnce, TypeOK, Creation
  <2>4. HandlesAreExclusive'
    BY <1>4 DEF JoinFails, Inv, HandlesAreExclusive, TypeOK, Creation
  <2>5. OnlyTerminateLeaks'
    BY <1>4 DEF JoinFails, Inv, OnlyTerminateLeaks, TypeOK, Creation, HandlesAreExclusive
  <2> QED
    BY <2>1, <2>2, <2>3, <2>4, <2>5 DEF Inv
<1>5. ASSUME NEW h \in Handle, Terminate(h) PROVE Inv'
  <2>1. TypeOK'
    BY <1>5 DEF Terminate, Inv, TypeOK, Creation
  <2>2. Creation'
    BY <1>5 DEF Terminate, Inv, Creation, TypeOK
  <2>3. LauncherFreedOnce'
    BY <1>5 DEF Terminate, Inv, LauncherFreedOnce, TypeOK, Creation
  <2>4. HandlesAreExclusive'
    BY <1>5 DEF Terminate, Inv, HandlesAreExclusive, TypeOK, Creation
  <2>5. OnlyTerminateLeaks'
    BY <1>5 DEF Terminate, Inv, OnlyTerminateLeaks, TypeOK, Creation, HandlesAreExclusive
  <2> QED
    BY <2>1, <2>2, <2>3, <2>4, <2>5 DEF Inv
<1>6. ASSUME NEW h \in Handle, CrashOnDangling(h) PROVE Inv'
  <2>1. TypeOK'
    BY <1>6 DEF CrashOnDangling, Inv, TypeOK, Creation
  <2>2. Creation'
    BY <1>6 DEF CrashOnDangling, Inv, Creation, TypeOK
  <2>3. LauncherFreedOnce'
    BY <1>6 DEF CrashOnDangling, Inv, LauncherFreedOnce, TypeOK, Creation
  <2>4. HandlesAreExclusive'
    BY <1>6 DEF CrashOnDangling, Inv, HandlesAreExclusive, TypeOK, Creation
  <2>5. OnlyTerminateLeaks'
    BY <1>6 DEF CrashOnDangling, Inv, OnlyTerminateLeaks, TypeOK, Creation, HandlesAreExclusive
  <2> QED
    BY <2>1, <2>2, <2>3, <2>4, <2>5 DEF Inv
<1>7. ASSUME NEW h \in Handle, NEW prio \in thread_priority, SetPriority(h, prio) PROVE Inv'
  <2>1. TypeOK'
    BY <1>7, PrioritiesAreNumbers DEF SetPriority, Inv, TypeOK, Creation
  <2>2. Creation'
    BY <1>7 DEF SetPriority, Inv, Creation, TypeOK
  <2>3. LauncherFreedOnce'
    BY <1>7 DEF SetPriority, Inv, LauncherFreedOnce, TypeOK, Creation
  <2>4. HandlesAreExclusive'
    BY <1>7 DEF SetPriority, Inv, HandlesAreExclusive, TypeOK, Creation
  <2>5. OnlyTerminateLeaks'
    BY <1>7 DEF SetPriority, Inv, OnlyTerminateLeaks, TypeOK, Creation, HandlesAreExclusive
  <2> QED
    BY <2>1, <2>2, <2>3, <2>4, <2>5 DEF Inv
<1>8. CASE SharedStep
  BY <1>8, SharedSteps
<1> QED
  BY <1>1, <1>2, <1>3, <1>4, <1>5, <1>6, <1>7, <1>8
     DEF Next, CallReturns, Call, SharedStep

\* So does every step of a thread of Windows.
LEMMA WinInvStep == Inv /\ [WinNext]_vars => Inv'
<1> SUFFICES ASSUME Inv, [WinNext]_vars PROVE Inv'
  OBVIOUS
<1> USE ThreadAssumption DEF Thread, NoThread, Dangling, mainVars, threadVars, Abort, joinable
<1>1. ASSUME WinCreate PROVE Inv'
  <2>1. TypeOK'
    BY <1>1 DEF WinCreate, Inv, TypeOK, Creation
  <2>2. Creation'
    BY <1>1 DEF WinCreate, Inv, Creation, TypeOK
  <2>3. LauncherFreedOnce'
    BY <1>1 DEF WinCreate, Inv, LauncherFreedOnce, TypeOK, Creation
  <2>4. HandlesAreExclusive'
    BY <1>1 DEF WinCreate, Inv, HandlesAreExclusive, TypeOK, Creation
  <2>5. OnlyTerminateLeaks'
    BY <1>1 DEF WinCreate, Inv, OnlyTerminateLeaks, TypeOK, Creation, HandlesAreExclusive
  <2> QED
    BY <2>1, <2>2, <2>3, <2>4, <2>5 DEF Inv
<1>2. ASSUME WinCreateFails PROVE Inv'
  <2>1. TypeOK'
    BY <1>2 DEF WinCreateFails, Inv, TypeOK, Creation
  <2>2. Creation'
    BY <1>2 DEF WinCreateFails, Inv, Creation, TypeOK
  <2>3. LauncherFreedOnce'
    BY <1>2 DEF WinCreateFails, Inv, LauncherFreedOnce, TypeOK, Creation
  <2>4. HandlesAreExclusive'
    BY <1>2 DEF WinCreateFails, Inv, HandlesAreExclusive, TypeOK, Creation
  <2>5. OnlyTerminateLeaks'
    BY <1>2 DEF WinCreateFails, Inv, OnlyTerminateLeaks, TypeOK, Creation, HandlesAreExclusive
  <2> QED
    BY <2>1, <2>2, <2>3, <2>4, <2>5 DEF Inv
<1>3. ASSUME NEW prio \in thread_priority, Configure(prio) PROVE Inv'
  <2>1. TypeOK'
    BY <1>3, WinPrioritiesAreNumbers DEF Configure, Inv, TypeOK, Creation
  <2>2. Creation'
    BY <1>3 DEF Configure, Inv, Creation, TypeOK
  <2>3. LauncherFreedOnce'
    BY <1>3 DEF Configure, Inv, LauncherFreedOnce, TypeOK, Creation
  <2>4. HandlesAreExclusive'
    BY <1>3 DEF Configure, Inv, HandlesAreExclusive, TypeOK, Creation
  <2>5. OnlyTerminateLeaks'
    BY <1>3 DEF Configure, Inv, OnlyTerminateLeaks, TypeOK, Creation, HandlesAreExclusive
  <2> QED
    BY <2>1, <2>2, <2>3, <2>4, <2>5 DEF Inv
<1>4. ASSUME WinJoinReturns PROVE Inv'
  <2>1. TypeOK'
    BY <1>4 DEF WinJoinReturns, Inv, TypeOK, Creation
  <2>2. Creation'
    BY <1>4 DEF WinJoinReturns, Inv, Creation, TypeOK
  <2>3. LauncherFreedOnce'
    BY <1>4 DEF WinJoinReturns, Inv, LauncherFreedOnce, TypeOK, Creation
  <2>4. HandlesAreExclusive'
    BY <1>4 DEF WinJoinReturns, Inv, HandlesAreExclusive, TypeOK, Creation
  <2>5. OnlyTerminateLeaks'
    BY <1>4 DEF WinJoinReturns, Inv, OnlyTerminateLeaks, TypeOK, Creation, HandlesAreExclusive
  <2> QED
    BY <2>1, <2>2, <2>3, <2>4, <2>5 DEF Inv
<1>5. ASSUME NEW h \in Handle, WinTerminate(h) PROVE Inv'
  <2>0. \A t \in Thread :
          thread'[t] = IF t = handle[h] /\ thread[t] # "ended" THEN "killed" ELSE thread[t]
    BY <1>5 DEF WinTerminate, Inv, TypeOK
  <2>1. TypeOK'
    BY <1>5 DEF WinTerminate, Inv, TypeOK, Creation
  <2>2. Creation'
    BY <1>5, <2>0 DEF WinTerminate, Inv, Creation, TypeOK, HandlesAreExclusive
  <2>3. LauncherFreedOnce'
    BY <1>5, <2>0 DEF WinTerminate, Inv, HandlesAreExclusive, LauncherFreedOnce, TypeOK, Creation
  <2>4. HandlesAreExclusive'
    BY <1>5 DEF WinTerminate, Inv, HandlesAreExclusive, TypeOK, Creation
  <2>5. OnlyTerminateLeaks'
    BY <1>5 DEF WinTerminate, Inv, OnlyTerminateLeaks, TypeOK, Creation, HandlesAreExclusive
  <2> QED
    BY <2>1, <2>2, <2>3, <2>4, <2>5 DEF Inv
<1>6. ASSUME NEW h \in Handle, NEW prio \in thread_priority, WinSetPriority(h, prio) PROVE Inv'
  <2>1. TypeOK'
    BY <1>6, WinPrioritiesAreNumbers DEF WinSetPriority, Inv, TypeOK, Creation
  <2>2. Creation'
    BY <1>6 DEF WinSetPriority, Inv, Creation, TypeOK
  <2>3. LauncherFreedOnce'
    BY <1>6 DEF WinSetPriority, Inv, LauncherFreedOnce, TypeOK, Creation
  <2>4. HandlesAreExclusive'
    BY <1>6 DEF WinSetPriority, Inv, HandlesAreExclusive, TypeOK, Creation
  <2>5. OnlyTerminateLeaks'
    BY <1>6 DEF WinSetPriority, Inv, OnlyTerminateLeaks, TypeOK, Creation, HandlesAreExclusive
  <2> QED
    BY <2>1, <2>2, <2>3, <2>4, <2>5 DEF Inv
<1>7. CASE SharedStep
  BY <1>7, SharedSteps
<1> QED
  BY <1>1, <1>2, <1>3, <1>4, <1>5, <1>6, <1>7
     DEF WinNext, WinCallReturns, WinCall, WinDetach, SharedStep

\* The types of the thread objects' state.
THEOREM TypesHold == Spec => []TypeOK
<1>1. Inv => TypeOK
  BY DEF Inv
<1> QED
  BY <1>1, InvInit, InvStep, PTL DEF Spec

\* The same three on Windows: launchers are freed once, except those of threads that
\* were killed, objects own their threads, and only terminate() loses one.
THEOREM WinThreadsToo ==
  WinSpec => [](TypeOK /\ LauncherFreedOnce /\ HandlesAreExclusive /\ OnlyTerminateLeaks)
<1>1. WinInit => Inv
  BY InvInit DEF WinInit
<1>2. Inv => TypeOK /\ LauncherFreedOnce /\ HandlesAreExclusive /\ OnlyTerminateLeaks
  BY DEF Inv
<1> QED
  BY <1>1, <1>2, WinInvStep, PTL DEF WinSpec

\* Launchers are freed once, and never under their thread.
THEOREM LaunchersAreFreedOnce == Spec => []LauncherFreedOnce
<1>1. Inv => LauncherFreedOnce
  BY DEF Inv
<1> QED
  BY <1>1, InvInit, InvStep, PTL DEF Spec

\* A joinable object stands for one thread, which can be joined.
THEOREM ObjectsOwnThreads == Spec => []HandlesAreExclusive
<1>1. Inv => HandlesAreExclusive
  BY DEF Inv
<1> QED
  BY <1>1, InvInit, InvStep, PTL DEF Spec

\* No thread is lost but those terminate() let go.
THEOREM NoOtherLeaks == Spec => []OnlyTerminateLeaks
<1>1. Inv => OnlyTerminateLeaks
  BY DEF Inv
<1> QED
  BY <1>1, InvInit, InvStep, PTL DEF Spec

\* A quotient between prio and prio + 1 steps is prio.
LEMMA QuotientBetween ==
  ASSUME NEW x \in Nat, NEW r \in Nat \ {0}, NEW q \in Nat, q * r <= x, x < q * r + r
  PROVE  x \div r = q
<1>1. x \div r \in Nat /\ x = r * (x \div r) + (x % r) /\ x % r \in 0..(r - 1)
  OBVIOUS
<1> DEFINE k == x \div r
<1>2. r * k <= x /\ x < r * k + r /\ k \in Nat
  BY <1>1
<1> HIDE DEF k
<1>3. CASE k < q
  <2>1. k + 1 <= q
    BY <1>2, <1>3
  <2>2. r * (k + 1) <= r * q
    BY <2>1, <1>2
  <2> QED
    BY <2>2, <1>2
<1>4. CASE q < k
  <2>1. q + 1 <= k
    BY <1>2, <1>4
  <2>2. r * (q + 1) <= r * k
    BY <2>1, <1>2
  <2> QED
    BY <2>2, <1>2
<1> QED
  BY <1>2, <1>3, <1>4 DEF k

\* Rounding up and then down gives the priority back.
LEMMA PriorityRoundTrip ==
  ASSUME NEW prio \in thread_priority
  PROVE  get_priority(posix_thread_priority(prio)) = prio
<1> DEFINE r == MaxPriority - MinPriority
           y == (prio * r + 4) \div 5
<1>1. r \in Nat /\ r >= 5 /\ MinPriority \in Nat /\ prio \in 0..5
  BY ThreadAssumption DEF thread_priority
<1>2. posix_thread_priority(prio) = MinPriority + y
  BY DEF posix_thread_priority
<1> HIDE DEF r
<1>3. prio * r \in Nat
  BY <1>1
<1>4. y \in Nat /\ prio * r <= y * 5 /\ y * 5 < prio * r + r
  BY <1>1, <1>3
<1>5. get_priority(MinPriority + y) = (y * 5) \div r
  BY <1>1, <1>4 DEF get_priority, r
<1>6. (y * 5) \div r = prio
  BY <1>1, <1>4, QuotientBetween
<1> QED
  BY <1>2, <1>5, <1>6

\* Priorities that the system grants are read back as they were asked for.
THEOREM PrioritiesAreReadBack == Spec => PriorityReadBack
<1>1. Inv /\ [Next]_vars =>
        [\A prio \in thread_priority :
           rlimit # 0 /\ posix_thread_priority(prio) <= rlimit =>
             /\ Create(prio) => get_priority(schedule'[attempts]) = prio
             /\ \A h \in Handle :
                  SetPriority(h, prio) => get_priority(schedule'[handle[h]]) = prio]_vars
  <2> SUFFICES ASSUME Inv, NEW prio \in thread_priority,
                      rlimit # 0, posix_thread_priority(prio) <= rlimit
               PROVE  /\ Create(prio) => get_priority(schedule'[attempts]) = prio
                      /\ \A h \in Handle :
                           SetPriority(h, prio) => get_priority(schedule'[handle[h]]) = prio
    OBVIOUS
  <2>1. Create(prio) => schedule'[attempts] = posix_thread_priority(prio)
    BY DEF Create, Inv, TypeOK, Creation
  <2>2. ASSUME NEW h \in Handle, SetPriority(h, prio)
        PROVE  schedule'[handle[h]] = posix_thread_priority(prio)
    BY <2>2 DEF SetPriority, Inv, TypeOK
  <2> QED
    BY <2>1, <2>2, PriorityRoundTrip
<1> QED
  BY <1>1, InvInit, InvStep, PTL DEF Spec, PriorityReadBack

\* No two priorities share a value in the table of Windows.
LEMMA WinPriorityRoundTrip ==
  ASSUME NEW prio \in thread_priority
  PROVE  win_get_priority(win_thread_priority(prio)) = prio
<1> DEFINE found == {q \in thread_priority : win_thread_priority(q) = win_thread_priority(prio)}
<1>1. \A q \in thread_priority : q \in {0, 1, 2, 3, 4, 5}
  BY DEF thread_priority
<1>2. \A q \in thread_priority :
        win_thread_priority(q) = win_thread_priority(prio) => q = prio
  BY <1>1 DEF win_thread_priority
<1>3. found = {prio}
  BY <1>2
<1>4. prio <= prio
  BY DEF thread_priority
<1> HIDE DEF found
<1>5. (CHOOSE p \in found : \A q \in found : p <= q) = prio
  BY <1>3, <1>4
<1> QED
  BY <1>3, <1>5 DEF win_get_priority, found

\* On Windows the priority is read back as it was set, at creation or later.
THEOREM WinPrioritiesAreReadBack == WinSpec => WinPriorityReadBack
<1>1. WinInit => Inv
  BY InvInit DEF WinInit
<1>2. Inv /\ [WinNext]_vars =>
        [\A prio \in thread_priority :
           /\ Configure(prio) => win_get_priority(schedule'[attempts]) = prio
           /\ \A h \in Handle :
                WinSetPriority(h, prio) => win_get_priority(schedule'[handle[h]]) = prio]_vars
  <2> SUFFICES ASSUME Inv, NEW prio \in thread_priority
               PROVE  /\ Configure(prio) => win_get_priority(schedule'[attempts]) = prio
                      /\ \A h \in Handle :
                           WinSetPriority(h, prio) => win_get_priority(schedule'[handle[h]]) = prio
    OBVIOUS
  <2>1. Configure(prio) => schedule'[attempts] = win_thread_priority(prio)
    BY DEF Configure, Inv, TypeOK, Creation
  <2>2. ASSUME NEW h \in Handle, WinSetPriority(h, prio)
        PROVE  schedule'[handle[h]] = win_thread_priority(prio)
    BY <2>2 DEF WinSetPriority, Inv, TypeOK
  <2> QED
    BY <2>1, <2>2, WinPriorityRoundTrip
<1> QED
  BY <1>1, <1>2, WinInvStep, PTL DEF WinSpec, WinPriorityReadBack
=============================================================================
