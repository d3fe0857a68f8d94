-------------------------- MODULE SchedulerProofs --------------------------
(***************************************************************************)
(* Theorems about Scheduler, for every number of workers, clients, tasks    *)
(* and priorities.  The typing invariant comes first; the others rest on it.*)
(***************************************************************************)
EXTENDS Scheduler, TLAPS

\* The invalid handle is not a task.
LEMMA NoTaskIsNone == NoTask \notin Task
BY SchedulerAssumption

\* The scan goes from one priority to the next or leaves their range.
LEMMA NextPriority ==
  ASSUME NEW p \in Priority, p + 1 # PRIO_COUNT PROVE p + 1 \in Priority
BY SchedulerAssumption DEF Priority

\* TypeOK is preserved by every step.
LEMMA TypeStep == TypeOK /\ PointOK /\ PhaseOK /\ [Next]_vars => TypeOK'
<1> SUFFICES ASSUME TypeOK, PointOK, PhaseOK, [Next]_vars PROVE TypeOK'
  OBVIOUS
<1> USE SchedulerAssumption DEF TypeOK, PointOK, Thread, PC, taskVars, addVars, ctlVars, wVars
<1>1. ASSUME NEW th \in Thread, NEW t \in Task, BeginAdd(th, t) PROVE TypeOK'
  BY <1>1 DEF BeginAdd
<1>2. ASSUME NEW th \in Thread, PushTask(th) PROVE TypeOK'
  BY <1>2 DEF PushTask
<1>3. ASSUME NEW th \in Thread, NEW w \in Worker, NotifyWorker(th, w) PROVE TypeOK'
  BY <1>3 DEF NotifyWorker
<1>4. ASSUME NEW w \in Worker, EnterLoop(w) PROVE TypeOK'
  BY <1>4 DEF EnterLoop, Goto, Hold
<1>5. ASSUME NEW w \in Worker, ExitLoop(w) PROVE TypeOK'
  BY <1>5 DEF ExitLoop, Goto, Hold
<1>6. ASSUME NEW w \in Worker, DrainToken(w) PROVE TypeOK'
  BY <1>6 DEF DrainToken, Goto, Hold
<1>7. ASSUME NEW w \in Worker, Drained(w) PROVE TypeOK'
  BY <1>7 DEF Drained, Goto, Hold
<1>8. ASSUME NEW w \in Worker, CheckRunning(w) PROVE TypeOK'
  BY <1>8 DEF CheckRunning, Goto, Hold
<1>9. ASSUME NEW w \in Worker, ScanNext(w) PROVE TypeOK'
  <2>1. scanPrio[w] \in 0..(PRIO_COUNT - 1)
    BY <1>9 DEF ScanNext, Priority
  <2>2. scanPrio' \in [Worker -> 0..PRIO_COUNT]
    BY <1>9, <2>1 DEF ScanNext
  <2>3. pc' \in [Thread -> PC]
    BY <1>9 DEF ScanNext, Goto
  <2> QED
    BY <1>9, <2>2, <2>3 DEF ScanNext
<1>10. ASSUME NEW w \in Worker, PopTask(w) PROVE TypeOK'
  BY <1>10 DEF PopTask, Goto, Hold
<1>11. ASSUME NEW w \in Worker, GrabTask(w) PROVE TypeOK'
  <2>1. pc' \in [Thread -> PC] /\ hTask' \in [Thread -> Task \cup {NoTask}]
    BY <1>11 DEF GrabTask, Goto, Hold
  <2>2. grabbed' \in [Task -> BOOLEAN]
    BY <1>11 DEF GrabTask
  <2> QED
    BY <1>11, <2>1, <2>2 DEF GrabTask
<1>12. ASSUME NEW w \in Worker, GiveUp(w) PROVE TypeOK'
  BY <1>12 DEF GiveUp, Goto, Hold
<1>13. ASSUME NEW w \in Worker, SkipDoneTask(w) PROVE TypeOK'
  BY <1>13 DEF SkipDoneTask, Goto, Hold
<1>14. ASSUME NEW w \in Worker, AssignTask(w) PROVE TypeOK'
  BY <1>14 DEF AssignTask, Goto, Hold
<1>15. ASSUME NEW w \in Worker, ReturnToRun(w) PROVE TypeOK'
  BY <1>15 DEF ReturnToRun, Goto, Hold
<1>16. ASSUME NEW w \in Worker, TakeToken(w) PROVE TypeOK'
  BY <1>16 DEF TakeToken, Goto, Hold
<1>17. ASSUME NEW w \in Worker, SpuriousWake(w) PROVE TypeOK'
  BY <1>17 DEF SpuriousWake, Goto, Hold
<1>18. ASSUME NEW th \in Thread, RunTask(th) PROVE TypeOK'
  BY <1>18 DEF RunTask, Goto, Hold
<1>19. ASSUME NEW th \in Thread, NotifyTask(th) PROVE TypeOK'
  BY <1>19 DEF NotifyTask, Goto, Hold
<1>20. ASSUME NEW th \in Thread, RunGroup(th) PROVE TypeOK'
  BY <1>20 DEF RunGroup, Goto, Hold
<1>21. ASSUME NEW th \in Thread, FinishTask(th) PROVE TypeOK'
  BY <1>21 DEF FinishTask, Goto, Hold
<1>22. ASSUME NEW t \in Task, CompleteGroup(t) PROVE TypeOK'
  BY <1>22 DEF CompleteGroup
<1>23. ASSUME NEW c \in Client, NEW t \in Task, ActiveWait(c, t) PROVE TypeOK'
  BY <1>23 DEF ActiveWait, Goto, Hold
<1>24. ASSUME NEW c \in Client, NEW t \in Task, Wait(c, t) PROVE TypeOK'
  BY <1>24 DEF Wait, Goto, Hold
<1>25. ASSUME NEW c \in Client, WaitReturns(c) PROVE TypeOK'
  BY <1>25 DEF WaitReturns, Goto, Hold
<1>25b. ASSUME NEW c \in Client, WaitInterrupted(c) PROVE TypeOK'
  BY <1>25b DEF WaitInterrupted, Goto, Hold
<1>26. ASSUME Start PROVE TypeOK'
  BY <1>26 DEF Start, Phase
<1>27. ASSUME Stop PROVE TypeOK'
  BY <1>27 DEF Stop, Phase
<1>28. ASSUME StartWorker PROVE TypeOK'
  <2>1. pc' \in [Thread -> PC] /\ workerRunning' \in [Worker -> BOOLEAN]
    BY <1>28 DEF StartWorker, Goto
  <2>2. visiting' \in Worker /\ ctl' \in Phase
    BY <1>28 DEF StartWorker, VisitNext, Worker, Phase
  <2> QED
    BY <1>28, <2>1, <2>2 DEF StartWorker
<1>29. ASSUME StopWorker PROVE TypeOK'
  BY <1>29 DEF StopWorker, VisitNext, Goto, Worker, Phase
<1>30. ASSUME WakeUpWorker PROVE TypeOK'
  BY <1>30 DEF WakeUpWorker, VisitNext, Goto, Worker, Phase
<1>31. ASSUME JoinWorker PROVE TypeOK'
  BY <1>31 DEF JoinWorker, VisitNext, Goto, Worker, Phase
<1>32. CASE UNCHANGED vars
  BY <1>32 DEF vars
<1> QED
  BY <1>1, <1>2, <1>3, <1>4, <1>5, <1>6, <1>7, <1>8, <1>9, <1>10, <1>11, <1>12, <1>13, <1>14, <1>15, <1>16, <1>17, <1>18, <1>19, <1>20, <1>21, <1>22, <1>23, <1>24, <1>25, <1>25b, <1>26, <1>27, <1>28, <1>29, <1>30, <1>31, <1>32
     DEF Next, AddStep, ExecuteStep, WorkerStep, ControlStep

\* PointOK is preserved by every step.
LEMMA PointStep == TypeOK /\ PointOK /\ PhaseOK /\ [Next]_vars => PointOK'
<1> SUFFICES ASSUME TypeOK, PointOK, PhaseOK, [Next]_vars PROVE PointOK'
  OBVIOUS
<1> USE SchedulerAssumption DEF TypeOK, PointOK, PhaseOK, Thread, taskVars, addVars, ctlVars, wVars
<1>1. ASSUME NEW th \in Thread, NEW t \in Task, BeginAdd(th, t) PROVE PointOK'
  BY <1>1 DEF BeginAdd, InAdd
<1>2. ASSUME NEW th \in Thread, PushTask(th) PROVE PointOK'
  BY <1>2 DEF PushTask
<1>3. ASSUME NEW th \in Thread, NEW w \in Worker, NotifyWorker(th, w) PROVE PointOK'
  BY <1>3 DEF NotifyWorker
<1>4. ASSUME NEW w \in Worker, EnterLoop(w) PROVE PointOK'
  BY <1>4 DEF EnterLoop, Goto, Hold
<1>5. ASSUME NEW w \in Worker, ExitLoop(w) PROVE PointOK'
  BY <1>5 DEF ExitLoop, Goto, Hold
<1>6. ASSUME NEW w \in Worker, DrainToken(w) PROVE PointOK'
  BY <1>6 DEF DrainToken, Goto, Hold
<1>7. ASSUME NEW w \in Worker, Drained(w) PROVE PointOK'
  BY <1>7 DEF Drained, Goto, Hold
<1>8. ASSUME NEW w \in Worker, CheckRunning(w) PROVE PointOK'
  BY <1>8 DEF CheckRunning, Goto, Hold, Priority
<1>9. ASSUME NEW w \in Worker, ScanNext(w) PROVE PointOK'
  <2>1. scanPrio[w] \in 0..(PRIO_COUNT - 1) /\ w \in Thread
    BY <1>9 DEF ScanNext, Priority
  <2>5. scanPrio[w] \in Priority
    BY <1>9 DEF ScanNext
  <2>2. scanPrio'[w] = scanPrio[w] + 1
    BY <1>9 DEF ScanNext
  <2>3. CASE scanPrio[w] + 1 = PRIO_COUNT
    BY <1>9, <2>1, <2>2, <2>3 DEF ScanNext, Goto, Priority
  <2>4. CASE scanPrio[w] + 1 # PRIO_COUNT
    <3>1. scanPrio'[w] \in Priority
      BY <2>2, <2>4, <2>5, NextPriority
    <3>2. pc' = [pc EXCEPT ![w] = "scan"]
      BY <1>9, <2>4 DEF ScanNext, Goto
    <3> QED
      BY <1>9, <3>1, <3>2 DEF ScanNext
  <2> QED
    BY <2>3, <2>4
<1>10. ASSUME NEW w \in Worker, PopTask(w) PROVE PointOK'
  BY <1>10 DEF PopTask, Goto, Hold
<1>11. ASSUME NEW w \in Worker, GrabTask(w) PROVE PointOK'
  <2>1. hTask[w] \in Task /\ w \in Thread /\ w \notin Client
    BY <1>11 DEF GrabTask
  <2>2. UNCHANGED <<scanPrio, running, workerRunning, adding, waking>>
    BY <1>11 DEF GrabTask
  <2>3. CASE pc' = [pc EXCEPT ![w] = "verify"] /\ UNCHANGED hTask
    BY <2>1, <2>2, <2>3
  <2>4. CASE pc' = [pc EXCEPT ![w] = "scan"] /\ hTask' = [hTask EXCEPT ![w] = NoTask]
    BY <1>11, <2>1, <2>2, <2>4 DEF GrabTask
  <2> QED
    BY <1>11, <2>3, <2>4 DEF GrabTask, Goto, Hold
<1>12. ASSUME NEW w \in Worker, GiveUp(w) PROVE PointOK'
  BY <1>12 DEF GiveUp, Goto, Hold
<1>13. ASSUME NEW w \in Worker, SkipDoneTask(w) PROVE PointOK'
  BY <1>13 DEF SkipDoneTask, Goto, Hold
<1>14. ASSUME NEW w \in Worker, AssignTask(w) PROVE PointOK'
  BY <1>14 DEF AssignTask, Goto, Hold
<1>15. ASSUME NEW w \in Worker, ReturnToRun(w) PROVE PointOK'
  BY <1>15 DEF ReturnToRun, Goto, Hold
<1>16. ASSUME NEW w \in Worker, TakeToken(w) PROVE PointOK'
  BY <1>16 DEF TakeToken, Goto, Hold
<1>17. ASSUME NEW w \in Worker, SpuriousWake(w) PROVE PointOK'
  BY <1>17 DEF SpuriousWake, Goto, Hold
<1>18. ASSUME NEW th \in Thread, RunTask(th) PROVE PointOK'
  BY <1>18 DEF RunTask, Goto, Hold
<1>19. ASSUME NEW th \in Thread, NotifyTask(th) PROVE PointOK'
  BY <1>19 DEF NotifyTask, Goto, Hold
<1>20. ASSUME NEW th \in Thread, RunGroup(th) PROVE PointOK'
  BY <1>20 DEF RunGroup, Goto, Hold
<1>21. ASSUME NEW th \in Thread, FinishTask(th) PROVE PointOK'
  BY <1>21 DEF FinishTask, Goto, Hold
<1>22. ASSUME NEW t \in Task, CompleteGroup(t) PROVE PointOK'
  BY <1>22 DEF CompleteGroup
<1>23. ASSUME NEW c \in Client, NEW t \in Task, ActiveWait(c, t) PROVE PointOK'
  BY <1>23 DEF ActiveWait, Goto, Hold
<1>24. ASSUME NEW c \in Client, NEW t \in Task, Wait(c, t) PROVE PointOK'
  BY <1>24 DEF Wait, Goto, Hold
<1>25. ASSUME NEW c \in Client, WaitReturns(c) PROVE PointOK'
  BY <1>25 DEF WaitReturns, Goto, Hold
<1>25b. ASSUME NEW c \in Client, WaitInterrupted(c) PROVE PointOK'
  BY <1>25b DEF WaitInterrupted, Goto, Hold
<1>26. ASSUME Start PROVE PointOK'
  BY <1>26 DEF Start
<1>27. ASSUME Stop PROVE PointOK'
  BY <1>27 DEF Stop
<1>28. ASSUME StartWorker PROVE PointOK'
  <2>1. ctl = "starting" /\ pc[visiting] = "off" /\ running /\ UNCHANGED running
    BY <1>28 DEF StartWorker, VisitNext, Worker
  <2>2. \/ pc' = [pc EXCEPT ![visiting] = "loop"]
        \/ pc' = pc
    BY <1>28 DEF StartWorker, Goto
  <2>3. UNCHANGED <<hTask, scanPrio, adding, waking>>
    BY <1>28 DEF StartWorker
  <2>4. \A w \in Worker : workerRunning'[w] /\ w # visiting => workerRunning[w]
    BY <1>28 DEF StartWorker
  <2> QED
    BY <2>1, <2>2, <2>3, <2>4
<1>29. ASSUME StopWorker PROVE PointOK'
  BY <1>29 DEF StopWorker, VisitNext, Goto
<1>30. ASSUME WakeUpWorker PROVE PointOK'
  BY <1>30 DEF WakeUpWorker, VisitNext, Goto
<1>31. ASSUME JoinWorker PROVE PointOK'
  BY <1>31 DEF JoinWorker, VisitNext, Goto
<1>32. CASE UNCHANGED vars
  BY <1>32 DEF vars
<1> QED
  BY <1>1, <1>2, <1>3, <1>4, <1>5, <1>6, <1>7, <1>8, <1>9, <1>10, <1>11,
     <1>12, <1>13, <1>14, <1>15, <1>16, <1>17, <1>18, <1>19, <1>20, <1>21,
     <1>22, <1>23, <1>24, <1>25, <1>25b, <1>26, <1>27, <1>28, <1>29, <1>30, <1>31,
     <1>32
     DEF Next, AddStep, ExecuteStep, WorkerStep, ControlStep

\* PhaseOK is preserved by every step.
LEMMA PhaseStep == TypeOK /\ PointOK /\ PhaseOK /\ [Next]_vars => PhaseOK'
<1> SUFFICES ASSUME TypeOK, PointOK, PhaseOK, [Next]_vars PROVE PhaseOK'
  OBVIOUS
<1> USE SchedulerAssumption DEF TypeOK, PhaseOK, Thread, taskVars, addVars, ctlVars, wVars
<1>1. ASSUME NEW th \in Thread, NEW t \in Task, BeginAdd(th, t) PROVE PhaseOK'
  BY <1>1 DEF BeginAdd
<1>2. ASSUME NEW th \in Thread, PushTask(th) PROVE PhaseOK'
  BY <1>2 DEF PushTask
<1>3. ASSUME NEW th \in Thread, NEW w \in Worker, NotifyWorker(th, w) PROVE PhaseOK'
  BY <1>3 DEF NotifyWorker
<1>4. ASSUME NEW w \in Worker, EnterLoop(w) PROVE PhaseOK'
  BY <1>4 DEF EnterLoop, Goto, Hold
<1>5. ASSUME NEW w \in Worker, ExitLoop(w) PROVE PhaseOK'
  BY <1>5 DEF ExitLoop, Goto, Hold
<1>6. ASSUME NEW w \in Worker, DrainToken(w) PROVE PhaseOK'
  BY <1>6 DEF DrainToken, Goto, Hold
<1>7. ASSUME NEW w \in Worker, Drained(w) PROVE PhaseOK'
  BY <1>7 DEF Drained, Goto, Hold
<1>8. ASSUME NEW w \in Worker, CheckRunning(w) PROVE PhaseOK'
  BY <1>8 DEF CheckRunning, Goto, Hold
<1>9. ASSUME NEW w \in Worker, ScanNext(w) PROVE PhaseOK'
  BY <1>9 DEF ScanNext, Goto, Hold
<1>10. ASSUME NEW w \in Worker, PopTask(w) PROVE PhaseOK'
  BY <1>10 DEF PopTask, Goto, Hold
<1>11. ASSUME NEW w \in Worker, GrabTask(w) PROVE PhaseOK'
  BY <1>11 DEF GrabTask, Goto, Hold
<1>12. ASSUME NEW w \in Worker, GiveUp(w) PROVE PhaseOK'
  BY <1>12 DEF GiveUp, Goto, Hold
<1>13. ASSUME NEW w \in Worker, SkipDoneTask(w) PROVE PhaseOK'
  BY <1>13 DEF SkipDoneTask, Goto, Hold
<1>14. ASSUME NEW w \in Worker, AssignTask(w) PROVE PhaseOK'
  BY <1>14 DEF AssignTask, Goto, Hold
<1>15. ASSUME NEW w \in Worker, ReturnToRun(w) PROVE PhaseOK'
  BY <1>15 DEF ReturnToRun, Goto, Hold
<1>16. ASSUME NEW w \in Worker, TakeToken(w) PROVE PhaseOK'
  BY <1>16 DEF TakeToken, Goto, Hold
<1>17. ASSUME NEW w \in Worker, SpuriousWake(w) PROVE PhaseOK'
  BY <1>17 DEF SpuriousWake, Goto, Hold
<1>18. ASSUME NEW th \in Thread, RunTask(th) PROVE PhaseOK'
  BY <1>18 DEF RunTask, Goto, Hold
<1>19. ASSUME NEW th \in Thread, NotifyTask(th) PROVE PhaseOK'
  BY <1>19 DEF NotifyTask, Goto, Hold
<1>20. ASSUME NEW th \in Thread, RunGroup(th) PROVE PhaseOK'
  BY <1>20 DEF RunGroup, Goto, Hold
<1>21. ASSUME NEW th \in Thread, FinishTask(th) PROVE PhaseOK'
  BY <1>21 DEF FinishTask, Goto, Hold
<1>22. ASSUME NEW t \in Task, CompleteGroup(t) PROVE PhaseOK'
  BY <1>22 DEF CompleteGroup
<1>23. ASSUME NEW c \in Client, NEW t \in Task, ActiveWait(c, t) PROVE PhaseOK'
  BY <1>23 DEF ActiveWait, Goto, Hold
<1>24. ASSUME NEW c \in Client, NEW t \in Task, Wait(c, t) PROVE PhaseOK'
  BY <1>24 DEF Wait, Goto, Hold
<1>25. ASSUME NEW c \in Client, WaitReturns(c) PROVE PhaseOK'
  BY <1>25 DEF WaitReturns, Goto, Hold
<1>25b. ASSUME NEW c \in Client, WaitInterrupted(c) PROVE PhaseOK'
  BY <1>25b DEF WaitInterrupted, Goto, Hold
<1>26. ASSUME Start PROVE PhaseOK'
  BY <1>26 DEF Start, Worker
<1>27. ASSUME Stop PROVE PhaseOK'
  BY <1>27 DEF Stop, Worker
<1>28. ASSUME StartWorker PROVE PhaseOK'
  <2>1. /\ ctl = "starting"
        /\ \A w \in Worker : w # visiting => pc'[w] = pc[w]
        /\ UNCHANGED running
    BY <1>28 DEF StartWorker, VisitNext, Goto
  <2>2. \/ visiting = WorkerCount /\ ctl' = "on" /\ visiting' = 1
        \/ visiting # WorkerCount /\ ctl' = "starting" /\ visiting' = visiting + 1
    BY <1>28 DEF StartWorker, VisitNext
  <2>3. workerRunning' = [workerRunning EXCEPT ![visiting] = TRUE] /\ UNCHANGED stopped
    BY <1>28 DEF StartWorker
  <2>4. ASSUME NEW w \in Worker,
               \/ ctl' = "off"
               \/ ctl' = "starting" /\ visiting' <= w
               \/ ctl' = "joining" /\ w < visiting'
               \/ ~stopped' /\ ~workerRunning'[w]
        PROVE  pc'[w] = "off"
    <3>1. w # visiting /\ pc'[w] = pc[w]
      BY <2>1, <2>2, <2>3, <2>4 DEF Worker
    <3>2. (ctl = "starting" /\ visiting <= w) \/ (~stopped /\ ~workerRunning[w])
      BY <2>1, <2>2, <2>3, <2>4, <3>1 DEF Worker
    <3> QED
      BY <3>1, <3>2
  <2> QED
    BY <2>1, <2>2, <2>3, <2>4 DEF Worker
<1>29. ASSUME StopWorker PROVE PhaseOK'
  BY <1>29 DEF StopWorker, VisitNext, Goto, Worker
<1>30. ASSUME WakeUpWorker PROVE PhaseOK'
  BY <1>30 DEF WakeUpWorker, VisitNext, Goto, Worker
<1>31. ASSUME JoinWorker PROVE PhaseOK'
  BY <1>31 DEF JoinWorker, VisitNext, Goto, Worker
<1>32. CASE UNCHANGED vars
  BY <1>32 DEF vars
<1> QED
  BY <1>1, <1>2, <1>3, <1>4, <1>5, <1>6, <1>7, <1>8, <1>9, <1>10, <1>11,
     <1>12, <1>13, <1>14, <1>15, <1>16, <1>17, <1>18, <1>19, <1>20, <1>21,
     <1>22, <1>23, <1>24, <1>25, <1>25b, <1>26, <1>27, <1>28, <1>29, <1>30, <1>31,
     <1>32
     DEF Next, AddStep, ExecuteStep, WorkerStep, ControlStep

\* The values every variable takes, what each program point says of the handle
\* in hand, and what each phase of start() and stop() says of the workers.
TypeInv == TypeOK /\ PointOK /\ PhaseOK

\* The types hold at the start.
LEMMA TypeInit == Init => TypeInv
<1> SUFFICES ASSUME Init PROVE TypeInv
  OBVIOUS
<1> USE SchedulerAssumption DEF Init
<1>1. TypeOK
  <2>1. pc \in [Thread -> PC] /\ hTask \in [Thread -> Task \cup {NoTask}]
    BY DEF PC
  <2>2. visiting \in Worker /\ ctl \in Phase /\ starts \in 0..MaxStarts
    BY DEF Worker, Phase
  <2>3. pendingTasks \in [Priority -> Seq(Task)] /\ scanPrio \in [Worker -> 0..PRIO_COUNT]
    OBVIOUS
  <2> QED
    BY <2>1, <2>2, <2>3 DEF TypeOK
<1>2. PointOK
  BY DEF PointOK, Worker, Thread
<1>3. PhaseOK
  BY DEF PhaseOK, Worker, Thread
<1> QED
  BY <1>1, <1>2, <1>3 DEF TypeInv

\* Every variable keeps its type, in every behaviour of the scheduler.
THEOREM TypeCorrect == Spec => []TypeInv
<1>1. TypeInv /\ [Next]_vars => TypeInv'
  BY TypeStep, PointStep, PhaseStep DEF TypeInv
<1> QED
  BY <1>1, TypeInit, PTL DEF Spec

\* The type invariant that the runs check.
THEOREM TypesHold == Spec => []TypeOK
<1>1. TypeInv => TypeOK
  BY DEF TypeInv
<1> QED
  BY <1>1, TypeCorrect, PTL

\* NoLostWakeup is preserved by every step.
LEMMA WakeupStep == TypeInv /\ NoLostWakeup /\ [Next]_vars => NoLostWakeup'
<1> SUFFICES ASSUME TypeInv, NoLostWakeup, [Next]_vars PROVE NoLostWakeup'
  OBVIOUS
<1> USE SchedulerAssumption DEF TypeInv, TypeOK, Thread, taskVars, addVars, ctlVars, wVars, NoLostWakeup, HasPassed, WakeUpComing
<1>1. ASSUME NEW th \in Thread, NEW t \in Task, BeginAdd(th, t) PROVE NoLostWakeup'
  BY <1>1 DEF BeginAdd
<1>2. ASSUME NEW th \in Thread, PushTask(th) PROVE NoLostWakeup'
  <2> SUFFICES ASSUME NEW v \in Worker, NEW p \in workerPrio[v],
                      HasPassed(v, p)', pendingTasks'[p] # <<>>
               PROVE  WakeUpComing(v)'
    OBVIOUS
  <2>1. HasPassed(v, p)
    BY <1>2 DEF PushTask
  <2>2. CASE p = priority[adding[th]]
    BY <1>2, <2>2 DEF PushTask, canWorkOnPriority
  <2>3. CASE p # priority[adding[th]]
    <3>1. pendingTasks[p] # <<>>
      BY <1>2, <2>3 DEF PushTask
    <3>2. WakeUpComing(v)
      BY <2>1, <3>1
    <3>3. waking[th] = {}
      BY <1>2 DEF PushTask, PointOK
    <3>4. tokens' = tokens /\ \A u \in Thread : u # th => waking'[u] = waking[u]
      BY <1>2 DEF PushTask
    <3> QED
      BY <3>2, <3>3, <3>4
  <2> QED
    BY <2>2, <2>3
<1>3. ASSUME NEW th \in Thread, NEW w \in Worker, NotifyWorker(th, w) PROVE NoLostWakeup'
  <2> SUFFICES ASSUME NEW v \in Worker, NEW p \in workerPrio[v],
                      HasPassed(v, p)', pendingTasks'[p] # <<>>
               PROVE  WakeUpComing(v)'
    OBVIOUS
  <2>1. WakeUpComing(v)
    BY <1>3 DEF NotifyWorker
  <2>2. tokens'[v] = IF v = w THEN tokens[v] + 1 ELSE tokens[v]
    BY <1>3 DEF NotifyWorker
  <2>3. v = w \/ \A u \in Thread : v \in waking[u] => v \in waking'[u]
    BY <1>3 DEF NotifyWorker
  <2>4. tokens[v] \in Nat
    OBVIOUS
  <2> QED
    BY <2>1, <2>2, <2>3, <2>4
<1>4. ASSUME NEW w \in Worker, EnterLoop(w) PROVE NoLostWakeup'
  BY <1>4 DEF EnterLoop, Goto, Hold
<1>5. ASSUME NEW w \in Worker, ExitLoop(w) PROVE NoLostWakeup'
  BY <1>5 DEF ExitLoop, Goto, Hold
<1>6. ASSUME NEW w \in Worker, DrainToken(w) PROVE NoLostWakeup'
  BY <1>6 DEF DrainToken, Goto, Hold
<1>7. ASSUME NEW w \in Worker, Drained(w) PROVE NoLostWakeup'
  BY <1>7 DEF Drained, Goto, Hold
<1>8. ASSUME NEW w \in Worker, CheckRunning(w) PROVE NoLostWakeup'
  <2> SUFFICES ASSUME NEW v \in Worker, NEW p \in workerPrio[v],
                      HasPassed(v, p)', pendingTasks'[p] # <<>>
               PROVE  WakeUpComing(v)'
    OBVIOUS
  <2>1. v # w
    BY <1>8, SchedulerAssumption DEF CheckRunning, Goto, Priority
  <2>2. HasPassed(v, p) /\ UNCHANGED <<pendingTasks, tokens, waking>>
    BY <1>8, <2>1 DEF CheckRunning, Goto
  <2> QED
    BY <2>2
<1>9. ASSUME NEW w \in Worker, ScanNext(w) PROVE NoLostWakeup'
  <2> SUFFICES ASSUME NEW v \in Worker, NEW p \in workerPrio[v],
                      HasPassed(v, p)', pendingTasks'[p] # <<>>
               PROVE  WakeUpComing(v)'
    OBVIOUS
  <2>1. UNCHANGED <<pendingTasks, tokens, waking>>
    BY <1>9 DEF ScanNext
  <2>2. HasPassed(v, p) \/ (v = w /\ p = scanPrio[w])
    <3>1. CASE v # w
      BY <1>9, <3>1 DEF ScanNext, Goto
    <3>2. CASE v = w
      <4>1. scanPrio'[w] = scanPrio[w] + 1 /\ scanPrio[w] \in Nat /\ pc[w] = "scan"
        BY <1>9 DEF ScanNext
      <4>2. p \in Nat
        BY SchedulerAssumption DEF Priority
      <4> QED
        BY <3>2, <4>1, <4>2
    <3> QED
      BY <3>1, <3>2
  <2>3. ~(v = w /\ p = scanPrio[w])
    BY <1>9, <2>1 DEF ScanNext, canWorkOnPriority
  <2> QED
    BY <2>1, <2>2, <2>3
<1>10. ASSUME NEW w \in Worker, PopTask(w) PROVE NoLostWakeup'
  BY <1>10 DEF PopTask, Goto, Hold, canWorkOnPriority
<1>11. ASSUME NEW w \in Worker, GrabTask(w) PROVE NoLostWakeup'
  <2> SUFFICES ASSUME NEW v \in Worker, NEW p \in workerPrio[v],
                      HasPassed(v, p)', pendingTasks'[p] # <<>>
               PROVE  WakeUpComing(v)'
    OBVIOUS
  <2>1. UNCHANGED <<pendingTasks, tokens, waking, scanPrio>>
    BY <1>11 DEF GrabTask
  <2>2. HasPassed(v, p)
    BY <1>11 DEF GrabTask, Goto
  <2> QED
    BY <2>1, <2>2
<1>12. ASSUME NEW w \in Worker, GiveUp(w) PROVE NoLostWakeup'
  BY <1>12 DEF GiveUp, Goto, Hold
<1>13. ASSUME NEW w \in Worker, SkipDoneTask(w) PROVE NoLostWakeup'
  BY <1>13 DEF SkipDoneTask, Goto, Hold
<1>14. ASSUME NEW w \in Worker, AssignTask(w) PROVE NoLostWakeup'
  BY <1>14 DEF AssignTask, Goto, Hold
<1>15. ASSUME NEW w \in Worker, ReturnToRun(w) PROVE NoLostWakeup'
  BY <1>15 DEF ReturnToRun, Goto, Hold
<1>16. ASSUME NEW w \in Worker, TakeToken(w) PROVE NoLostWakeup'
  BY <1>16 DEF TakeToken, Goto, Hold
<1>17. ASSUME NEW w \in Worker, SpuriousWake(w) PROVE NoLostWakeup'
  BY <1>17 DEF SpuriousWake, Goto, Hold
<1>18. ASSUME NEW th \in Thread, RunTask(th) PROVE NoLostWakeup'
  BY <1>18 DEF RunTask, Goto, Hold
<1>19. ASSUME NEW th \in Thread, NotifyTask(th) PROVE NoLostWakeup'
  BY <1>19 DEF NotifyTask, Goto, Hold
<1>20. ASSUME NEW th \in Thread, RunGroup(th) PROVE NoLostWakeup'
  BY <1>20 DEF RunGroup, Goto, Hold
<1>21. ASSUME NEW th \in Thread, FinishTask(th) PROVE NoLostWakeup'
  BY <1>21 DEF FinishTask, Goto, Hold
<1>22. ASSUME NEW t \in Task, CompleteGroup(t) PROVE NoLostWakeup'
  BY <1>22 DEF CompleteGroup
<1>23. ASSUME NEW c \in Client, NEW t \in Task, ActiveWait(c, t) PROVE NoLostWakeup'
  BY <1>23 DEF ActiveWait, Goto, Hold
<1>24. ASSUME NEW c \in Client, NEW t \in Task, Wait(c, t) PROVE NoLostWakeup'
  BY <1>24 DEF Wait, Goto, Hold
<1>25. ASSUME NEW c \in Client, WaitReturns(c) PROVE NoLostWakeup'
  BY <1>25 DEF WaitReturns, Goto, Hold
<1>25b. ASSUME NEW c \in Client, WaitInterrupted(c) PROVE NoLostWakeup'
  BY <1>25b DEF WaitInterrupted, Goto, Hold
<1>26. ASSUME Start PROVE NoLostWakeup'
  BY <1>26 DEF Start
<1>27. ASSUME Stop PROVE NoLostWakeup'
  BY <1>27 DEF Stop
<1>28. ASSUME StartWorker PROVE NoLostWakeup'
  BY <1>28 DEF StartWorker, VisitNext, Goto
<1>29. ASSUME StopWorker PROVE NoLostWakeup'
  BY <1>29 DEF StopWorker, VisitNext, Goto
<1>30. ASSUME WakeUpWorker PROVE NoLostWakeup'
  <2> SUFFICES ASSUME NEW v \in Worker, NEW p \in workerPrio[v],
                      HasPassed(v, p)', pendingTasks'[p] # <<>>
               PROVE  WakeUpComing(v)'
    OBVIOUS
  <2>1. HasPassed(v, p) /\ UNCHANGED <<pendingTasks, waking>>
    BY <1>30 DEF WakeUpWorker
  <2>2. tokens'[v] = IF v = visiting THEN tokens[v] + 1 ELSE tokens[v]
    BY <1>30 DEF WakeUpWorker
  <2>3. tokens[v] \in Nat
    OBVIOUS
  <2> QED
    BY <2>1, <2>2, <2>3
<1>31. ASSUME JoinWorker PROVE NoLostWakeup'
  BY <1>31 DEF JoinWorker, VisitNext, Goto
<1>32. CASE UNCHANGED vars
  BY <1>32 DEF vars
<1> QED
  BY <1>1, <1>2, <1>3, <1>4, <1>5, <1>6, <1>7, <1>8, <1>9, <1>10, <1>11,
     <1>12, <1>13, <1>14, <1>15, <1>16, <1>17, <1>18, <1>19, <1>20, <1>21,
     <1>22, <1>23, <1>24, <1>25, <1>25b, <1>26, <1>27, <1>28, <1>29, <1>30, <1>31,
     <1>32
     DEF Next, AddStep, ExecuteStep, WorkerStep, ControlStep

\* StopWakesEveryone is preserved by every step.
LEMMA StopStep == TypeInv /\ StopWakesEveryone /\ [Next]_vars => StopWakesEveryone'
<1> SUFFICES ASSUME TypeInv, StopWakesEveryone, [Next]_vars PROVE StopWakesEveryone'
  OBVIOUS
<1> USE SchedulerAssumption DEF TypeInv, TypeOK, PhaseOK, Thread, taskVars, addVars, ctlVars, wVars, StopWakesEveryone
<1>1. ASSUME NEW th \in Thread, NEW t \in Task, BeginAdd(th, t) PROVE StopWakesEveryone'
  BY <1>1 DEF BeginAdd
<1>2. ASSUME NEW th \in Thread, PushTask(th) PROVE StopWakesEveryone'
  BY <1>2 DEF PushTask
<1>3. ASSUME NEW th \in Thread, NEW w \in Worker, NotifyWorker(th, w) PROVE StopWakesEveryone'
  BY <1>3 DEF NotifyWorker
<1>4. ASSUME NEW w \in Worker, EnterLoop(w) PROVE StopWakesEveryone'
  BY <1>4 DEF EnterLoop, Goto, Hold
<1>5. ASSUME NEW w \in Worker, ExitLoop(w) PROVE StopWakesEveryone'
  BY <1>5 DEF ExitLoop, Goto, Hold
<1>6. ASSUME NEW w \in Worker, DrainToken(w) PROVE StopWakesEveryone'
  BY <1>6 DEF DrainToken, Goto, Hold
<1>7. ASSUME NEW w \in Worker, Drained(w) PROVE StopWakesEveryone'
  BY <1>7 DEF Drained, Goto, Hold
<1>8. ASSUME NEW w \in Worker, CheckRunning(w) PROVE StopWakesEveryone'
  BY <1>8 DEF CheckRunning, Goto, Hold
<1>9. ASSUME NEW w \in Worker, ScanNext(w) PROVE StopWakesEveryone'
  BY <1>9 DEF ScanNext, Goto, Hold
<1>10. ASSUME NEW w \in Worker, PopTask(w) PROVE StopWakesEveryone'
  BY <1>10 DEF PopTask, Goto, Hold
<1>11. ASSUME NEW w \in Worker, GrabTask(w) PROVE StopWakesEveryone'
  BY <1>11 DEF GrabTask, Goto, Hold
<1>12. ASSUME NEW w \in Worker, GiveUp(w) PROVE StopWakesEveryone'
  BY <1>12 DEF GiveUp, Goto, Hold
<1>13. ASSUME NEW w \in Worker, SkipDoneTask(w) PROVE StopWakesEveryone'
  BY <1>13 DEF SkipDoneTask, Goto, Hold
<1>14. ASSUME NEW w \in Worker, AssignTask(w) PROVE StopWakesEveryone'
  BY <1>14 DEF AssignTask, Goto, Hold
<1>15. ASSUME NEW w \in Worker, ReturnToRun(w) PROVE StopWakesEveryone'
  BY <1>15 DEF ReturnToRun, Goto, Hold
<1>16. ASSUME NEW w \in Worker, TakeToken(w) PROVE StopWakesEveryone'
  BY <1>16 DEF TakeToken, Goto, Hold
<1>17. ASSUME NEW w \in Worker, SpuriousWake(w) PROVE StopWakesEveryone'
  BY <1>17 DEF SpuriousWake, Goto, Hold
<1>18. ASSUME NEW th \in Thread, RunTask(th) PROVE StopWakesEveryone'
  BY <1>18 DEF RunTask, Goto, Hold
<1>19. ASSUME NEW th \in Thread, NotifyTask(th) PROVE StopWakesEveryone'
  BY <1>19 DEF NotifyTask, Goto, Hold
<1>20. ASSUME NEW th \in Thread, RunGroup(th) PROVE StopWakesEveryone'
  BY <1>20 DEF RunGroup, Goto, Hold
<1>21. ASSUME NEW th \in Thread, FinishTask(th) PROVE StopWakesEveryone'
  BY <1>21 DEF FinishTask, Goto, Hold
<1>22. ASSUME NEW t \in Task, CompleteGroup(t) PROVE StopWakesEveryone'
  BY <1>22 DEF CompleteGroup
<1>23. ASSUME NEW c \in Client, NEW t \in Task, ActiveWait(c, t) PROVE StopWakesEveryone'
  BY <1>23 DEF ActiveWait, Goto, Hold
<1>24. ASSUME NEW c \in Client, NEW t \in Task, Wait(c, t) PROVE StopWakesEveryone'
  BY <1>24 DEF Wait, Goto, Hold
<1>25. ASSUME NEW c \in Client, WaitReturns(c) PROVE StopWakesEveryone'
  BY <1>25 DEF WaitReturns, Goto, Hold
<1>25b. ASSUME NEW c \in Client, WaitInterrupted(c) PROVE StopWakesEveryone'
  BY <1>25b DEF WaitInterrupted, Goto, Hold
<1>26. ASSUME Start PROVE StopWakesEveryone'
  BY <1>26 DEF Start, Worker
<1>27. ASSUME Stop PROVE StopWakesEveryone'
  BY <1>27 DEF Stop, Worker
<1>28. ASSUME StartWorker PROVE StopWakesEveryone'
  BY <1>28 DEF StartWorker, VisitNext, Goto, Worker
<1>29. ASSUME StopWorker PROVE StopWakesEveryone'
  BY <1>29 DEF StopWorker, VisitNext, Goto, Worker
<1>30. ASSUME WakeUpWorker PROVE StopWakesEveryone'
  BY <1>30 DEF WakeUpWorker, VisitNext, Goto, Worker
<1>31. ASSUME JoinWorker PROVE StopWakesEveryone'
  BY <1>31 DEF JoinWorker, VisitNext, Goto, Worker
<1>32. CASE UNCHANGED vars
  BY <1>32 DEF vars
<1> QED
  BY <1>1, <1>2, <1>3, <1>4, <1>5, <1>6, <1>7, <1>8, <1>9, <1>10, <1>11,
     <1>12, <1>13, <1>14, <1>15, <1>16, <1>17, <1>18, <1>19, <1>20, <1>21,
     <1>22, <1>23, <1>24, <1>25, <1>25b, <1>26, <1>27, <1>28, <1>29, <1>30, <1>31,
     <1>32
     DEF Next, AddStep, ExecuteStep, WorkerStep, ControlStep

\* Who holds which task, and what that says of its flags.
OwnerInv == HandOK /\ ExclusiveOwner

\* A thread that lets its handle go leaves the others with theirs.
LEMMA DropHandle ==
  ASSUME TypeInv, HandOK, NEW x \in Thread, NEW label,
         pc' = [pc EXCEPT ![x] = label], hTask' = [hTask EXCEPT ![x] = NoTask],
         UNCHANGED taskVars
  PROVE  HandOK'
<1>1. ASSUME NEW u \in Thread, NEW s \in Task, Owns(u, s)'
      PROVE  u # x /\ Owns(u, s) /\ pc'[u] = pc[u]
  BY <1>1, SchedulerAssumption DEF Owns, TypeInv, TypeOK
<1> QED
  BY <1>1 DEF HandOK, taskVars

\* ExclusiveOwner is preserved by every step.
LEMMA ExclusiveStep == TypeInv /\ OwnerInv /\ [Next]_vars => ExclusiveOwner'
<1> SUFFICES ASSUME TypeInv, OwnerInv, [Next]_vars PROVE ExclusiveOwner'
  OBVIOUS
<1> USE SchedulerAssumption DEF TypeInv, TypeOK, PointOK, Thread, taskVars, addVars, ctlVars, wVars, OwnerInv, ExclusiveOwner, Owns
<1>1. ASSUME NEW th \in Thread, NEW t \in Task, BeginAdd(th, t) PROVE ExclusiveOwner'
  BY <1>1 DEF BeginAdd
<1>2. ASSUME NEW th \in Thread, PushTask(th) PROVE ExclusiveOwner'
  BY <1>2 DEF PushTask
<1>3. ASSUME NEW th \in Thread, NEW w \in Worker, NotifyWorker(th, w) PROVE ExclusiveOwner'
  BY <1>3 DEF NotifyWorker
<1>4. ASSUME NEW w \in Worker, EnterLoop(w) PROVE ExclusiveOwner'
  BY <1>4 DEF EnterLoop, Goto, Hold
<1>5. ASSUME NEW w \in Worker, ExitLoop(w) PROVE ExclusiveOwner'
  BY <1>5 DEF ExitLoop, Goto, Hold
<1>6. ASSUME NEW w \in Worker, DrainToken(w) PROVE ExclusiveOwner'
  BY <1>6 DEF DrainToken, Goto, Hold
<1>7. ASSUME NEW w \in Worker, Drained(w) PROVE ExclusiveOwner'
  BY <1>7 DEF Drained, Goto, Hold
<1>8. ASSUME NEW w \in Worker, CheckRunning(w) PROVE ExclusiveOwner'
  BY <1>8 DEF CheckRunning, Goto, Hold
<1>9. ASSUME NEW w \in Worker, ScanNext(w) PROVE ExclusiveOwner'
  BY <1>9 DEF ScanNext, Goto, Hold
<1>10. ASSUME NEW w \in Worker, PopTask(w) PROVE ExclusiveOwner'
  BY <1>10 DEF PopTask, Goto, Hold
<1>11. ASSUME NEW w \in Worker, GrabTask(w) PROVE ExclusiveOwner'
  <2> SUFFICES ASSUME NEW s \in Task, NEW u1 \in Thread, NEW u2 \in Thread,
                      Owns(u1, s)', Owns(u2, s)'
               PROVE  u1 = u2
    OBVIOUS
  <2>1. \A u \in Thread : u # w => (Owns(u, s)' <=> Owns(u, s))
    BY <1>11 DEF GrabTask, Goto, Hold
  <2>2. Owns(w, s)' => hTask[w] = s /\ ~grabbed[s]
    BY <1>11, NoTaskIsNone DEF GrabTask, Goto, Hold
  <2>3. \A u \in Thread : Owns(u, s) => grabbed[s]
    BY DEF HandOK
  <2> QED
    BY <2>1, <2>2, <2>3
<1>12. ASSUME NEW w \in Worker, GiveUp(w) PROVE ExclusiveOwner'
  BY <1>12 DEF GiveUp, Goto, Hold
<1>13. ASSUME NEW w \in Worker, SkipDoneTask(w) PROVE ExclusiveOwner'
  BY <1>13 DEF SkipDoneTask, Goto, Hold
<1>14. ASSUME NEW w \in Worker, AssignTask(w) PROVE ExclusiveOwner'
  BY <1>14 DEF AssignTask, Goto, Hold
<1>15. ASSUME NEW w \in Worker, ReturnToRun(w) PROVE ExclusiveOwner'
  BY <1>15 DEF ReturnToRun, Goto, Hold
<1>16. ASSUME NEW w \in Worker, TakeToken(w) PROVE ExclusiveOwner'
  BY <1>16 DEF TakeToken, Goto, Hold
<1>17. ASSUME NEW w \in Worker, SpuriousWake(w) PROVE ExclusiveOwner'
  BY <1>17 DEF SpuriousWake, Goto, Hold
<1>18. ASSUME NEW th \in Thread, RunTask(th) PROVE ExclusiveOwner'
  BY <1>18 DEF RunTask, Goto, Hold
<1>19. ASSUME NEW th \in Thread, NotifyTask(th) PROVE ExclusiveOwner'
  BY <1>19 DEF NotifyTask, Goto, Hold
<1>20. ASSUME NEW th \in Thread, RunGroup(th) PROVE ExclusiveOwner'
  BY <1>20 DEF RunGroup, Goto, Hold
<1>21. ASSUME NEW th \in Thread, FinishTask(th) PROVE ExclusiveOwner'
  BY <1>21 DEF FinishTask, Goto, Hold
<1>22. ASSUME NEW t \in Task, CompleteGroup(t) PROVE ExclusiveOwner'
  BY <1>22 DEF CompleteGroup
<1>23. ASSUME NEW c \in Client, NEW t \in Task, ActiveWait(c, t) PROVE ExclusiveOwner'
  <2> SUFFICES ASSUME NEW s \in Task, NEW u1 \in Thread, NEW u2 \in Thread,
                      Owns(u1, s)', Owns(u2, s)'
               PROVE  u1 = u2
    OBVIOUS
  <2>1. \A u \in Thread : u # c => (Owns(u, s)' <=> Owns(u, s))
    BY <1>23 DEF ActiveWait, Goto, Hold
  <2>2. Owns(c, s)' => s = t /\ ~grabbed[s]
    BY <1>23 DEF ActiveWait, Goto, Hold
  <2>3. \A u \in Thread : Owns(u, s) => grabbed[s]
    BY DEF HandOK
  <2> QED
    BY <2>1, <2>2, <2>3
<1>24. ASSUME NEW c \in Client, NEW t \in Task, Wait(c, t) PROVE ExclusiveOwner'
  BY <1>24 DEF Wait, Goto, Hold
<1>25. ASSUME NEW c \in Client, WaitReturns(c) PROVE ExclusiveOwner'
  BY <1>25 DEF WaitReturns, Goto, Hold
<1>25b. ASSUME NEW c \in Client, WaitInterrupted(c) PROVE ExclusiveOwner'
  BY <1>25b DEF WaitInterrupted, Goto, Hold
<1>26. ASSUME Start PROVE ExclusiveOwner'
  BY <1>26 DEF Start
<1>27. ASSUME Stop PROVE ExclusiveOwner'
  BY <1>27 DEF Stop
<1>28. ASSUME StartWorker PROVE ExclusiveOwner'
  <2>1. pc[visiting] = "off" /\ hTask' = hTask /\ hTask[visiting] = NoTask
    BY <1>28 DEF StartWorker, VisitNext, Worker, PhaseOK
  <2>2. pc' = [pc EXCEPT ![visiting] = "loop"] \/ pc' = pc
    BY <1>28 DEF StartWorker, Goto
  <2>3. \A u \in Thread, s \in Task : Owns(u, s)' => Owns(u, s)
    BY <2>1, <2>2
  <2> SUFFICES ASSUME NEW s \in Task, NEW u1 \in Thread, NEW u2 \in Thread,
                      Owns(u1, s)', Owns(u2, s)'
               PROVE  u1 = u2
    OBVIOUS
  <2>4. Owns(u1, s) /\ Owns(u2, s)
    BY <2>3
  <2> QED
    BY <2>4
<1>29. ASSUME StopWorker PROVE ExclusiveOwner'
  BY <1>29 DEF StopWorker, VisitNext, Goto
<1>30. ASSUME WakeUpWorker PROVE ExclusiveOwner'
  BY <1>30 DEF WakeUpWorker, VisitNext, Goto
<1>31. ASSUME JoinWorker PROVE ExclusiveOwner'
  BY <1>31 DEF JoinWorker, VisitNext, Goto
<1>32. CASE UNCHANGED vars
  BY <1>32 DEF vars
<1> QED
  BY <1>1, <1>2, <1>3, <1>4, <1>5, <1>6, <1>7, <1>8, <1>9, <1>10, <1>11,
     <1>12, <1>13, <1>14, <1>15, <1>16, <1>17, <1>18, <1>19, <1>20, <1>21,
     <1>22, <1>23, <1>24, <1>25, <1>25b, <1>26, <1>27, <1>28, <1>29, <1>30, <1>31,
     <1>32
     DEF Next, AddStep, ExecuteStep, WorkerStep, ControlStep

\* HandOK is preserved by every step.
LEMMA HandStep == TypeInv /\ OwnerInv /\ [Next]_vars => HandOK'
<1> SUFFICES ASSUME TypeInv, OwnerInv, [Next]_vars PROVE HandOK'
  OBVIOUS
<1> USE SchedulerAssumption DEF TypeInv, TypeOK, PointOK, Thread, taskVars, addVars, ctlVars, wVars, OwnerInv, HandOK, Owns
<1>1. ASSUME NEW th \in Thread, NEW t \in Task, BeginAdd(th, t) PROVE HandOK'
  BY <1>1 DEF BeginAdd
<1>2. ASSUME NEW th \in Thread, PushTask(th) PROVE HandOK'
  BY <1>2 DEF PushTask
<1>3. ASSUME NEW th \in Thread, NEW w \in Worker, NotifyWorker(th, w) PROVE HandOK'
  BY <1>3 DEF NotifyWorker
<1>4. ASSUME NEW w \in Worker, EnterLoop(w) PROVE HandOK'
  BY <1>4 DEF EnterLoop, Goto, Hold
<1>5. ASSUME NEW w \in Worker, ExitLoop(w) PROVE HandOK'
  BY <1>5, DropHandle DEF ExitLoop, Goto, Hold
<1>6. ASSUME NEW w \in Worker, DrainToken(w) PROVE HandOK'
  BY <1>6 DEF DrainToken, Goto, Hold
<1>7. ASSUME NEW w \in Worker, Drained(w) PROVE HandOK'
  BY <1>7 DEF Drained, Goto, Hold
<1>8. ASSUME NEW w \in Worker, CheckRunning(w) PROVE HandOK'
  BY <1>8 DEF CheckRunning, Goto, Hold
<1>9. ASSUME NEW w \in Worker, ScanNext(w) PROVE HandOK'
  BY <1>9 DEF ScanNext, Goto, Hold
<1>10. ASSUME NEW w \in Worker, PopTask(w) PROVE HandOK'
  BY <1>10 DEF PopTask, Goto, Hold
<1>11. ASSUME NEW w \in Worker, GrabTask(w) PROVE HandOK'
  <2>1. /\ done' = done /\ notified' = notified
        /\ grabbed' = [grabbed EXCEPT ![hTask[w]] = TRUE]
    BY <1>11 DEF GrabTask
  <2>2. ASSUME NEW u \in Thread, NEW s \in Task, Owns(u, s)'
        PROVE  /\ grabbed'[s]
               /\ s \notin Group => (done'[s] <=> pc'[u] \in {"notify", "finish"})
               /\ pc'[u] = "notify" => s \notin Group
    <3>1. CASE u # w
      <4>1. Owns(u, s) /\ pc'[u] = pc[u]
        BY <1>11, <2>2, <3>1 DEF GrabTask, Goto, Hold
      <4>2. grabbed'[s]
        BY <2>1, <4>1
      <4> QED
        BY <2>1, <4>1, <4>2
    <3>2. CASE u = w
      <4>1. hTask[w] = s /\ ~done[s] /\ pc'[w] = "verify"
        BY <1>11, <2>2, <3>2, NoTaskIsNone DEF GrabTask, Goto, Hold
      <4> QED
        BY <2>1, <3>2, <4>1
    <3> QED
      BY <3>1, <3>2
  <2> QED
    BY <2>1, <2>2
<1>12. ASSUME NEW w \in Worker, GiveUp(w) PROVE HandOK'
  BY <1>12, DropHandle DEF GiveUp, Goto, Hold
<1>13. ASSUME NEW w \in Worker, SkipDoneTask(w) PROVE HandOK'
  BY <1>13, DropHandle DEF SkipDoneTask, Goto, Hold
<1>14. ASSUME NEW w \in Worker, AssignTask(w) PROVE HandOK'
  BY <1>14 DEF AssignTask, Goto, Hold
<1>15. ASSUME NEW w \in Worker, ReturnToRun(w) PROVE HandOK'
  BY <1>15 DEF ReturnToRun, Goto, Hold
<1>16. ASSUME NEW w \in Worker, TakeToken(w) PROVE HandOK'
  BY <1>16 DEF TakeToken, Goto, Hold
<1>17. ASSUME NEW w \in Worker, SpuriousWake(w) PROVE HandOK'
  BY <1>17 DEF SpuriousWake, Goto, Hold
<1>18. ASSUME NEW th \in Thread, RunTask(th) PROVE HandOK'
  <2>1. /\ grabbed' = grabbed /\ notified' = notified /\ hTask' = hTask
        /\ done' = [done EXCEPT ![hTask[th]] = TRUE]
        /\ pc' = [pc EXCEPT ![th] = "notify"]
        /\ hTask[th] \in Task \ Group /\ Owns(th, hTask[th])
    BY <1>18 DEF RunTask, Goto
  <2>2. ASSUME NEW u \in Thread, NEW s \in Task, Owns(u, s)'
        PROVE  /\ grabbed'[s]
               /\ s \notin Group => (done'[s] <=> pc'[u] \in {"notify", "finish"})
               /\ pc'[u] = "notify" => s \notin Group
    <3>1. CASE u # th
      <4>1. Owns(u, s) /\ pc'[u] = pc[u]
        BY <2>1, <2>2, <3>1
      <4>2. s # hTask[th]
        BY <2>1, <3>1, <4>1 DEF ExclusiveOwner
      <4> QED
        BY <2>1, <4>1, <4>2
    <3>2. CASE u = th
      BY <2>1, <2>2, <3>2
    <3> QED
      BY <3>1, <3>2
  <2>3. ASSUME NEW s \in Task
        PROVE  (notified'[s] => done'[s]) /\ (s \notin Group /\ done'[s] => grabbed'[s])
    <3>1. CASE s = hTask[th]
      <4>1. done'[s]
        BY <2>1, <3>1
      <4>2. grabbed'[s]
        BY <2>1, <3>1
      <4> QED
        BY <4>1, <4>2
    <3>2. CASE s # hTask[th]
      BY <2>1, <3>2
    <3> QED
      BY <3>1, <3>2
  <2> QED
    BY <2>2, <2>3
<1>19. ASSUME NEW th \in Thread, NotifyTask(th) PROVE HandOK'
  <2>1. /\ grabbed' = grabbed /\ done' = done /\ hTask' = hTask
        /\ notified' = [notified EXCEPT ![hTask[th]] = TRUE]
        /\ pc' = [pc EXCEPT ![th] = "finish"] /\ pc[th] = "notify"
        /\ hTask[th] \in Task /\ Owns(th, hTask[th])
    BY <1>19 DEF NotifyTask, Goto
  <2>2. ASSUME NEW u \in Thread, NEW s \in Task, Owns(u, s)'
        PROVE  /\ grabbed'[s]
               /\ s \notin Group => (done'[s] <=> pc'[u] \in {"notify", "finish"})
               /\ pc'[u] = "notify" => s \notin Group
    BY <2>1, <2>2
  <2>3. done[hTask[th]]
    BY <2>1
  <2> QED
    BY <2>1, <2>2, <2>3
<1>20. ASSUME NEW th \in Thread, RunGroup(th) PROVE HandOK'
  BY <1>20 DEF RunGroup, Goto, Hold
<1>21. ASSUME NEW th \in Thread, FinishTask(th) PROVE HandOK'
  BY <1>21 DEF FinishTask, Goto, Hold
<1>22. ASSUME NEW t \in Task, CompleteGroup(t) PROVE HandOK'
  BY <1>22 DEF CompleteGroup
<1>23. ASSUME NEW c \in Client, NEW t \in Task, ActiveWait(c, t) PROVE HandOK'
  <2>1. /\ done' = done /\ notified' = notified
        /\ grabbed' = [grabbed EXCEPT ![t] = TRUE]
        /\ t \notin Group
    BY <1>23 DEF ActiveWait
  <2>2. ASSUME NEW u \in Thread, NEW s \in Task, Owns(u, s)'
        PROVE  /\ grabbed'[s]
               /\ s \notin Group => (done'[s] <=> pc'[u] \in {"notify", "finish"})
               /\ pc'[u] = "notify" => s \notin Group
    <3>1. CASE u # c
      <4>1. Owns(u, s) /\ pc'[u] = pc[u]
        BY <1>23, <2>2, <3>1 DEF ActiveWait, Goto, Hold
      <4>2. grabbed'[s]
        BY <2>1, <4>1
      <4> QED
        BY <2>1, <4>1, <4>2
    <3>2. CASE u = c
      <4>1. s = t /\ ~grabbed[s] /\ pc'[c] = "run"
        BY <1>23, <2>2, <3>2 DEF ActiveWait, Goto, Hold
      <4> QED
        BY <2>1, <3>2, <4>1
    <3> QED
      BY <3>1, <3>2
  <2> QED
    BY <2>1, <2>2
<1>24. ASSUME NEW c \in Client, NEW t \in Task, Wait(c, t) PROVE HandOK'
  BY <1>24 DEF Wait, Goto, Hold
<1>25. ASSUME NEW c \in Client, WaitReturns(c) PROVE HandOK'
  BY <1>25, DropHandle DEF WaitReturns, Goto, Hold
<1>25b. ASSUME NEW c \in Client, WaitInterrupted(c) PROVE HandOK'
  BY <1>25b, DropHandle DEF WaitInterrupted, Goto, Hold
<1>26. ASSUME Start PROVE HandOK'
  BY <1>26 DEF Start
<1>27. ASSUME Stop PROVE HandOK'
  BY <1>27 DEF Stop
<1>28. ASSUME StartWorker PROVE HandOK'
  <2>1. pc[visiting] = "off" /\ hTask' = hTask /\ hTask[visiting] = NoTask
    BY <1>28 DEF StartWorker, VisitNext, Worker, PhaseOK
  <2>2. pc' = [pc EXCEPT ![visiting] = "loop"] \/ pc' = pc
    BY <1>28 DEF StartWorker, Goto
  <2>3. \A u \in Thread, s \in Task : Owns(u, s)' => Owns(u, s)
    BY <2>1, <2>2
  <2>4. \A u \in Thread, s \in Task : Owns(u, s)' => pc'[u] = pc[u]
    BY <2>1, <2>2, NoTaskIsNone
  <2>5. UNCHANGED <<grabbed, done, notified>>
    BY <1>28 DEF StartWorker
  <2> QED
    BY <2>3, <2>4, <2>5
<1>29. ASSUME StopWorker PROVE HandOK'
  BY <1>29 DEF StopWorker, VisitNext, Goto
<1>30. ASSUME WakeUpWorker PROVE HandOK'
  BY <1>30 DEF WakeUpWorker, VisitNext, Goto
<1>31. ASSUME JoinWorker PROVE HandOK'
  BY <1>31 DEF JoinWorker, VisitNext, Goto
<1>32. CASE UNCHANGED vars
  BY <1>32 DEF vars
<1> QED
  BY <1>1, <1>2, <1>3, <1>4, <1>5, <1>6, <1>7, <1>8, <1>9, <1>10, <1>11,
     <1>12, <1>13, <1>14, <1>15, <1>16, <1>17, <1>18, <1>19, <1>20, <1>21,
     <1>22, <1>23, <1>24, <1>25, <1>25b, <1>26, <1>27, <1>28, <1>29, <1>30, <1>31,
     <1>32
     DEF Next, AddStep, ExecuteStep, WorkerStep, ControlStep


-----------------------------------------------------------------------------
\* At the start nobody waits, nobody owns a task and stop() was not called.
LEMMA InvInit == Init => NoLostWakeup /\ StopWakesEveryone /\ OwnerInv
<1> SUFFICES ASSUME Init PROVE NoLostWakeup /\ StopWakesEveryone /\ OwnerInv
  OBVIOUS
<1> USE SchedulerAssumption DEF Init
<1>1. NoLostWakeup /\ StopWakesEveryone
  BY DEF NoLostWakeup, StopWakesEveryone, HasPassed, Worker, Thread
<1>2. HandOK /\ ExclusiveOwner
  BY DEF HandOK, ExclusiveOwner, Owns
<1> QED
  BY <1>1, <1>2 DEF OwnerInv

\* No worker sleeps, or finishes a scan, with a task it could run queued behind
\* it and no wake-up on its way (waitForNextTask against add).
THEOREM WakeupsAreNotLost == Spec => []NoLostWakeup
<1>1. TypeInv /\ NoLostWakeup /\ [Next]_vars => NoLostWakeup'
  BY WakeupStep
<1> QED
  BY <1>1, InvInit, TypeCorrect, PTL DEF Spec

\* stop() leaves no worker asleep without a token (waitForNextTask against stop).
THEOREM StopReachesEveryWorker == Spec => []StopWakesEveryone
<1>1. TypeInv /\ StopWakesEveryone /\ [Next]_vars => StopWakesEveryone'
  BY StopStep
<1> QED
  BY <1>1, InvInit, TypeCorrect, PTL DEF Spec

\* Flags and hands agree, and no task is in two hands (tryGrab).
THEOREM OwnershipHolds == Spec => []OwnerInv
<1>1. TypeInv /\ OwnerInv /\ [Next]_vars => OwnerInv'
  BY ExclusiveStep, HandStep DEF OwnerInv
<1> QED
  BY <1>1, InvInit, TypeCorrect, PTL DEF Spec

\* A task is executed by at most one thread at a time (task_base::tryGrab).
THEOREM TasksHaveOneOwner == Spec => []ExclusiveOwner
<1>1. OwnerInv => ExclusiveOwner
  BY DEF OwnerInv
<1> QED
  BY <1>1, OwnershipHolds, PTL

\* No unit task is run a second time, and none is run without being grabbed.
THEOREM TasksRunOnce == Spec => RunOnce
<1>1. TypeInv /\ OwnerInv /\ [Next]_vars
        => [\A th \in Thread : RunTask(th) => ~done[hTask[th]] /\ grabbed[hTask[th]]]_vars
  <2> SUFFICES ASSUME TypeInv, OwnerInv, NEW th \in Thread, RunTask(th)
               PROVE  ~done[hTask[th]] /\ grabbed[hTask[th]]
    OBVIOUS
  <2>1. hTask[th] \in Task \ Group /\ pc[th] = "run" /\ Owns(th, hTask[th])
    BY DEF TypeInv, PointOK, RunTask, Owns
  <2> QED
    BY <2>1 DEF OwnerInv, HandOK
<1> QED
  BY <1>1, TypeCorrect, OwnershipHolds, PTL DEF Spec, RunOnce

\* wait() returns only once the task is done (task::invoke sets done_ before it
\* notifies).
THEOREM WaitReturnsWhenDone == Spec => WaitMeansDone
<1>1. TypeInv /\ OwnerInv /\ [Next]_vars
        => [\A c \in Client : WaitReturns(c) => done[hTask[c]]]_vars
  <2> SUFFICES ASSUME TypeInv, OwnerInv, NEW c \in Client, WaitReturns(c)
               PROVE  done[hTask[c]]
    OBVIOUS
  <2>1. hTask[c] \in Task /\ notified[hTask[c]]
    BY DEF TypeInv, PointOK, WaitReturns, Thread
  <2> QED
    BY <2>1 DEF OwnerInv, HandOK
<1> QED
  BY <1>1, TypeCorrect, OwnershipHolds, PTL DEF Spec, WaitMeansDone


-----------------------------------------------------------------------------
\* OnlyStopDropsTasks is preserved by every step.
LEMMA DropStep == TypeInv /\ OwnerInv /\ OnlyStopDropsTasks /\ [Next]_vars => OnlyStopDropsTasks'
<1> SUFFICES ASSUME TypeInv, OwnerInv, OnlyStopDropsTasks, [Next]_vars PROVE OnlyStopDropsTasks'
  OBVIOUS
<1> USE SchedulerAssumption DEF TypeInv, TypeOK, PointOK, Thread, taskVars, addVars, ctlVars, wVars, PhaseOK, OwnerInv, OnlyStopDropsTasks, Owns
<1>1. ASSUME NEW th \in Thread, NEW t \in Task, BeginAdd(th, t) PROVE OnlyStopDropsTasks'
  BY <1>1 DEF BeginAdd
<1>2. ASSUME NEW th \in Thread, PushTask(th) PROVE OnlyStopDropsTasks'
  BY <1>2 DEF PushTask
<1>3. ASSUME NEW th \in Thread, NEW w \in Worker, NotifyWorker(th, w) PROVE OnlyStopDropsTasks'
  BY <1>3 DEF NotifyWorker
<1>4. ASSUME NEW w \in Worker, EnterLoop(w) PROVE OnlyStopDropsTasks'
  BY <1>4 DEF EnterLoop, Goto, Hold
<1>5. ASSUME NEW w \in Worker, ExitLoop(w) PROVE OnlyStopDropsTasks'
  BY <1>5 DEF ExitLoop, Goto, Hold
<1>6. ASSUME NEW w \in Worker, DrainToken(w) PROVE OnlyStopDropsTasks'
  BY <1>6 DEF DrainToken, Goto, Hold
<1>7. ASSUME NEW w \in Worker, Drained(w) PROVE OnlyStopDropsTasks'
  BY <1>7 DEF Drained, Goto, Hold
<1>8. ASSUME NEW w \in Worker, CheckRunning(w) PROVE OnlyStopDropsTasks'
  BY <1>8 DEF CheckRunning, Goto, Hold
<1>9. ASSUME NEW w \in Worker, ScanNext(w) PROVE OnlyStopDropsTasks'
  BY <1>9 DEF ScanNext, Goto, Hold
<1>10. ASSUME NEW w \in Worker, PopTask(w) PROVE OnlyStopDropsTasks'
  BY <1>10 DEF PopTask, Goto, Hold
<1>11. ASSUME NEW w \in Worker, GrabTask(w) PROVE OnlyStopDropsTasks'
  <2> SUFFICES ASSUME NEW t \in Task \ Group, grabbed'[t], ~done'[t], ~stopped'
               PROVE  \E th \in Thread : Owns(th, t)'
    OBVIOUS
  <2>1. grabbed' = [grabbed EXCEPT ![hTask[w]] = TRUE] /\ done' = done /\ stopped' = stopped
    BY <1>11 DEF GrabTask
  <2>2. CASE grabbed[t]
    <3>1. PICK u \in Thread : Owns(u, t)
      BY <2>1, <2>2
    <3>2. u # w
      BY <1>11, <3>1 DEF GrabTask
    <3>3. Owns(u, t)'
      BY <1>11, <3>1, <3>2 DEF GrabTask, Goto, Hold
    <3> QED
      BY <3>3
  <2>3. CASE ~grabbed[t]
    <3>1. hTask[w] = t /\ ~done[t]
      BY <2>1, <2>3
    <3>2. hTask' = hTask /\ pc' = [pc EXCEPT ![w] = "verify"]
      BY <1>11, <2>3, <3>1 DEF GrabTask, Goto
    <3> QED
      BY <3>1, <3>2
  <2> QED
    BY <2>2, <2>3
<1>12. ASSUME NEW w \in Worker, GiveUp(w) PROVE OnlyStopDropsTasks'
  <2> SUFFICES ASSUME NEW t \in Task \ Group, grabbed'[t], ~done'[t], ~stopped'
               PROVE  \E th \in Thread : Owns(th, t)'
    OBVIOUS
  <2>1. ~running /\ pc[w] # "off" /\ ~stopped
    BY <1>12 DEF GiveUp
  <2> QED
    BY <2>1 DEF Phase
<1>13. ASSUME NEW w \in Worker, SkipDoneTask(w) PROVE OnlyStopDropsTasks'
  BY <1>13 DEF SkipDoneTask, Goto, Hold
<1>14. ASSUME NEW w \in Worker, AssignTask(w) PROVE OnlyStopDropsTasks'
  BY <1>14 DEF AssignTask, Goto, Hold
<1>15. ASSUME NEW w \in Worker, ReturnToRun(w) PROVE OnlyStopDropsTasks'
  BY <1>15 DEF ReturnToRun, Goto, Hold
<1>16. ASSUME NEW w \in Worker, TakeToken(w) PROVE OnlyStopDropsTasks'
  BY <1>16 DEF TakeToken, Goto, Hold
<1>17. ASSUME NEW w \in Worker, SpuriousWake(w) PROVE OnlyStopDropsTasks'
  BY <1>17 DEF SpuriousWake, Goto, Hold
<1>18. ASSUME NEW th \in Thread, RunTask(th) PROVE OnlyStopDropsTasks'
  BY <1>18 DEF RunTask, Goto, Hold
<1>19. ASSUME NEW th \in Thread, NotifyTask(th) PROVE OnlyStopDropsTasks'
  BY <1>19 DEF NotifyTask, Goto, Hold
<1>20. ASSUME NEW th \in Thread, RunGroup(th) PROVE OnlyStopDropsTasks'
  BY <1>20 DEF RunGroup, Goto, Hold
<1>21. ASSUME NEW th \in Thread, FinishTask(th) PROVE OnlyStopDropsTasks'
  <2> SUFFICES ASSUME NEW t \in Task \ Group, grabbed'[t], ~done'[t], ~stopped'
               PROVE  \E x \in Thread : Owns(x, t)'
    OBVIOUS
  <2>1. PICK u \in Thread : Owns(u, t)
    BY <1>21 DEF FinishTask
  <2>2. u # th
    BY <1>21, <2>1 DEF FinishTask, HandOK
  <2> QED
    BY <1>21, <2>1, <2>2 DEF FinishTask, Goto, Hold
<1>22. ASSUME NEW t \in Task, CompleteGroup(t) PROVE OnlyStopDropsTasks'
  BY <1>22 DEF CompleteGroup
<1>23. ASSUME NEW c \in Client, NEW t \in Task, ActiveWait(c, t) PROVE OnlyStopDropsTasks'
  BY <1>23 DEF ActiveWait, Goto, Hold
<1>24. ASSUME NEW c \in Client, NEW t \in Task, Wait(c, t) PROVE OnlyStopDropsTasks'
  BY <1>24 DEF Wait, Goto, Hold
<1>25. ASSUME NEW c \in Client, WaitReturns(c) PROVE OnlyStopDropsTasks'
  BY <1>25 DEF WaitReturns, Goto, Hold
<1>25b. ASSUME NEW c \in Client, WaitInterrupted(c) PROVE OnlyStopDropsTasks'
  BY <1>25b DEF WaitInterrupted, Goto, Hold
<1>26. ASSUME Start PROVE OnlyStopDropsTasks'
  BY <1>26 DEF Start
<1>27. ASSUME Stop PROVE OnlyStopDropsTasks'
  BY <1>27 DEF Stop
<1>28. ASSUME StartWorker PROVE OnlyStopDropsTasks'
  <2> SUFFICES ASSUME NEW t \in Task \ Group, grabbed'[t], ~done'[t], ~stopped'
               PROVE  \E th \in Thread : Owns(th, t)'
    OBVIOUS
  <2>1. PICK u \in Thread : Owns(u, t)
    BY <1>28 DEF StartWorker
  <2>2. hTask' = hTask /\ pc'[u] \in {pc[u], "loop"}
    BY <1>28 DEF StartWorker, Goto
  <2> QED
    BY <2>1, <2>2
<1>29. ASSUME StopWorker PROVE OnlyStopDropsTasks'
  BY <1>29 DEF StopWorker, VisitNext, Goto
<1>30. ASSUME WakeUpWorker PROVE OnlyStopDropsTasks'
  BY <1>30 DEF WakeUpWorker, VisitNext, Goto
<1>31. ASSUME JoinWorker PROVE OnlyStopDropsTasks'
  BY <1>31 DEF JoinWorker, VisitNext, Goto
<1>32. CASE UNCHANGED vars
  BY <1>32 DEF vars
<1> QED
  BY <1>1, <1>2, <1>3, <1>4, <1>5, <1>6, <1>7, <1>8, <1>9, <1>10, <1>11,
     <1>12, <1>13, <1>14, <1>15, <1>16, <1>17, <1>18, <1>19, <1>20, <1>21,
     <1>22, <1>23, <1>24, <1>25, <1>25b, <1>26, <1>27, <1>28, <1>29, <1>30, <1>31,
     <1>32
     DEF Next, AddStep, ExecuteStep, WorkerStep, ControlStep

\* Whatever is behind the head of a sequence is still in its tail.
LEMMA TailKeeps ==
  \A q \in Seq(Task) : \A i \in DOMAIN q :
    q[i] # Head(q) => \E j \in DOMAIN Tail(q) : Tail(q)[j] = q[i]
<1> TAKE q \in Seq(Task)
<1> TAKE i \in DOMAIN q
<1> HAVE q[i] # Head(q)
<1>1. i \in 1..Len(q) /\ i # 1 /\ q # <<>>
  OBVIOUS
<1>2. i - 1 \in DOMAIN Tail(q) /\ Tail(q)[i - 1] = q[i]
  BY <1>1
<1> QED
  BY <1>2

\* NoTaskForgotten is preserved by every step.
LEMMA ForgetStep == TypeInv /\ NoTaskForgotten /\ [Next]_vars => NoTaskForgotten'
<1> SUFFICES ASSUME TypeInv, NoTaskForgotten, [Next]_vars PROVE NoTaskForgotten'
  OBVIOUS
<1> USE SchedulerAssumption DEF TypeInv, TypeOK, PointOK, Thread, taskVars, addVars, ctlVars, wVars, NoTaskForgotten, Queued
<1>1. ASSUME NEW th \in Thread, NEW t \in Task, BeginAdd(th, t) PROVE NoTaskForgotten'
  <2> SUFFICES ASSUME NEW s \in Task, adds'[s] > 0, ~grabbed'[s], ~done'[s]
               PROVE  \/ \E u \in Thread : adding'[u] = s
                      \/ Queued(s)'
                      \/ \E v \in Worker : pc'[v] = "grab" /\ hTask'[v] = s
    OBVIOUS
  <2>1. adding' = [adding EXCEPT ![th] = t] /\ adding[th] = NoTask
    BY <1>1 DEF BeginAdd, InAdd
  <2>2. CASE s = t
    BY <2>1, <2>2
  <2>3. CASE s # t
    <3>1. adds[s] > 0 /\ ~grabbed[s] /\ ~done[s]
      BY <1>1, <2>3 DEF BeginAdd
    <3>2. \A u \in Thread : adding[u] = s => adding'[u] = s
      BY <2>1, NoTaskIsNone
    <3> QED
      BY <1>1, <3>1, <3>2 DEF BeginAdd
  <2> QED
    BY <2>2, <2>3
<1>2. ASSUME NEW th \in Thread, PushTask(th) PROVE NoTaskForgotten'
  <2> SUFFICES ASSUME NEW s \in Task, adds'[s] > 0, ~grabbed'[s], ~done'[s]
               PROVE  \/ \E u \in Thread : adding'[u] = s
                      \/ Queued(s)'
                      \/ \E v \in Worker : pc'[v] = "grab" /\ hTask'[v] = s
    OBVIOUS
  <2> DEFINE a == adding[th]
             q == pendingTasks[priority[a]]
  <2>1. /\ a \in Task /\ priority[a] \in Priority /\ q \in Seq(Task)
        /\ pendingTasks' = [pendingTasks EXCEPT ![priority[a]] = Append(q, a)]
        /\ adding' = [adding EXCEPT ![th] = NoTask]
        /\ UNCHANGED <<adds, grabbed, done, pc, hTask>>
    BY <1>2 DEF PushTask
  <2>2. CASE s = a
    <3>1. pendingTasks'[priority[s]] = Append(q, s)
      BY <2>1, <2>2
    <3>2. Len(q) + 1 \in DOMAIN Append(q, s) /\ Append(q, s)[Len(q) + 1] = s
      BY <2>1
    <3> QED
      BY <3>1, <3>2
  <2>3. CASE s # a
    <3>1. CASE Queued(s)
      <4>1. PICK i \in DOMAIN pendingTasks[priority[s]] : pendingTasks[priority[s]][i] = s
        BY <3>1
      <4>2. CASE priority[s] = priority[a]
        <5>1. i \in DOMAIN Append(q, a) /\ Append(q, a)[i] = s
          BY <2>1, <4>1, <4>2
        <5> QED
          BY <2>1, <4>2, <5>1
      <4>3. CASE priority[s] # priority[a]
        BY <2>1, <4>1, <4>3
      <4> QED
        BY <4>2, <4>3
    <3>2. CASE ~Queued(s)
      BY <2>1, <2>3, <3>2
    <3> QED
      BY <3>1, <3>2
  <2> QED
    BY <2>2, <2>3
<1>3. ASSUME NEW th \in Thread, NEW w \in Worker, NotifyWorker(th, w) PROVE NoTaskForgotten'
  BY <1>3 DEF NotifyWorker
<1>4. ASSUME NEW w \in Worker, EnterLoop(w) PROVE NoTaskForgotten'
  BY <1>4 DEF EnterLoop, Goto, Hold
<1>5. ASSUME NEW w \in Worker, ExitLoop(w) PROVE NoTaskForgotten'
  BY <1>5 DEF ExitLoop, Goto, Hold
<1>6. ASSUME NEW w \in Worker, DrainToken(w) PROVE NoTaskForgotten'
  BY <1>6 DEF DrainToken, Goto, Hold
<1>7. ASSUME NEW w \in Worker, Drained(w) PROVE NoTaskForgotten'
  BY <1>7 DEF Drained, Goto, Hold
<1>8. ASSUME NEW w \in Worker, CheckRunning(w) PROVE NoTaskForgotten'
  BY <1>8 DEF CheckRunning, Goto, Hold
<1>9. ASSUME NEW w \in Worker, ScanNext(w) PROVE NoTaskForgotten'
  BY <1>9 DEF ScanNext, Goto, Hold
<1>10. ASSUME NEW w \in Worker, PopTask(w) PROVE NoTaskForgotten'
  <2> SUFFICES ASSUME NEW s \in Task, adds'[s] > 0, ~grabbed'[s], ~done'[s]
               PROVE  \/ \E u \in Thread : adding'[u] = s
                      \/ Queued(s)'
                      \/ \E v \in Worker : pc'[v] = "grab" /\ hTask'[v] = s
    OBVIOUS
  <2> DEFINE p == scanPrio[w]
             q == pendingTasks[p]
  <2>1. /\ p \in Priority /\ q \in Seq(Task) /\ q # <<>>
        /\ hTask' = [hTask EXCEPT ![w] = Head(q)]
        /\ pc' = [pc EXCEPT ![w] = "grab"] /\ pc[w] = "scan"
        /\ pendingTasks' = [pendingTasks EXCEPT ![p] = Tail(q)]
        /\ UNCHANGED <<adds, grabbed, done, adding>>
    BY <1>10 DEF PopTask, Goto, Hold
  <2>2. CASE s = Head(q)
    BY <2>1, <2>2
  <2>3. CASE s # Head(q)
    <3>1. CASE Queued(s)
      <4>1. PICK i \in DOMAIN pendingTasks[priority[s]] : pendingTasks[priority[s]][i] = s
        BY <3>1
      <4>2. CASE priority[s] = p
        <5>1. \E j \in DOMAIN Tail(q) : Tail(q)[j] = s
          <6>1. i \in DOMAIN q /\ q[i] = s /\ q[i] # Head(q) /\ q \in Seq(Task)
            BY <2>1, <2>3, <4>1, <4>2
          <6>2. \E j \in DOMAIN Tail(q) : Tail(q)[j] = q[i]
            BY ONLY <6>1, TailKeeps
          <6> QED
            BY <6>1, <6>2
        <5>2. pendingTasks'[priority[s]] = Tail(q)
          BY <2>1, <4>2
        <5> QED
          BY <5>1, <5>2
      <4>3. CASE priority[s] # p
        BY <2>1, <4>1, <4>3
      <4> QED
        BY <4>2, <4>3
    <3>2. CASE ~Queued(s)
      <4>1. \A v \in Worker : pc[v] = "grab" => v # w
        BY <2>1
      <4> QED
        BY <2>1, <3>2, <4>1
    <3> QED
      BY <3>1, <3>2
  <2> QED
    BY <2>2, <2>3
<1>11. ASSUME NEW w \in Worker, GrabTask(w) PROVE NoTaskForgotten'
  <2> SUFFICES ASSUME NEW s \in Task, adds'[s] > 0, ~grabbed'[s], ~done'[s]
               PROVE  \/ \E u \in Thread : adding'[u] = s
                      \/ Queued(s)'
                      \/ \E v \in Worker : pc'[v] = "grab" /\ hTask'[v] = s
    OBVIOUS
  <2>1. /\ grabbed' = [grabbed EXCEPT ![hTask[w]] = TRUE]
        /\ UNCHANGED <<adds, done, adding, pendingTasks>>
        /\ \A v \in Worker : v # w => pc'[v] = pc[v] /\ hTask'[v] = hTask[v]
    BY <1>11 DEF GrabTask, Goto, Hold
  <2>2. s # hTask[w] /\ ~grabbed[s] /\ ~done[s] /\ adds[s] > 0
    BY <1>11, <2>1
  <2>3. CASE \E u \in Thread : adding[u] = s
    BY <2>1, <2>3
  <2>4. CASE Queued(s)
    BY <2>1, <2>4
  <2>5. CASE \E v \in Worker : pc[v] = "grab" /\ hTask[v] = s
    BY <2>1, <2>2, <2>5
  <2> QED
    BY <2>2, <2>3, <2>4, <2>5
<1>12. ASSUME NEW w \in Worker, GiveUp(w) PROVE NoTaskForgotten'
  BY <1>12 DEF GiveUp, Goto, Hold
<1>13. ASSUME NEW w \in Worker, SkipDoneTask(w) PROVE NoTaskForgotten'
  BY <1>13 DEF SkipDoneTask, Goto, Hold
<1>14. ASSUME NEW w \in Worker, AssignTask(w) PROVE NoTaskForgotten'
  BY <1>14 DEF AssignTask, Goto, Hold
<1>15. ASSUME NEW w \in Worker, ReturnToRun(w) PROVE NoTaskForgotten'
  BY <1>15 DEF ReturnToRun, Goto, Hold
<1>16. ASSUME NEW w \in Worker, TakeToken(w) PROVE NoTaskForgotten'
  BY <1>16 DEF TakeToken, Goto, Hold
<1>17. ASSUME NEW w \in Worker, SpuriousWake(w) PROVE NoTaskForgotten'
  BY <1>17 DEF SpuriousWake, Goto, Hold
<1>18. ASSUME NEW th \in Thread, RunTask(th) PROVE NoTaskForgotten'
  BY <1>18 DEF RunTask, Goto, Hold
<1>19. ASSUME NEW th \in Thread, NotifyTask(th) PROVE NoTaskForgotten'
  BY <1>19 DEF NotifyTask, Goto, Hold
<1>20. ASSUME NEW th \in Thread, RunGroup(th) PROVE NoTaskForgotten'
  BY <1>20 DEF RunGroup, Goto, Hold
<1>21. ASSUME NEW th \in Thread, FinishTask(th) PROVE NoTaskForgotten'
  BY <1>21 DEF FinishTask, Goto, Hold
<1>22. ASSUME NEW t \in Task, CompleteGroup(t) PROVE NoTaskForgotten'
  BY <1>22 DEF CompleteGroup
<1>23. ASSUME NEW c \in Client, NEW t \in Task, ActiveWait(c, t) PROVE NoTaskForgotten'
  BY <1>23 DEF ActiveWait, Goto, Hold
<1>24. ASSUME NEW c \in Client, NEW t \in Task, Wait(c, t) PROVE NoTaskForgotten'
  BY <1>24 DEF Wait, Goto, Hold
<1>25. ASSUME NEW c \in Client, WaitReturns(c) PROVE NoTaskForgotten'
  BY <1>25 DEF WaitReturns, Goto, Hold
<1>25b. ASSUME NEW c \in Client, WaitInterrupted(c) PROVE NoTaskForgotten'
  BY <1>25b DEF WaitInterrupted, Goto, Hold
<1>26. ASSUME Start PROVE NoTaskForgotten'
  BY <1>26 DEF Start
<1>27. ASSUME Stop PROVE NoTaskForgotten'
  BY <1>27 DEF Stop
<1>28. ASSUME StartWorker PROVE NoTaskForgotten'
  <2> SUFFICES ASSUME NEW s \in Task, adds'[s] > 0, ~grabbed'[s], ~done'[s]
               PROVE  \/ \E u \in Thread : adding'[u] = s
                      \/ Queued(s)'
                      \/ \E v \in Worker : pc'[v] = "grab" /\ hTask'[v] = s
    OBVIOUS
  <2>4. pc[visiting] = "off"
    BY <1>28 DEF StartWorker, VisitNext, Worker, PhaseOK
  <2>1. /\ pc[visiting] = "off"
        /\ \A v \in Worker : v # visiting => pc'[v] = pc[v]
        /\ UNCHANGED <<adds, grabbed, done, adding, pendingTasks, hTask>>
    BY <1>28, <2>4 DEF StartWorker, Goto
  <2>2. CASE Queued(s) \/ \E u \in Thread : adding[u] = s
    BY <2>1, <2>2
  <2>3. CASE \E v \in Worker : pc[v] = "grab" /\ hTask[v] = s
    BY <2>1, <2>3
  <2> QED
    BY <2>1, <2>2, <2>3
<1>29. ASSUME StopWorker PROVE NoTaskForgotten'
  BY <1>29 DEF StopWorker, VisitNext, Goto
<1>30. ASSUME WakeUpWorker PROVE NoTaskForgotten'
  BY <1>30 DEF WakeUpWorker, VisitNext, Goto
<1>31. ASSUME JoinWorker PROVE NoTaskForgotten'
  BY <1>31 DEF JoinWorker, VisitNext, Goto
<1>32. CASE UNCHANGED vars
  BY <1>32 DEF vars
<1> QED
  BY <1>1, <1>2, <1>3, <1>4, <1>5, <1>6, <1>7, <1>8, <1>9, <1>10, <1>11,
     <1>12, <1>13, <1>14, <1>15, <1>16, <1>17, <1>18, <1>19, <1>20, <1>21,
     <1>22, <1>23, <1>24, <1>25, <1>25b, <1>26, <1>27, <1>28, <1>29, <1>30, <1>31,
     <1>32
     DEF Next, AddStep, ExecuteStep, WorkerStep, ControlStep

\* At the start no task is grabbed or added.
LEMMA KeepInit == Init => OnlyStopDropsTasks /\ NoTaskForgotten
BY SchedulerAssumption DEF Init, OnlyStopDropsTasks, NoTaskForgotten

\* Before stop(), a grabbed unit task that is not done is in a thread's hands
\* (waitForNextTask, signalAvailableWorker, worker::run, task::activeWait).
THEOREM GrabbedTasksAreKept == Spec => []OnlyStopDropsTasks
<1>1. TypeInv /\ OwnerInv /\ OnlyStopDropsTasks /\ [Next]_vars => OnlyStopDropsTasks'
  BY DropStep
<1> QED
  BY <1>1, KeepInit, TypeCorrect, OwnershipHolds, PTL DEF Spec

\* A task given to add() stays reachable until someone grabs it or it is done.
THEOREM AddedTasksAreKept == Spec => []NoTaskForgotten
<1>1. TypeInv /\ NoTaskForgotten /\ [Next]_vars => NoTaskForgotten'
  BY ForgetStep
<1> QED
  BY <1>1, KeepInit, TypeCorrect, PTL DEF Spec

-----------------------------------------------------------------------------
(* The refinement of TaskLifecycle.                                         *)

\* The hand of a thread is the unit task it has, or nothing.
LEMMA HolderValue ==
  ASSUME NEW th \in Thread
  PROVE  /\ \A t \in Task \ Group : Has(th, t) => HolderOf(th) = t
         /\ (\A t \in Task \ Group : ~Has(th, t)) => HolderOf(th) = NoTask
BY DEF HolderOf, Has, Owns

\* A step that changes no flag and no hand is not seen.
LEMMA StutterStep ==
  ASSUME \A t \in Task \ Group : /\ grabbed'[t] = grabbed[t]
                                 /\ done'[t] = done[t]
                                 /\ adds'[t] = adds[t],
         \A th \in Thread, t \in Task \ Group : Has(th, t)' <=> Has(th, t),
         stopped' = stopped
  PROVE  UNCHANGED Lifecycle!vars
<1>1. status' = status
  BY DEF status, StatusOf
<1>2. ASSUME NEW th \in Thread PROVE HolderOf(th)' = HolderOf(th)
  <2>1. CASE \E t \in Task \ Group : Has(th, t)
    <3>1. PICK t \in Task \ Group : Has(th, t) /\ Has(th, t)'
      BY <2>1
    <3> QED
      BY <3>1 DEF HolderOf, Has, Owns
  <2>2. CASE ~\E t \in Task \ Group : Has(th, t)
    BY <2>2 DEF HolderOf
  <2> QED
    BY <2>1, <2>2
<1>3. holder' = holder
  BY <1>2 DEF holder
<1> QED
  BY <1>1, <1>3 DEF Lifecycle!vars

\* At the start every unit task is idle for TaskLifecycle too.
LEMMA LifecycleInit == Init => Lifecycle!Init
<1> SUFFICES ASSUME Init PROVE Lifecycle!Init
  OBVIOUS
<1>1. \A t \in Task \ Group : StatusOf(t) = "idle"
  BY DEF Init, StatusOf
<1>2. \A th \in Thread : HolderOf(th) = NoTask
  BY DEF Init, HolderOf
<1> QED
  BY <1>1, <1>2 DEF Init, Lifecycle!Init, status, holder

\* The hands of the threads other than x are what they were.
OthersKeep(x) ==
  \A u \in Thread \ {x} : \A s \in Task \ Group : Has(u, s)' <=> Has(u, s)

\* A step after which everybody else has the tasks they had changes the holder of
\* the tasks of one thread only.
LEMMA OtherHolders ==
  ASSUME NEW x \in Thread, OthersKeep(x)
  PROVE  /\ \A u \in Thread \ {x} : HolderOf(u)' = HolderOf(u)
         /\ holder' = [holder EXCEPT ![x] = HolderOf(x)']
<1>1. ASSUME NEW u \in Thread \ {x} PROVE HolderOf(u)' = HolderOf(u)
  <2>1. CASE \E s \in Task \ Group : Has(u, s)
    <3>1. PICK s \in Task \ Group : Has(u, s) /\ Has(u, s)'
      BY <2>1 DEF OthersKeep
    <3> QED
      BY <3>1 DEF HolderOf, Has, Owns
  <2>2. CASE ~\E s \in Task \ Group : Has(u, s)
    BY <2>2 DEF HolderOf, OthersKeep
  <2> QED
    BY <2>1, <2>2
<1> QED
  BY <1>1 DEF holder

\* A thread takes a task nobody had.
LEMMA TakeStep ==
  ASSUME NEW x \in Thread, NEW t \in Task \ Group,
         grabbed \in [Task -> BOOLEAN],
         ~grabbed[t], ~done[t],
         grabbed' = [grabbed EXCEPT ![t] = TRUE],
         UNCHANGED <<done, adds, stopped>>,
         \A s \in Task \ Group : ~Has(x, s), Has(x, t)', OthersKeep(x)
  PROVE  Lifecycle!Take(x, t)
<1>1. holder[x] = NoTask /\ holder' = [holder EXCEPT ![x] = t]
  BY OtherHolders, HolderValue DEF holder, HolderOf, Has, Owns
<1>2. status[t] \in {"idle", "added"}
  BY DEF status, StatusOf
<1>3. \A s \in Task \ Group : StatusOf(s)' = IF s = t THEN "taken" ELSE StatusOf(s)
  BY DEF StatusOf
<1>4. status' = [status EXCEPT ![t] = "taken"]
  BY <1>3 DEF status
<1> QED
  BY <1>1, <1>2, <1>4 DEF Lifecycle!Take

\* A thread lets go of a task it has not run, after stop().
LEMMA AbandonStep ==
  ASSUME NEW x \in Thread, NEW t \in Task \ Group,
         stopped, NoTask \notin Task, Has(x, t),
         UNCHANGED <<grabbed, done, adds, stopped>>,
         \A s \in Task \ Group : ~Has(x, s)', OthersKeep(x)
  PROVE  Lifecycle!Abandon(x)
<1>1. holder[x] # NoTask
  BY HolderValue DEF holder
<1>2. holder' = [holder EXCEPT ![x] = NoTask]
  BY OtherHolders DEF HolderOf
<1>3. status' = status
  BY DEF status, StatusOf
<1> QED
  BY <1>1, <1>2, <1>3 DEF Lifecycle!Abandon

\* A thread has run the task it had.
LEMMA CompleteStep ==
  ASSUME NEW x \in Thread, NEW t \in Task \ Group,
         done \in [Task -> BOOLEAN], NoTask \notin Task, Has(x, t),
         done' = [done EXCEPT ![t] = TRUE],
         UNCHANGED <<grabbed, adds, stopped>>,
         \A s \in Task \ Group : ~Has(x, s)', OthersKeep(x)
  PROVE  Lifecycle!Complete(x)
<1>1. holder[x] = t /\ holder[x] # NoTask
  BY HolderValue DEF holder
<1>2. holder' = [holder EXCEPT ![x] = NoTask]
  BY OtherHolders DEF HolderOf
<1>3. \A s \in Task \ Group : StatusOf(s)' = IF s = t THEN "done" ELSE StatusOf(s)
  BY DEF StatusOf
<1>4. status' = [status EXCEPT ![t] = "done"]
  BY <1>3 DEF status
<1> QED
  BY <1>1, <1>2, <1>4 DEF Lifecycle!Complete

\* Every step of the scheduler is one of TaskLifecycle or changes nothing of it.
LEMMA LifecycleStep == TypeInv /\ OwnerInv /\ [Next]_vars => [Lifecycle!Next]_Lifecycle!vars
<1> SUFFICES ASSUME TypeInv, OwnerInv, [Next]_vars PROVE [Lifecycle!Next]_Lifecycle!vars
  OBVIOUS
<1> USE SchedulerAssumption DEF TypeInv, TypeOK, PointOK, Thread, taskVars, addVars, ctlVars, wVars
<1>1. ASSUME NEW th \in Thread, NEW t \in Task, BeginAdd(th, t) PROVE [Lifecycle!Next]_Lifecycle!vars
  <2>1. /\ UNCHANGED <<grabbed, done, pc, hTask, stopped>>
        /\ adds' = [adds EXCEPT ![t] = adds[t] + 1] /\ ~grabbed[t] /\ ~done[t]
    BY <1>1 DEF BeginAdd
  <2>2. holder' = holder
    BY <2>1 DEF holder, HolderOf, Has, Owns
  <2>3. \A s \in Task \ Group : s # t => StatusOf(s)' = StatusOf(s)
    BY <2>1 DEF StatusOf
  <2>4. t \in Task \ Group => StatusOf(t)' = "added" /\ StatusOf(t) \in {"idle", "added"}
    BY <2>1 DEF StatusOf
  <2>5. CASE t \in Task \ Group /\ StatusOf(t) = "idle"
    <3>1. status' = [status EXCEPT ![t] = "added"] /\ status[t] = "idle"
      BY <2>3, <2>4, <2>5 DEF status
    <3>2. Lifecycle!Submit(t)
      BY <2>1, <2>2, <3>1 DEF Lifecycle!Submit
    <3> QED
      BY <2>5, <3>2 DEF Lifecycle!Next
  <2>6. CASE ~(t \in Task \ Group /\ StatusOf(t) = "idle")
    <3>1. status' = status
      BY <2>3, <2>4, <2>6 DEF status
    <3> QED
      BY <2>1, <2>2, <3>1 DEF Lifecycle!vars
  <2> QED
    BY <2>5, <2>6
<1>2. ASSUME NEW th \in Thread, PushTask(th) PROVE [Lifecycle!Next]_Lifecycle!vars
  <2>1. \A s \in Task \ Group : /\ grabbed'[s] = grabbed[s] /\ done'[s] = done[s]
                               /\ adds'[s] = adds[s]
    BY <1>2 DEF PushTask
  <2>2. \A u \in Thread, s \in Task \ Group : Has(u, s)' <=> Has(u, s)
    BY <1>2, NoTaskIsNone DEF PushTask, Has, Owns
  <2>3. stopped' = stopped
    BY <1>2 DEF PushTask
  <2> QED
    BY <2>1, <2>2, <2>3, StutterStep
<1>3. ASSUME NEW th \in Thread, NEW w \in Worker, NotifyWorker(th, w) PROVE [Lifecycle!Next]_Lifecycle!vars
  <2>1. \A s \in Task \ Group : /\ grabbed'[s] = grabbed[s] /\ done'[s] = done[s]
                               /\ adds'[s] = adds[s]
    BY <1>3 DEF NotifyWorker
  <2>2. \A u \in Thread, s \in Task \ Group : Has(u, s)' <=> Has(u, s)
    BY <1>3, NoTaskIsNone DEF NotifyWorker, Has, Owns
  <2>3. stopped' = stopped
    BY <1>3 DEF NotifyWorker
  <2> QED
    BY <2>1, <2>2, <2>3, StutterStep
<1>4. ASSUME NEW w \in Worker, EnterLoop(w) PROVE [Lifecycle!Next]_Lifecycle!vars
  <2>1. \A s \in Task \ Group : /\ grabbed'[s] = grabbed[s] /\ done'[s] = done[s]
                               /\ adds'[s] = adds[s]
    BY <1>4 DEF EnterLoop, Goto, Hold
  <2>2. \A u \in Thread, s \in Task \ Group : Has(u, s)' <=> Has(u, s)
    BY <1>4, NoTaskIsNone DEF EnterLoop, Goto, Hold, Has, Owns
  <2>3. stopped' = stopped
    BY <1>4 DEF EnterLoop, Goto, Hold
  <2> QED
    BY <2>1, <2>2, <2>3, StutterStep
<1>5. ASSUME NEW w \in Worker, ExitLoop(w) PROVE [Lifecycle!Next]_Lifecycle!vars
  <2>1. /\ UNCHANGED <<grabbed, done, adds, stopped>>
        /\ OthersKeep(w)
        /\ \A s \in Task \ Group : ~Has(w, s)'
    BY <1>5, NoTaskIsNone DEF ExitLoop, Goto, Hold, OthersKeep, Has, Owns
  <2>2. CASE \E s \in Task \ Group : Has(w, s)
    <3>1. PICK s \in Task \ Group : Has(w, s)
      BY <2>2
    <3>2. stopped
      BY <1>5 DEF ExitLoop, PhaseOK
    <3>3. Lifecycle!Abandon(w)
      BY <2>1, <3>1, <3>2, NoTaskIsNone, AbandonStep
    <3> QED
      BY <3>3 DEF Lifecycle!Next
  <2>3. CASE ~\E s \in Task \ Group : Has(w, s)
    <3>1. \A u \in Thread, s \in Task \ Group : Has(u, s)' <=> Has(u, s)
      BY <2>1, <2>3 DEF OthersKeep
    <3> QED
      BY <2>1, <3>1, StutterStep
  <2> QED
    BY <2>2, <2>3
<1>6. ASSUME NEW w \in Worker, DrainToken(w) PROVE [Lifecycle!Next]_Lifecycle!vars
  <2>1. \A s \in Task \ Group : /\ grabbed'[s] = grabbed[s] /\ done'[s] = done[s]
                               /\ adds'[s] = adds[s]
    BY <1>6 DEF DrainToken, Goto, Hold
  <2>2. \A u \in Thread, s \in Task \ Group : Has(u, s)' <=> Has(u, s)
    BY <1>6, NoTaskIsNone DEF DrainToken, Goto, Hold, Has, Owns
  <2>3. stopped' = stopped
    BY <1>6 DEF DrainToken, Goto, Hold
  <2> QED
    BY <2>1, <2>2, <2>3, StutterStep
<1>7. ASSUME NEW w \in Worker, Drained(w) PROVE [Lifecycle!Next]_Lifecycle!vars
  <2>1. \A s \in Task \ Group : /\ grabbed'[s] = grabbed[s] /\ done'[s] = done[s]
                               /\ adds'[s] = adds[s]
    BY <1>7 DEF Drained, Goto, Hold
  <2>2. \A u \in Thread, s \in Task \ Group : Has(u, s)' <=> Has(u, s)
    BY <1>7, NoTaskIsNone DEF Drained, Goto, Hold, Has, Owns
  <2>3. stopped' = stopped
    BY <1>7 DEF Drained, Goto, Hold
  <2> QED
    BY <2>1, <2>2, <2>3, StutterStep
<1>8. ASSUME NEW w \in Worker, CheckRunning(w) PROVE [Lifecycle!Next]_Lifecycle!vars
  <2>1. \A s \in Task \ Group : /\ grabbed'[s] = grabbed[s] /\ done'[s] = done[s]
                               /\ adds'[s] = adds[s]
    BY <1>8 DEF CheckRunning, Goto, Hold
  <2>2. \A u \in Thread, s \in Task \ Group : Has(u, s)' <=> Has(u, s)
    BY <1>8, NoTaskIsNone DEF CheckRunning, Goto, Hold, Has, Owns
  <2>3. stopped' = stopped
    BY <1>8 DEF CheckRunning, Goto, Hold
  <2> QED
    BY <2>1, <2>2, <2>3, StutterStep
<1>9. ASSUME NEW w \in Worker, ScanNext(w) PROVE [Lifecycle!Next]_Lifecycle!vars
  <2>1. \A s \in Task \ Group : /\ grabbed'[s] = grabbed[s] /\ done'[s] = done[s]
                               /\ adds'[s] = adds[s]
    BY <1>9 DEF ScanNext, Goto, Hold
  <2>2. \A u \in Thread, s \in Task \ Group : Has(u, s)' <=> Has(u, s)
    BY <1>9, NoTaskIsNone DEF ScanNext, Goto, Hold, Has, Owns
  <2>3. stopped' = stopped
    BY <1>9 DEF ScanNext, Goto, Hold
  <2> QED
    BY <2>1, <2>2, <2>3, StutterStep
<1>10. ASSUME NEW w \in Worker, PopTask(w) PROVE [Lifecycle!Next]_Lifecycle!vars
  <2>1. \A s \in Task \ Group : /\ grabbed'[s] = grabbed[s] /\ done'[s] = done[s]
                               /\ adds'[s] = adds[s]
    BY <1>10 DEF PopTask, Goto, Hold
  <2>2. \A u \in Thread, s \in Task \ Group : Has(u, s)' <=> Has(u, s)
    BY <1>10, NoTaskIsNone DEF PopTask, Goto, Hold, Has, Owns
  <2>3. stopped' = stopped
    BY <1>10 DEF PopTask, Goto, Hold
  <2> QED
    BY <2>1, <2>2, <2>3, StutterStep
<1>11. ASSUME NEW w \in Worker, GrabTask(w) PROVE [Lifecycle!Next]_Lifecycle!vars
  <2>0. PICK t \in Task : t = hTask[w]
    BY <1>11 DEF GrabTask
  <2>1. /\ t \in Task /\ pc[w] = "grab" /\ w \in Thread
        /\ grabbed' = [grabbed EXCEPT ![t] = TRUE]
        /\ UNCHANGED <<done, adds, stopped>>
        /\ \A s \in Task \ Group : ~Has(w, s)
    BY <1>11, <2>0 DEF GrabTask, Has, Owns
  <2>2. OthersKeep(w)
    BY <1>11 DEF GrabTask, Goto, Hold, OthersKeep, Has, Owns
  <2>3. CASE t \notin Group /\ ~grabbed[t]
    <3>1. ~done[t]
      BY <2>1, <2>3 DEF OwnerInv, HandOK
    <3>2. Has(w, t)'
      BY <1>11, <2>0, <2>1, <2>3, <3>1 DEF GrabTask, Goto, Has, Owns
    <3>3. Lifecycle!Take(w, t)
      BY <2>1, <2>2, <2>3, <3>1, <3>2, TakeStep
    <3> QED
      BY <2>1, <2>3, <3>3 DEF Lifecycle!Next
  <2>4. CASE ~(t \notin Group /\ ~grabbed[t])
    <3>1. \A s \in Task \ Group : grabbed'[s] = grabbed[s] /\ done'[s] = done[s]
      BY <2>1, <2>4
    <3>2. \A s \in Task \ Group : ~Has(w, s)'
      BY <1>11, <2>0, <2>1, <2>4, NoTaskIsNone DEF GrabTask, Goto, Hold, Has, Owns
    <3>3. \A u \in Thread, s \in Task \ Group : Has(u, s)' <=> Has(u, s)
      BY <2>1, <2>2, <3>2 DEF OthersKeep
    <3> QED
      BY <2>1, <3>1, <3>3, StutterStep
  <2> QED
    BY <2>3, <2>4
<1>12. ASSUME NEW w \in Worker, GiveUp(w) PROVE [Lifecycle!Next]_Lifecycle!vars
  <2>1. /\ UNCHANGED <<grabbed, done, adds, stopped>>
        /\ OthersKeep(w)
        /\ \A s \in Task \ Group : ~Has(w, s)'
    BY <1>12, NoTaskIsNone DEF GiveUp, Goto, Hold, OthersKeep, Has, Owns
  <2>2. CASE \E s \in Task \ Group : Has(w, s)
    <3>1. PICK s \in Task \ Group : Has(w, s)
      BY <2>2
    <3>2. stopped
      BY <1>12 DEF GiveUp, PhaseOK, Phase
    <3>3. Lifecycle!Abandon(w)
      BY <2>1, <3>1, <3>2, NoTaskIsNone, AbandonStep
    <3> QED
      BY <3>3 DEF Lifecycle!Next
  <2>3. CASE ~\E s \in Task \ Group : Has(w, s)
    <3>1. \A u \in Thread, s \in Task \ Group : Has(u, s)' <=> Has(u, s)
      BY <2>1, <2>3 DEF OthersKeep
    <3> QED
      BY <2>1, <3>1, StutterStep
  <2> QED
    BY <2>2, <2>3
<1>13. ASSUME NEW w \in Worker, SkipDoneTask(w) PROVE [Lifecycle!Next]_Lifecycle!vars
  <2>1. \A s \in Task \ Group : /\ grabbed'[s] = grabbed[s] /\ done'[s] = done[s]
                               /\ adds'[s] = adds[s]
    BY <1>13 DEF SkipDoneTask, Goto, Hold
  <2>2. \A u \in Thread, s \in Task \ Group : Has(u, s)' <=> Has(u, s)
    BY <1>13, NoTaskIsNone DEF SkipDoneTask, Goto, Hold, Has, Owns
  <2>3. stopped' = stopped
    BY <1>13 DEF SkipDoneTask, Goto, Hold
  <2> QED
    BY <2>1, <2>2, <2>3, StutterStep
<1>14. ASSUME NEW w \in Worker, AssignTask(w) PROVE [Lifecycle!Next]_Lifecycle!vars
  <2>1. \A s \in Task \ Group : /\ grabbed'[s] = grabbed[s] /\ done'[s] = done[s]
                               /\ adds'[s] = adds[s]
    BY <1>14 DEF AssignTask, Goto, Hold
  <2>2. \A u \in Thread, s \in Task \ Group : Has(u, s)' <=> Has(u, s)
    BY <1>14, NoTaskIsNone DEF AssignTask, Goto, Hold, Has, Owns
  <2>3. stopped' = stopped
    BY <1>14 DEF AssignTask, Goto, Hold
  <2> QED
    BY <2>1, <2>2, <2>3, StutterStep
<1>15. ASSUME NEW w \in Worker, ReturnToRun(w) PROVE [Lifecycle!Next]_Lifecycle!vars
  <2>1. \A s \in Task \ Group : /\ grabbed'[s] = grabbed[s] /\ done'[s] = done[s]
                               /\ adds'[s] = adds[s]
    BY <1>15 DEF ReturnToRun, Goto, Hold
  <2>2. \A u \in Thread, s \in Task \ Group : Has(u, s)' <=> Has(u, s)
    BY <1>15, NoTaskIsNone DEF ReturnToRun, Goto, Hold, Has, Owns
  <2>3. stopped' = stopped
    BY <1>15 DEF ReturnToRun, Goto, Hold
  <2> QED
    BY <2>1, <2>2, <2>3, StutterStep
<1>16. ASSUME NEW w \in Worker, TakeToken(w) PROVE [Lifecycle!Next]_Lifecycle!vars
  <2>1. \A s \in Task \ Group : /\ grabbed'[s] = grabbed[s] /\ done'[s] = done[s]
                               /\ adds'[s] = adds[s]
    BY <1>16 DEF TakeToken, Goto, Hold
  <2>2. \A u \in Thread, s \in Task \ Group : Has(u, s)' <=> Has(u, s)
    BY <1>16, NoTaskIsNone DEF TakeToken, Goto, Hold, Has, Owns
  <2>3. stopped' = stopped
    BY <1>16 DEF TakeToken, Goto, Hold
  <2> QED
    BY <2>1, <2>2, <2>3, StutterStep
<1>17. ASSUME NEW w \in Worker, SpuriousWake(w) PROVE [Lifecycle!Next]_Lifecycle!vars
  <2>1. \A s \in Task \ Group : /\ grabbed'[s] = grabbed[s] /\ done'[s] = done[s]
                               /\ adds'[s] = adds[s]
    BY <1>17 DEF SpuriousWake, Goto, Hold
  <2>2. \A u \in Thread, s \in Task \ Group : Has(u, s)' <=> Has(u, s)
    BY <1>17, NoTaskIsNone DEF SpuriousWake, Goto, Hold, Has, Owns
  <2>3. stopped' = stopped
    BY <1>17 DEF SpuriousWake, Goto, Hold
  <2> QED
    BY <2>1, <2>2, <2>3, StutterStep
<1>18. ASSUME NEW th \in Thread, RunTask(th) PROVE [Lifecycle!Next]_Lifecycle!vars
  <2> DEFINE t == hTask[th]
  <2>1. /\ t \in Task \ Group /\ Has(th, t)
        /\ done' = [done EXCEPT ![t] = TRUE]
        /\ UNCHANGED <<grabbed, adds, hTask, stopped>>
        /\ pc' = [pc EXCEPT ![th] = "notify"]
    BY <1>18 DEF RunTask, Goto, OwnerInv, HandOK, Has, Owns
  <2>2. \A s \in Task \ Group : ~Has(th, s)'
    BY <2>1 DEF Has, Owns
  <2>3. OthersKeep(th)
    BY <2>1 DEF OthersKeep, Has, Owns, OwnerInv, ExclusiveOwner
  <2>4. Lifecycle!Complete(th)
    BY <2>1, <2>2, <2>3, NoTaskIsNone, CompleteStep
  <2> QED
    BY <2>4 DEF Lifecycle!Next
<1>19. ASSUME NEW th \in Thread, NotifyTask(th) PROVE [Lifecycle!Next]_Lifecycle!vars
  <2>1. \A s \in Task \ Group : /\ grabbed'[s] = grabbed[s] /\ done'[s] = done[s]
                               /\ adds'[s] = adds[s]
    BY <1>19 DEF NotifyTask, Goto, Hold
  <2>2. \A u \in Thread, s \in Task \ Group : Has(u, s)' <=> Has(u, s)
    BY <1>19, NoTaskIsNone DEF NotifyTask, Goto, Hold, Has, Owns
  <2>3. stopped' = stopped
    BY <1>19 DEF NotifyTask, Goto, Hold
  <2> QED
    BY <2>1, <2>2, <2>3, StutterStep
<1>20. ASSUME NEW th \in Thread, RunGroup(th) PROVE [Lifecycle!Next]_Lifecycle!vars
  <2>1. \A s \in Task \ Group : /\ grabbed'[s] = grabbed[s] /\ done'[s] = done[s]
                               /\ adds'[s] = adds[s]
    BY <1>20 DEF RunGroup, Goto, Hold
  <2>2. \A u \in Thread, s \in Task \ Group : Has(u, s)' <=> Has(u, s)
    BY <1>20, NoTaskIsNone DEF RunGroup, Goto, Hold, Has, Owns
  <2>3. stopped' = stopped
    BY <1>20 DEF RunGroup, Goto, Hold
  <2> QED
    BY <2>1, <2>2, <2>3, StutterStep
<1>21. ASSUME NEW th \in Thread, FinishTask(th) PROVE [Lifecycle!Next]_Lifecycle!vars
  <2>1. \A s \in Task \ Group : /\ grabbed'[s] = grabbed[s] /\ done'[s] = done[s]
                               /\ adds'[s] = adds[s]
    BY <1>21 DEF FinishTask, Goto, Hold
  <2>2. \A u \in Thread, s \in Task \ Group : Has(u, s)' <=> Has(u, s)
    <3>1. \A s \in Task \ Group : ~Has(th, s) /\ ~Has(th, s)'
      BY <1>21, NoTaskIsNone DEF FinishTask, Goto, Hold, Has, Owns, OwnerInv, HandOK
    <3>2. OthersKeep(th)
      BY <1>21 DEF FinishTask, Goto, Hold, OthersKeep, Has, Owns
    <3> QED
      BY <3>1, <3>2 DEF OthersKeep
  <2>3. stopped' = stopped
    BY <1>21 DEF FinishTask, Goto, Hold
  <2> QED
    BY <2>1, <2>2, <2>3, StutterStep
<1>22. ASSUME NEW t \in Task, CompleteGroup(t) PROVE [Lifecycle!Next]_Lifecycle!vars
  <2>1. \A s \in Task \ Group : /\ grabbed'[s] = grabbed[s] /\ done'[s] = done[s]
                               /\ adds'[s] = adds[s]
    BY <1>22 DEF CompleteGroup
  <2>2. \A u \in Thread, s \in Task \ Group : Has(u, s)' <=> Has(u, s)
    BY <1>22, NoTaskIsNone DEF CompleteGroup, Has, Owns
  <2>3. stopped' = stopped
    BY <1>22 DEF CompleteGroup
  <2> QED
    BY <2>1, <2>2, <2>3, StutterStep
<1>23. ASSUME NEW c \in Client, NEW t \in Task, ActiveWait(c, t) PROVE [Lifecycle!Next]_Lifecycle!vars
  <2>1. /\ t \in Task \ Group /\ pc[c] = "ready" /\ c \in Thread
        /\ grabbed' = [grabbed EXCEPT ![t] = TRUE]
        /\ UNCHANGED <<done, adds, stopped>>
        /\ \A s \in Task \ Group : ~Has(c, s)
    BY <1>23, NoTaskIsNone DEF ActiveWait, Has, Owns
  <2>2. OthersKeep(c)
    BY <1>23 DEF ActiveWait, Goto, Hold, OthersKeep, Has, Owns
  <2>3. CASE ~grabbed[t]
    <3>1. ~done[t]
      BY <2>1, <2>3 DEF OwnerInv, HandOK
    <3>2. Has(c, t)'
      BY <1>23, <2>1, <2>3, <3>1 DEF ActiveWait, Goto, Hold, Has, Owns
    <3>3. Lifecycle!Take(c, t)
      BY <2>1, <2>2, <2>3, <3>1, <3>2, TakeStep
    <3> QED
      BY <2>1, <3>3 DEF Lifecycle!Next
  <2>4. CASE grabbed[t]
    <3>1. \A s \in Task \ Group : ~Has(c, s)'
      BY <1>23, <2>4 DEF ActiveWait, Goto, Hold, Has, Owns
    <3>2. \A u \in Thread, s \in Task \ Group : Has(u, s)' <=> Has(u, s)
      BY <2>1, <2>2, <3>1 DEF OthersKeep
    <3>3. \A s \in Task \ Group : grabbed'[s] = grabbed[s]
      BY <2>1, <2>4
    <3> QED
      BY <2>1, <3>2, <3>3, StutterStep
  <2> QED
    BY <2>3, <2>4
<1>24. ASSUME NEW c \in Client, NEW t \in Task, Wait(c, t) PROVE [Lifecycle!Next]_Lifecycle!vars
  <2>1. \A s \in Task \ Group : /\ grabbed'[s] = grabbed[s] /\ done'[s] = done[s]
                               /\ adds'[s] = adds[s]
    BY <1>24 DEF Wait, Goto, Hold
  <2>2. \A u \in Thread, s \in Task \ Group : Has(u, s)' <=> Has(u, s)
    BY <1>24, NoTaskIsNone DEF Wait, Goto, Hold, Has, Owns
  <2>3. stopped' = stopped
    BY <1>24 DEF Wait, Goto, Hold
  <2> QED
    BY <2>1, <2>2, <2>3, StutterStep
<1>25. ASSUME NEW c \in Client, WaitReturns(c) PROVE [Lifecycle!Next]_Lifecycle!vars
  <2>1. \A s \in Task \ Group : /\ grabbed'[s] = grabbed[s] /\ done'[s] = done[s]
                               /\ adds'[s] = adds[s]
    BY <1>25 DEF WaitReturns, Goto, Hold
  <2>2. \A u \in Thread, s \in Task \ Group : Has(u, s)' <=> Has(u, s)
    BY <1>25, NoTaskIsNone DEF WaitReturns, Goto, Hold, Has, Owns
  <2>3. stopped' = stopped
    BY <1>25 DEF WaitReturns, Goto, Hold
  <2> QED
    BY <2>1, <2>2, <2>3, StutterStep
<1>25b. ASSUME NEW c \in Client, WaitInterrupted(c) PROVE [Lifecycle!Next]_Lifecycle!vars
  <2>1. \A s \in Task \ Group : /\ grabbed'[s] = grabbed[s] /\ done'[s] = done[s]
                               /\ adds'[s] = adds[s]
    BY <1>25b DEF WaitInterrupted, Goto, Hold
  <2>2. \A u \in Thread, s \in Task \ Group : Has(u, s)' <=> Has(u, s)
    BY <1>25b, NoTaskIsNone DEF WaitInterrupted, Goto, Hold, Has, Owns
  <2>3. stopped' = stopped
    BY <1>25b DEF WaitInterrupted, Goto, Hold
  <2> QED
    BY <2>1, <2>2, <2>3, StutterStep
<1>26. ASSUME Start PROVE [Lifecycle!Next]_Lifecycle!vars
  <2>1. \A s \in Task \ Group : /\ grabbed'[s] = grabbed[s] /\ done'[s] = done[s]
                               /\ adds'[s] = adds[s]
    BY <1>26 DEF Start
  <2>2. \A u \in Thread, s \in Task \ Group : Has(u, s)' <=> Has(u, s)
    BY <1>26, NoTaskIsNone DEF Start, Has, Owns
  <2>3. stopped' = stopped
    BY <1>26 DEF Start
  <2> QED
    BY <2>1, <2>2, <2>3, StutterStep
<1>27. ASSUME Stop PROVE [Lifecycle!Next]_Lifecycle!vars
  <2>1. UNCHANGED <<grabbed, done, adds, hTask, pc>> /\ stopped' = TRUE
    BY <1>27 DEF Stop
  <2>2. status' = status /\ holder' = holder
    BY <2>1 DEF status, StatusOf, holder, HolderOf, Has, Owns
  <2> QED
    BY <2>1, <2>2 DEF Lifecycle!Next, Lifecycle!RequestStop
<1>28. ASSUME StartWorker PROVE [Lifecycle!Next]_Lifecycle!vars
  <2>1. \A s \in Task \ Group : /\ grabbed'[s] = grabbed[s] /\ done'[s] = done[s]
                               /\ adds'[s] = adds[s]
    BY <1>28 DEF StartWorker, VisitNext, Goto
  <2>4. hTask' = hTask /\ hTask[visiting] = NoTask
    BY <1>28 DEF StartWorker, VisitNext, PhaseOK, Worker
  <2>2. \A u \in Thread, s \in Task \ Group : Has(u, s)' <=> Has(u, s)
    BY <1>28, <2>4, NoTaskIsNone DEF StartWorker, Goto, Has, Owns
  <2>3. stopped' = stopped
    BY <1>28 DEF StartWorker, VisitNext, Goto
  <2> QED
    BY <2>1, <2>2, <2>3, StutterStep
<1>29. ASSUME StopWorker PROVE [Lifecycle!Next]_Lifecycle!vars
  <2>1. \A s \in Task \ Group : /\ grabbed'[s] = grabbed[s] /\ done'[s] = done[s]
                               /\ adds'[s] = adds[s]
    BY <1>29 DEF StopWorker, VisitNext, Goto
  <2>2. \A u \in Thread, s \in Task \ Group : Has(u, s)' <=> Has(u, s)
    BY <1>29, NoTaskIsNone DEF StopWorker, VisitNext, Goto, Has, Owns
  <2>3. stopped' = stopped
    BY <1>29 DEF StopWorker, VisitNext, Goto
  <2> QED
    BY <2>1, <2>2, <2>3, StutterStep
<1>30. ASSUME WakeUpWorker PROVE [Lifecycle!Next]_Lifecycle!vars
  <2>1. \A s \in Task \ Group : /\ grabbed'[s] = grabbed[s] /\ done'[s] = done[s]
                               /\ adds'[s] = adds[s]
    BY <1>30 DEF WakeUpWorker, VisitNext, Goto
  <2>2. \A u \in Thread, s \in Task \ Group : Has(u, s)' <=> Has(u, s)
    BY <1>30, NoTaskIsNone DEF WakeUpWorker, VisitNext, Goto, Has, Owns
  <2>3. stopped' = stopped
    BY <1>30 DEF WakeUpWorker, VisitNext, Goto
  <2> QED
    BY <2>1, <2>2, <2>3, StutterStep
<1>31. ASSUME JoinWorker PROVE [Lifecycle!Next]_Lifecycle!vars
  <2>1. \A s \in Task \ Group : /\ grabbed'[s] = grabbed[s] /\ done'[s] = done[s]
                               /\ adds'[s] = adds[s]
    BY <1>31 DEF JoinWorker, VisitNext, Goto
  <2>2. \A u \in Thread, s \in Task \ Group : Has(u, s)' <=> Has(u, s)
    BY <1>31, NoTaskIsNone DEF JoinWorker, VisitNext, Goto, Has, Owns
  <2>3. stopped' = stopped
    BY <1>31 DEF JoinWorker, VisitNext, Goto
  <2> QED
    BY <2>1, <2>2, <2>3, StutterStep
<1>32. CASE UNCHANGED vars
  <2>1. UNCHANGED <<grabbed, done, adds, pc, hTask, stopped>>
    BY <1>32 DEF vars
  <2>2. \A u \in Thread, s \in Task \ Group : Has(u, s)' <=> Has(u, s)
    BY <2>1 DEF Has, Owns
  <2> QED
    BY <2>1, <2>2, StutterStep
<1> QED
  BY <1>1, <1>2, <1>3, <1>4, <1>5, <1>6, <1>7, <1>8, <1>9, <1>10, <1>11,
     <1>12, <1>13, <1>14, <1>15, <1>16, <1>17, <1>18, <1>19, <1>20, <1>21,
     <1>22, <1>23, <1>24, <1>25, <1>25b, <1>26, <1>27, <1>28, <1>29, <1>30, <1>31,
     <1>32
     DEF Next, AddStep, ExecuteStep, WorkerStep, ControlStep

\* The scheduler implements TaskLifecycle.
THEOREM SchedulerImplementsLifecycle == Spec => ImplementsLifecycle
<1>1. TypeInv /\ OwnerInv /\ [Next]_vars => [Lifecycle!Next]_Lifecycle!vars
  BY LifecycleStep
<1> QED
  BY <1>1, LifecycleInit, TypeCorrect, OwnershipHolds, PTL
     DEF Spec, ImplementsLifecycle, Lifecycle!Spec

=============================================================================
