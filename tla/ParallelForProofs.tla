------------------------- MODULE ParallelForProofs -------------------------
(***************************************************************************)
(* parallel_for calls the function once on every index before it returns,   *)
(* for every range, every number of batches, every interleaving of the       *)
(* tasks and every partitioner that keeps the promise of Partition.          *)
(***************************************************************************)
EXTENDS ParallelFor, FiniteSetTheorems, TLAPS

\* There is a batch.
LEMMA BatchCountFact == batchCount \in Nat \ {0}
BY PartitionerAssumption DEF batchCount, elementCount

AllGiven == UNION {given[b] : b \in Batch}

\* The partitioner gives no index twice, and nothing is left once it has refused.
GivenOnce ==
  /\ \A b1, b2 \in Batch : b1 # b2 => given[b1] \cap given[b2] = {}
  /\ exhausted # {} => AllGiven = Index

\* A task has indices left in its loop only, and reports when it was refused more.
TaskOK ==
  \A b \in Batch :
    /\ left[b] \subseteq given[b]
    /\ task[b] # "calling" => left[b] = {}
    /\ task[b] \in {"report", "join", "done"} => b \in exhausted

\* The function was called on what was given and is not left.
CallsOK ==
  /\ \A b \in Batch : \A i \in given[b] : calls[i] = IF i \in left[b] THEN 0 ELSE 1
  /\ \A i \in Index \ AllGiven : calls[i] = 0

Unreported == {b \in Batch : task[b] \notin {"join", "done"}}

\* The group is notified when no task has yet to report; the caller runs a task
\* of the loop of activeWait.
CountOK ==
  /\ active = Cardinality(Unreported)
  /\ (notified \/ \E b \in Batch : task[b] = "join") => Unreported = {}
  /\ caller = "returned" => notified
  /\ caller = "running" => helpAt \in Batch

Inv == ForTypeOK /\ GivenOnce /\ TaskOK /\ CallsOK /\ CountOK

\* What is to be counted is finite.
LEMMA BatchesAreFinite ==
  ASSUME NEW S \in SUBSET Batch
  PROVE  IsFiniteSet(S)
<1>1. IsFiniteSet(1..batchCount)
  BY FS_Interval, BatchCountFact
<1> QED
  BY <1>1, FS_Subset DEF Batch

LEMMA InvInit == ForInit => Inv
<1> SUFFICES ASSUME ForInit PROVE Inv
  OBVIOUS
<1> USE DEF ForInit, Partitioner!Init
<1>1. ForTypeOK
  <2>1. batchCount \in Nat /\ helpAt \in 1..(batchCount + 1)
    BY BatchCountFact
  <2>2. given \in [Batch -> SUBSET Index] /\ left \in [Batch -> SUBSET Index]
    OBVIOUS
  <2>3. calls \in [Index -> Nat]
    OBVIOUS
  <2> QED
    BY <2>1, <2>2, <2>3 DEF ForTypeOK
<1>2. GivenOnce /\ TaskOK /\ CallsOK
  BY DEF GivenOnce, TaskOK, CallsOK, AllGiven
<1>3. Unreported = Batch
  BY DEF Unreported
<1>4. Cardinality(Batch) = batchCount
  BY FS_Interval, BatchCountFact DEF Batch
<1>5. CountOK
  BY <1>3, <1>4 DEF CountOK
<1> QED
  BY <1>1, <1>2, <1>5 DEF Inv

\* A new range was given to nobody, and not called upon.
LEMMA ReceiveStep ==
  ASSUME Inv, NEW b \in Batch, NEW S \in SUBSET Index, Receive(b, S), Partitioner!Give(b, S)
  PROVE  Inv'
<1> USE DEF Inv
<1>1. /\ task[b] = "asking" /\ left[b] = {}
      /\ task' = [task EXCEPT ![b] = "calling"]
      /\ left' = [left EXCEPT ![b] = S]
      /\ given' = [given EXCEPT ![b] = @ \cup S]
      /\ S # {} /\ S \cap AllGiven = {}
      /\ UNCHANGED <<calls, active, notified, callerVars, exhausted>>
  BY DEF Receive, Partitioner!Give, Partitioner!AllGiven, AllGiven, TaskOK
<1>2. ForTypeOK'
  BY <1>1 DEF ForTypeOK, callerVars
<1>3. AllGiven' = AllGiven \cup S
  BY <1>1 DEF AllGiven, ForTypeOK
<1>4. GivenOnce'
  <2>1. ASSUME NEW b1 \in Batch, NEW b2 \in Batch, b1 # b2
        PROVE  given'[b1] \cap given'[b2] = {}
    BY <1>1, <2>1 DEF GivenOnce, AllGiven, ForTypeOK
  <2>2. exhausted # {} => AllGiven' = Index
    BY <1>1, <1>3 DEF GivenOnce
  <2> QED
    BY <1>1, <2>1, <2>2 DEF GivenOnce
<1>5. TaskOK'
  BY <1>1 DEF TaskOK, ForTypeOK
<1>6. CallsOK'
  <2>1. ASSUME NEW b1 \in Batch, NEW i \in given'[b1]
        PROVE  calls'[i] = IF i \in left'[b1] THEN 0 ELSE 1
    <3>1. CASE b1 = b /\ i \in S
      <4>1. i \in Index \ AllGiven
        BY <1>1, <3>1
      <4> QED
        BY <1>1, <3>1, <4>1 DEF CallsOK, ForTypeOK
    <3>2. CASE b1 = b /\ i \notin S
      BY <1>1, <3>2 DEF CallsOK, ForTypeOK
    <3>3. CASE b1 # b
      BY <1>1, <3>3 DEF CallsOK, ForTypeOK
    <3> QED
      BY <3>1, <3>2, <3>3
  <2>2. \A i \in Index \ AllGiven' : calls'[i] = 0
    BY <1>1, <1>3 DEF CallsOK
  <2> QED
    BY <2>1, <2>2 DEF CallsOK
<1>7. CountOK'
  <2>1. Unreported' = Unreported
    BY <1>1 DEF Unreported, ForTypeOK
  <2> QED
    BY <1>1, <2>1 DEF CountOK, callerVars, ForTypeOK
<1> QED
  BY <1>2, <1>4, <1>5, <1>6, <1>7

\* A task that is refused a range has none left.
LEMMA LeaveStep ==
  ASSUME Inv, NEW b \in Batch, Leave(b), Partitioner!Refuse(b)
  PROVE  Inv'
<1> USE DEF Inv
<1>1. /\ task[b] = "asking"
      /\ task' = [task EXCEPT ![b] = "report"]
      /\ exhausted' = exhausted \cup {b}
      /\ AllGiven = Index
      /\ UNCHANGED <<left, calls, active, notified, callerVars, given>>
  BY DEF Leave, Partitioner!Refuse, Partitioner!AllGiven, AllGiven
<1>2. ForTypeOK'
  BY <1>1 DEF ForTypeOK, callerVars
<1>3. AllGiven' = AllGiven
  BY <1>1 DEF AllGiven
<1>4. GivenOnce' /\ CallsOK'
  BY <1>1, <1>3 DEF GivenOnce, CallsOK
<1>5. TaskOK'
  BY <1>1 DEF TaskOK, ForTypeOK
<1>6. Unreported' = Unreported
  BY <1>1 DEF Unreported, ForTypeOK
<1>7. CountOK'
  BY <1>1, <1>6 DEF CountOK, callerVars, ForTypeOK
<1> QED
  BY <1>2, <1>4, <1>5, <1>7

\* One more index is called upon, by the only task that has it.
LEMMA CallStep ==
  ASSUME Inv, NEW b \in Batch, Call(b)
  PROVE  Inv'
<1> USE DEF Inv
<1>1. PICK i \in left[b] :
        /\ calls' = [calls EXCEPT ![i] = @ + 1]
        /\ left' = [left EXCEPT ![b] = @ \ {i}]
        /\ task' = [task EXCEPT ![b] = IF left[b] = {i} THEN "asking" ELSE @]
  BY DEF Call
<1>2. /\ task[b] = "calling"
      /\ UNCHANGED <<partitionerVars, active, notified, callerVars>>
      /\ i \in given[b] /\ i \in Index
  BY DEF Call, TaskOK, ForTypeOK
<1>3. ForTypeOK'
  BY <1>1, <1>2 DEF ForTypeOK, callerVars, partitionerVars
<1>4. AllGiven' = AllGiven /\ GivenOnce'
  BY <1>2 DEF AllGiven, GivenOnce, partitionerVars
<1>5. TaskOK'
  BY <1>1, <1>2 DEF TaskOK, ForTypeOK, partitionerVars
<1>6. CallsOK'
  <2>1. ASSUME NEW b1 \in Batch, NEW j \in given[b1]
        PROVE  calls'[j] = IF j \in left'[b1] THEN 0 ELSE 1
    <3>1. CASE j = i
      <4>1. b1 = b
        BY <1>2, <3>1 DEF GivenOnce
      <4>2. calls[i] = 0
        BY <1>1, <1>2 DEF CallsOK
      <4> QED
        BY <1>1, <1>2, <3>1, <4>1, <4>2 DEF ForTypeOK
    <3>2. CASE j # i
      BY <1>1, <1>2, <3>2 DEF CallsOK, ForTypeOK
    <3> QED
      BY <3>1, <3>2
  <2>2. i \in AllGiven
    BY <1>2 DEF AllGiven
  <2>3. \A j \in Index \ AllGiven : calls'[j] = 0
    BY <1>1, <1>2, <2>2 DEF CallsOK, ForTypeOK
  <2> QED
    BY <1>2, <1>4, <2>1, <2>3 DEF CallsOK, partitionerVars
<1>7. Unreported' = Unreported
  BY <1>1, <1>2 DEF Unreported, ForTypeOK
<1>8. CountOK'
  BY <1>1, <1>2, <1>7 DEF CountOK, callerVars, ForTypeOK
<1> QED
  BY <1>3, <1>4, <1>5, <1>6, <1>8

\* The task that takes the count to zero is the last one that had to report.
LEMMA ReportStep ==
  ASSUME Inv, NEW b \in Batch, Report(b)
  PROVE  Inv'
<1> USE DEF Inv
<1>1. /\ task[b] = "report"
      /\ active' = active - 1
      /\ task' = [task EXCEPT ![b] = IF active = 1 THEN "join" ELSE "done"]
      /\ UNCHANGED <<partitionerVars, left, calls, notified, callerVars>>
  BY DEF Report
<1>2. b \in Unreported /\ Unreported' = Unreported \ {b}
  BY <1>1 DEF Unreported, ForTypeOK
<1>3. IsFiniteSet(Unreported)
  BY BatchesAreFinite DEF Unreported
<1>4. /\ active \in Nat \ {0}
      /\ Cardinality(Unreported \ {b}) = active - 1
      /\ active = 1 => Unreported \ {b} = {}
  <2>1. Cardinality(Unreported \ {b}) = Cardinality(Unreported) - 1
    BY <1>2, <1>3, FS_RemoveElement
  <2>2. Cardinality(Unreported \ {b}) \in Nat
    BY <1>3, FS_RemoveElement, FS_CardinalityType
  <2>3. Cardinality(Unreported \ {b}) = 0 => Unreported \ {b} = {}
    BY <1>3, FS_RemoveElement, FS_EmptySet
  <2> QED
    BY <2>1, <2>2, <2>3 DEF CountOK, ForTypeOK
<1>5. ForTypeOK'
  BY <1>1, <1>4 DEF ForTypeOK, callerVars, partitionerVars
<1>6. AllGiven' = AllGiven /\ GivenOnce' /\ CallsOK'
  BY <1>1 DEF AllGiven, GivenOnce, CallsOK, partitionerVars
<1>7. TaskOK'
  BY <1>1 DEF TaskOK, ForTypeOK, partitionerVars
<1>8. CountOK'
  <2>1. ~notified /\ ~(\E b1 \in Batch : task[b1] = "join")
    BY <1>2 DEF CountOK
  <2>2. active # 1 => ~(\E b1 \in Batch : task'[b1] = "join")
    BY <1>1, <2>1 DEF ForTypeOK
  <2> QED
    BY <1>1, <1>2, <1>4, <2>1, <2>2 DEF CountOK, callerVars, partitionerVars
<1> QED
  BY <1>5, <1>6, <1>7, <1>8

\* Steps that move a task between places that make no difference to the count.
LEMMA MoveStep ==
  ASSUME Inv,
         UNCHANGED <<partitionerVars, left, calls, active>>,
         ForTypeOK',
         TaskOK',
         Unreported' = Unreported,
         CountOK'
  PROVE  Inv'
BY DEF Inv, AllGiven, GivenOnce, CallsOK, partitionerVars

LEMMA TakeStep ==
  ASSUME Inv, NEW b \in Batch,
         task[b] = "queued", task' = [task EXCEPT ![b] = "asking"],
         UNCHANGED <<partitionerVars, left, calls, active, notified>>,
         caller' \in {"called", "helping", "running", "waiting", "returned"},
         caller' \in {caller, "running"}, caller' = "running" => helpAt \in Batch,
         helpAt' = helpAt
  PROVE  Inv'
<1> USE DEF Inv
<1>1. ForTypeOK'
  BY DEF ForTypeOK, partitionerVars
<1>2. TaskOK'
  BY DEF TaskOK, ForTypeOK, partitionerVars
<1>3. Unreported' = Unreported
  BY DEF Unreported, ForTypeOK
<1>4. CountOK'
  BY <1>3 DEF CountOK, ForTypeOK
<1> QED
  BY <1>1, <1>2, <1>3, <1>4, MoveStep

LEMMA JoinStep ==
  ASSUME Inv, NEW b \in Batch, Join(b)
  PROVE  Inv'
<1> USE DEF Inv
<1>1. /\ task[b] = "join" /\ task' = [task EXCEPT ![b] = "done"]
      /\ notified' = TRUE
      /\ UNCHANGED <<partitionerVars, left, calls, active, callerVars>>
  BY DEF Join
<1>2. ForTypeOK'
  BY <1>1 DEF ForTypeOK, callerVars, partitionerVars
<1>3. TaskOK'
  BY <1>1 DEF TaskOK, ForTypeOK, partitionerVars
<1>4. Unreported' = Unreported /\ Unreported = {}
  BY <1>1 DEF Unreported, ForTypeOK, CountOK
<1>5. CountOK'
  BY <1>1, <1>4 DEF CountOK, callerVars
<1> QED
  BY <1>1, <1>2, <1>3, <1>4, <1>5, MoveStep

\* The caller moves, no task does.
LEMMA CallerMoves ==
  ASSUME Inv, UNCHANGED <<partitionerVars, batchVars>>,
         caller' \in {"called", "helping", "running", "waiting", "returned"},
         helpAt' \in 1..(batchCount + 1),
         caller' = "returned" => notified,
         caller' = "running" => caller = "running" /\ helpAt' = helpAt
  PROVE  Inv'
<1> USE DEF Inv, batchVars
<1>1. ForTypeOK'
  BY DEF ForTypeOK, partitionerVars
<1>2. TaskOK' /\ Unreported' = Unreported
  BY DEF TaskOK, Unreported, partitionerVars
<1>3. UNCHANGED <<active, notified, task>>
  OBVIOUS
<1>4. CountOK'
  BY <1>2, <1>3 DEF CountOK
<1> QED
  BY <1>1, <1>2, <1>4, MoveStep

LEMMA CallerInv == Inv /\ CallerStep => Inv'
<1> SUFFICES ASSUME Inv, CallerStep PROVE Inv'
  OBVIOUS
<1>t. ForTypeOK /\ batchCount \in Nat
  BY BatchCountFact DEF Inv
<1>1. CASE Fork
  BY <1>1, <1>t, CallerMoves DEF Fork, ForTypeOK
<1>2. CASE Help
  <2>1. CASE task[helpAt] = "queued"
    <3>1. helpAt \in Batch
      BY <1>2, <1>t DEF Help, ForTypeOK, Batch
    <3> QED
      BY <1>2, <2>1, <3>1, TakeStep DEF Help
  <2>2. CASE task[helpAt] # "queued"
    BY <1>2, <2>2, <1>t, CallerMoves DEF Help, ForTypeOK, batchVars
  <2> QED
    BY <2>1, <2>2
<1>3. CASE HelpDone
  <2>1. helpAt + 1 \in 1..(batchCount + 1)
    BY <1>3, <1>t DEF HelpDone, Inv, CountOK, Batch
  <2> QED
    BY <1>3, <2>1, CallerMoves DEF HelpDone
<1>4. CASE Wait
  BY <1>4, <1>t, CallerMoves DEF Wait, ForTypeOK
<1>5. CASE WaitReturns
  BY <1>5, <1>t, CallerMoves DEF WaitReturns, ForTypeOK
<1> QED
  BY <1>1, <1>2, <1>3, <1>4, <1>5 DEF CallerStep

LEMMA InvStep == Inv /\ [ForNext]_forVars => Inv'
<1> SUFFICES ASSUME Inv, [ForNext]_forVars PROVE Inv'
  OBVIOUS
<1>1. ASSUME NEW b \in Batch, TakeTask(b) PROVE Inv'
  <2>1. caller = "running" => helpAt \in Batch
    BY DEF Inv, CountOK
  <2>2. caller' = caller /\ helpAt' = helpAt
    BY <1>1 DEF TakeTask, callerVars
  <2>3. caller \in {"called", "helping", "running", "waiting", "returned"}
    BY DEF Inv, ForTypeOK
  <2> QED
    BY <1>1, <2>1, <2>2, <2>3, TakeStep DEF TakeTask
<1>2. ASSUME NEW b \in Batch, Ask(b) PROVE Inv'
  BY <1>2, ReceiveStep, LeaveStep DEF Ask
<1>3. ASSUME NEW b \in Batch, TaskStep(b) PROVE Inv'
  BY <1>3, CallStep, ReportStep, JoinStep DEF TaskStep
<1>4. CASE CallerStep
  BY <1>4, CallerInv
<1>5. CASE UNCHANGED forVars
  BY <1>5 DEF forVars, partitionerVars, batchVars, callerVars, Inv, ForTypeOK, GivenOnce, AllGiven,
              TaskOK, CallsOK, CountOK, Unreported
<1> QED
  BY <1>1, <1>2, <1>3, <1>4, <1>5 DEF ForNext

LEMMA InvIsEnough == Inv => EachIndexOnce
<1> SUFFICES ASSUME Inv PROVE EachIndexOnce
  OBVIOUS
<1> USE DEF Inv
<1>1. \A i \in Index : calls[i] <= 1
  <2> SUFFICES ASSUME NEW i \in Index PROVE calls[i] <= 1
    OBVIOUS
  <2>1. CASE i \in AllGiven
    BY <2>1 DEF AllGiven, CallsOK
  <2>2. CASE i \notin AllGiven
    BY <2>2 DEF CallsOK
  <2> QED
    BY <2>1, <2>2
<1>2. ASSUME caller = "returned", NEW i \in Index PROVE calls[i] = 1
  <2>1. Unreported = {} /\ batchCount > 0 /\ batchCount \in Nat
    BY <1>2, BatchCountFact DEF CountOK
  <2>2. \A b \in Batch : b \in exhausted /\ left[b] = {}
    BY <2>1 DEF Unreported, TaskOK
  <2>3. 1 \in Batch
    BY <2>1 DEF Batch
  <2>4. AllGiven = Index
    BY <2>2, <2>3 DEF GivenOnce
  <2> QED
    BY <2>2, <2>4 DEF AllGiven, CallsOK
<1>3. \A b \in Batch : left[b] \subseteq Index
  BY DEF ForTypeOK
<1> QED
  BY <1>1, <1>2, <1>3 DEF EachIndexOnce

\* The types of the state.
THEOREM TypesHold == ForSpec => []ForTypeOK
<1>1. ForInit => Inv
  BY InvInit
<1>2. Inv /\ [ForNext]_forVars => Inv'
  BY InvStep
<1>3. Inv => ForTypeOK
  BY DEF Inv
<1> QED
  BY <1>1, <1>2, <1>3, PTL DEF ForSpec

\* parallel_for calls the function once on each index, and all calls are over when
\* it returns.
THEOREM EveryIndexIsCalledOnce == ForSpec => []EachIndexOnce
<1>1. ForInit => Inv
  BY InvInit
<1>2. Inv /\ [ForNext]_forVars => Inv'
  BY InvStep
<1>3. Inv => EachIndexOnce
  BY InvIsEnough
<1> QED
  BY <1>1, <1>2, <1>3, PTL DEF ForSpec
=============================================================================
