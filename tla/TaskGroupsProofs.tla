-------------------------- MODULE TaskGroupsProofs --------------------------
(***************************************************************************)
(* Groups of tasks, for every tree, every number of threads, and whatever    *)
(* clients give to the scheduler and wait for.                               *)
(***************************************************************************)
EXTENDS TaskGroups, FiniteSetTheorems, SequenceTheorems, TLAPS

-----------------------------------------------------------------------------
(* The tree. *)

\* What a group is made of.
LEMMA GroupFacts ==
  ASSUME NEW g \in Group
  PROVE  /\ members[g] \in Seq(Task)
         /\ Len(members[g]) \in Nat \ {0}
         /\ DOMAIN members[g] = 1..Len(members[g])
         /\ \A i \in 1..Len(members[g]) : members[g][i] \in Task /\ members[g][i] \in Members(g)
         /\ Members(g) \subseteq Task
         /\ Members(g) # {}
         /\ IsFiniteSet(Members(g))
         /\ Cardinality(Members(g)) = Len(members[g])
<1>1. members[g] \in Seq(Task) /\ members[g] # <<>>
  BY GroupsAssumption
<1>2. Len(members[g]) \in Nat \ {0} /\ DOMAIN members[g] = 1..Len(members[g])
  BY <1>1, EmptySeq, LenProperties
<1>3. \A i \in 1..Len(members[g]) : members[g][i] \in Task /\ members[g][i] \in Members(g)
  BY <1>1, <1>2, ElementOfSeq DEF Members
<1>4. Members(g) \subseteq Task
  BY <1>2, <1>3 DEF Members
<1>5. Members(g) # {}
  BY <1>2, <1>3
<1>6. members[g] \in Bijection(1..Len(members[g]), Members(g))
  <2>1. members[g] \in [1..Len(members[g]) -> Members(g)]
    BY <1>1, <1>2, <1>3, LenProperties
  <2>2. \A i, j \in 1..Len(members[g]) : members[g][i] = members[g][j] => i = j
    BY <1>2, GroupsAssumption
  <2>3. \A t \in Members(g) : \E i \in 1..Len(members[g]) : members[g][i] = t
    BY <1>2 DEF Members
  <2> QED
    BY <2>1, <2>2, <2>3 DEF Bijection, Injection, Surjection, IsInjective
<1>7. IsFiniteSet(1..Len(members[g])) /\ Cardinality(1..Len(members[g])) = Len(members[g])
  <2>1. Len(members[g]) \in Int /\ 1 \in Int /\ Len(members[g]) >= 1
    BY <1>2
  <2> QED
    BY <2>1, FS_Interval
<1>8. IsFiniteSet(Members(g)) /\ Cardinality(Members(g)) = Len(members[g])
  BY <1>6, <1>7, FS_Bijection DEF ExistsBijection
<1> QED
  BY <1>1, <1>2, <1>3, <1>4, <1>5, <1>8

\* A task has the group it is in for a parent, and no other.
LEMMA ParentFacts ==
  /\ \A t : Parent(t) \in Group \cup {NoTask}
  /\ \A t, g : g \in Group /\ t \in Members(g) => Parent(t) = g
  /\ \A t, g : g \in Group /\ Parent(t) = g => t \in Members(g)
  /\ NoTask \notin Group
  /\ \A t \in Inherit : Parent(t) \in Group
<1>1. NoTask \notin Group
  BY GroupsAssumption DEF Task
<1>2. ASSUME NEW t, NEW g \in Group, t \in Members(g) PROVE Parent(t) = g
  <2>1. \A g2 \in Group : t \in Members(g2) => g2 = g
    BY <1>2, GroupsAssumption DEF Members
  <2>2. \E g2 \in Group : t \in Members(g2)
    BY <1>2
  <2> QED
    BY <2>1, <2>2 DEF Parent
<1>3. ASSUME NEW t PROVE Parent(t) \in Group \cup {NoTask}
  BY <1>2 DEF Parent
<1>4. ASSUME NEW t, NEW g \in Group, Parent(t) = g PROVE t \in Members(g)
  BY <1>1, <1>2, <1>4 DEF Parent
<1>5. \A t \in Inherit : Parent(t) \in Group
  BY <1>2, GroupsAssumption
<1> QED
  BY <1>1, <1>2, <1>3, <1>4, <1>5

-----------------------------------------------------------------------------
(* The sequences the state is made of. *)

\* A sequence that grows at its end,
LEMMA AppendFacts ==
  ASSUME NEW S, NEW s \in Seq(S), NEW e \in S
  PROVE  /\ Append(s, e) \in Seq(S)
         /\ Len(Append(s, e)) = Len(s) + 1
         /\ DOMAIN Append(s, e) = 1..(Len(s) + 1)
         /\ \A i \in 1..Len(s) : Append(s, e)[i] = s[i]
         /\ Append(s, e)[Len(s) + 1] = e
<1>1. /\ Append(s, e) \in Seq(S) /\ Len(Append(s, e)) = Len(s) + 1
      /\ \A i \in 1..Len(s) : Append(s, e)[i] = s[i]
      /\ Append(s, e)[Len(s) + 1] = e
  BY AppendProperties
<1>2. DOMAIN Append(s, e) = 1..Len(Append(s, e))
  BY <1>1, LenProperties
<1> QED
  BY <1>1, <1>2

\* one that shrinks at its end,
LEMMA FrontFacts ==
  ASSUME NEW S, NEW s \in Seq(S), s # <<>>
  PROVE  /\ Len(s) \in Nat \ {0} /\ DOMAIN s = 1..Len(s)
         /\ \A i \in 1..Len(s) : s[i] \in S
         /\ SubSeq(s, 1, Len(s) - 1) \in Seq(S)
         /\ Len(SubSeq(s, 1, Len(s) - 1)) = Len(s) - 1
         /\ DOMAIN SubSeq(s, 1, Len(s) - 1) = 1..(Len(s) - 1)
         /\ \A i \in 1..(Len(s) - 1) : SubSeq(s, 1, Len(s) - 1)[i] = s[i]
<1>1. Len(s) \in Nat \ {0} /\ DOMAIN s = 1..Len(s)
  BY EmptySeq, LenProperties
<1>2. \A i \in 1..Len(s) : s[i] \in S
  BY ElementOfSeq
<1> DEFINE n == Len(s) - 1
<1>3. n \in Int /\ n >= 0 /\ \A i \in 1..n : s[i] \in S
  BY <1>1, <1>2
<1>4. /\ SubSeq(s, 1, n) \in Seq(S)
      /\ Len(SubSeq(s, 1, n)) = IF 1 <= n THEN n - 1 + 1 ELSE 0
      /\ \A i \in 1..(n - 1 + 1) : SubSeq(s, 1, n)[i] = s[1 + i - 1]
  <2> HIDE DEF n
  <2> QED
    BY <1>3, SubSeqProperties
<1>5. Len(SubSeq(s, 1, n)) = n /\ \A i \in 1..n : SubSeq(s, 1, n)[i] = s[i]
  <2>1. Len(SubSeq(s, 1, n)) = n
    <3> HIDE DEF n
    <3> QED
      BY <1>3, <1>4
  <2>2. ASSUME NEW i \in 1..n PROVE SubSeq(s, 1, n)[i] = s[i]
    <3>1. 1 + i - 1 = i /\ i \in 1..(n - 1 + 1)
      BY <1>3
    <3> HIDE DEF n
    <3> QED
      BY <1>4, <3>1
  <2> QED
    BY <2>1, <2>2
<1>6. DOMAIN SubSeq(s, 1, n) = 1..n
  BY <1>4, <1>5, LenProperties
<1> QED
  BY <1>1, <1>2, <1>4, <1>5, <1>6

\* and one that shrinks at its head.
LEMMA TailFacts ==
  ASSUME NEW S, NEW s \in Seq(S), s # <<>>
  PROVE  /\ Len(s) \in Nat \ {0} /\ DOMAIN s = 1..Len(s)
         /\ Head(s) \in S /\ Head(s) = s[1]
         /\ Tail(s) \in Seq(S)
         /\ Len(Tail(s)) = Len(s) - 1
         /\ DOMAIN Tail(s) = 1..(Len(s) - 1)
         /\ \A i \in 1..(Len(s) - 1) : Tail(s)[i] = s[i + 1]
<1>1. Len(s) \in Nat \ {0} /\ DOMAIN s = 1..Len(s)
  BY EmptySeq, LenProperties
<1>2. /\ Head(s) \in S /\ Tail(s) \in Seq(S)
      /\ Len(Tail(s)) = Len(s) - 1
      /\ \A i \in 1..Len(Tail(s)) : Tail(s)[i] = s[i + 1]
  BY HeadTailProperties
<1>3. DOMAIN Tail(s) = 1..Len(Tail(s))
  BY <1>2, LenProperties
<1>4. Head(s) = s[1]
  BY <1>1
<1> QED
  BY <1>1, <1>2, <1>3, <1>4

-----------------------------------------------------------------------------
(* Where a thread may be, and what it has in hand there. *)

\* What a thread remembers of a function it is to go back to.
Suspended == [task : {u \in Unit : Calls[u] # NoTask}, frames : Seq(Task),
              helping : Parallel \cup {NoTask}, helpAt : Nat \ {0}]

\* TypeOK without the sign of activeCount, and a little more precise elsewhere.
TaskTypes ==
  /\ pending \in [Task -> Nat]
  /\ submitted \subseteq Root \cup Called
  /\ grabbed \in [Task -> BOOLEAN] /\ done \in [Task -> BOOLEAN]
  /\ notified \in [Task -> BOOLEAN] /\ parentSet \in [Task -> BOOLEAN]

HookTypes == hooks \in [Task -> Seq({"pre", "post"})]

GroupTypes ==
  /\ activeCount \in [Parallel -> Int] /\ nextIndex \in [Parallel -> Nat \ {0}]
  /\ queue \in [Sequence -> Seq(Task)]

ThreadTypes ==
  /\ pc \in [Thread -> PC]
  /\ cur \in [Thread -> Task \cup {NoTask}]
  /\ at \in [Thread -> Nat] /\ scheduled \in [Thread -> Nat]
  /\ adding \in [Thread -> Task \cup {NoTask}] /\ asking \in [Thread -> Task \cup {NoTask}]
  /\ frames \in [Thread -> Seq(Task)]
  /\ helping \in [Thread -> Parallel \cup {NoTask}] /\ helpAt \in [Thread -> Nat \ {0}]
  /\ outer \in [Thread -> Seq(Suspended)]

\* The labels at which a thread may be in a call of scheduler::add.
Neutral == {"idle", "spawn", "spawning", "first", "schedule", "scheduling", "return", "help",
            "waiting", "crashed"}

\* The task a thread is in a call on is of the kind that call is made on.
Place(th) ==
  /\ pc[th] \in {"verify", "execute", "notify", "report", "waiting"} => cur[th] \in Task
  /\ pc[th] \in {"spawn", "spawning", "first", "schedule", "scheduling"} => cur[th] \in Parallel
  /\ pc[th] = "join" => cur[th] \in Group
  /\ pc[th] = "called" => cur[th] \in Unit /\ Calls[cur[th]] # NoTask
  /\ pc[th] = "help" => helping[th] \in Parallel
  /\ pc[th] \in {"spawning", "scheduling"} => at[th] \in 1..(Len(members[cur[th]]) - 1)
  /\ adding[th] # NoTask => pc[th] \in Neutral
  /\ asking[th] # NoTask => adding[th] # NoTask

Types ==
  TaskTypes /\ HookTypes /\ GroupTypes /\ ThreadTypes /\ \A th \in Thread : Place(th)

\* Who is who.
LEMMA Kinds ==
  /\ Worker \subseteq Thread /\ Client \subseteq Thread
  /\ Unit \subseteq Task /\ Group \subseteq Task
  /\ Parallel \subseteq Group /\ Sequence \subseteq Group
  /\ \A g \in Group : g \notin Unit
  /\ \A g \in Parallel : g \notin Sequence
  /\ NoTask \notin Task
BY GroupsAssumption DEF Thread, Task, Group

LEMMA InheritTasks == Inherit \subseteq Task
BY GroupsAssumption, GroupFacts

\* They are at their places at the start,
LEMMA TypesInit == Init => Types
<1> SUFFICES ASSUME Init PROVE Types
  OBVIOUS
<1>1. \A g \in Group : members[g] \in Seq(Task) /\ Len(members[g]) \in Nat
  BY GroupFacts
<1>2. \A S : <<>> \in Seq(S)
  BY EmptySeq
<1>3. TaskTypes /\ HookTypes /\ GroupTypes
  BY <1>1, <1>2 DEF Init, TaskTypes, HookTypes, GroupTypes, Group
<1>4. ThreadTypes
  BY <1>2 DEF Init, ThreadTypes, PC
<1>5. \A th \in Thread : Place(th)
  BY Kinds DEF Init, Place
<1> QED
  BY <1>3, <1>4, <1>5 DEF Types

\* the other threads stay where they are when one moves,
Others(th) ==
  \A th2 \in Thread :
    th2 # th => UNCHANGED <<pc[th2], cur[th2], at[th2], adding[th2], asking[th2], helping[th2]>>

LEMMA OthersStay ==
  ASSUME NEW th \in Thread, \A th2 \in Thread : Place(th2), Others(th), Place(th)'
  PROVE  \A th2 \in Thread : Place(th2)'
<1> SUFFICES ASSUME NEW th2 \in Thread, th2 # th PROVE Place(th2)'
  OBVIOUS
<1> QED
  BY DEF Others, Place

\* a context is called once more,
LEMMA HookTyped ==
  ASSUME HookTypes, NEW t \in Task, NEW h \in {"pre", "post"}, Hook(t, h)
  PROVE  HookTypes'
<1>1. hooks[t] \in Seq({"pre", "post"})
  BY DEF HookTypes
<1>2. Append(hooks[t], h) \in Seq({"pre", "post"})
  BY <1>1, AppendFacts
<1> QED
  BY <1>2 DEF HookTypes, Hook

\* a thread fetches the index of a task to look at, or finds that there is none,
Fetched(th, label) ==
  /\ adding[th] = NoTask
  /\ \/ pc[th] = "spawn" /\ label \in {"spawning", "first"}
     \/ pc[th] = "schedule" /\ label \in {"scheduling", "return"}
  /\ at' = [at EXCEPT ![th] = nextIndex[cur[th]]]
  /\ nextIndex' = [nextIndex EXCEPT ![cur[th]] = nextIndex[cur[th]] + 1]
  /\ pc' = [pc EXCEPT ![th] = label]
  /\ label \in {"spawning", "scheduling"} => nextIndex[cur[th]] < Len(members[cur[th]])
  /\ UNCHANGED <<taskVars, parentSet, hooks, activeCount, queue, addVars, cur, scheduled, frames,
                 helpVars>>

LEMMA FetchKinds ==
  ASSUME Types, NEW th \in Thread, FetchIndex(th)
  PROVE  \E label \in {"spawning", "scheduling", "first", "return"} : Fetched(th, label)
<1> USE DEF At, Goto
<1> DEFINE g == cur[th]
           i == nextIndex[g]
<1>1. g \in Parallel /\ Len(members[g]) \in Nat /\ pc[th] \in {"spawn", "schedule"}
  BY GroupFacts, Kinds DEF Types, FetchIndex, Place
<1>2. i \in Nat
  BY <1>1 DEF Types, GroupTypes
<1>3. CASE pc[th] = "spawn" /\ i < Len(members[g])
  BY <1>3 DEF FetchIndex, Fetched
<1>4. CASE pc[th] = "schedule" /\ i < Len(members[g])
  BY <1>4 DEF FetchIndex, Fetched
<1>5. CASE pc[th] = "spawn" /\ i >= Len(members[g])
  BY <1>1, <1>2, <1>5 DEF FetchIndex, Fetched
<1>6. CASE pc[th] = "schedule" /\ i >= Len(members[g])
  BY <1>1, <1>2, <1>6 DEF FetchIndex, Fetched
<1> QED
  BY <1>1, <1>2, <1>3, <1>4, <1>5, <1>6

\* and every step leaves the moving thread where it may be.
LEMMA TypesStep == Types /\ [Next]_vars => Types'
<1> SUFFICES ASSUME Types, [Next]_vars PROVE Types'
  OBVIOUS
<1>t. TaskTypes /\ HookTypes /\ GroupTypes /\ ThreadTypes /\ \A th \in Thread : Place(th)
  BY DEF Types
<1> USE DEF At, Goto, On, Add, EnterParent, taskVars, groupVars, addVars, callVars, helpVars
<1>1. ASSUME NEW th \in Thread, TestTask(th) PROVE Types'
  <2>1. TaskTypes' /\ HookTypes' /\ GroupTypes'
    BY <1>1, <1>t DEF TestTask, TaskTypes, HookTypes, GroupTypes
  <2>2. ThreadTypes'
    BY <1>1, <1>t DEF TestTask, ThreadTypes, PC
  <2>3. Others(th)
    BY <1>1, <1>t DEF TestTask, ThreadTypes, Others
  <2>4. Place(th)'
    BY <1>1, <1>t DEF TestTask, ThreadTypes, Place, Neutral
  <2> QED
    BY <1>t, <2>1, <2>2, <2>3, <2>4, OthersStay DEF Types
<1>2. ASSUME NEW th \in Thread, AskParent(th) PROVE Types'
  <2>1. Parent(asking[th]) \in Task /\ asking[th] # NoTask
    BY <1>2, InheritTasks, ParentFacts, Kinds DEF AskParent
  <2>2. TaskTypes' /\ HookTypes' /\ GroupTypes'
    BY <1>2, <1>t, <2>1 DEF AskParent, TaskTypes, HookTypes, GroupTypes
  <2>3. ThreadTypes'
    BY <1>2, <1>t, <2>1 DEF AskParent, ThreadTypes, PC
  <2>4. Others(th)
    BY <1>2, <1>t DEF AskParent, ThreadTypes, Others
  <2>5. Place(th)'
    <3>1. CASE parentSet[asking[th]]
      BY <1>2, <1>t, <2>1, <3>1 DEF AskParent, ThreadTypes, Place, Neutral
    <3>2. CASE ~parentSet[asking[th]]
      BY <1>2, <1>t, <2>1, <3>2 DEF AskParent, ThreadTypes, Place, Neutral
    <3> QED
      BY <1>2, <1>t, <2>1, <3>1, <3>2
  <2> QED
    BY <1>t, <2>2, <2>3, <2>4, <2>5, OthersStay DEF Types
<1>3. ASSUME NEW th \in Thread, PushTask(th) PROVE Types'
  <2>1. adding[th] \in Task
    BY <1>3, <1>t, Kinds DEF PushTask, TaskTypes, GroupTypes, ThreadTypes, Place
  <2>2. TaskTypes' /\ HookTypes' /\ GroupTypes'
    BY <1>3, <1>t, <2>1 DEF PushTask, TaskTypes, HookTypes, GroupTypes
  <2>3. ThreadTypes'
    BY <1>3, <1>t, <2>1 DEF PushTask, ThreadTypes, PC
  <2>4. Others(th)
    BY <1>3, <1>t DEF PushTask, ThreadTypes, Others
  <2>5. Place(th)'
    BY <1>3, <1>t, <2>1 DEF PushTask, ThreadTypes, Place, Neutral
  <2> QED
    BY <1>t, <2>2, <2>3, <2>4, <2>5, OthersStay DEF Types
<1>4. ASSUME NEW th \in Thread, Verify(th) PROVE Types'
  <2>1. TaskTypes' /\ HookTypes' /\ GroupTypes'
    BY <1>4, <1>t DEF Verify, TaskTypes, HookTypes, GroupTypes
  <2>2. ThreadTypes'
    BY <1>4, <1>t DEF Verify, ThreadTypes, PC
  <2>3. Others(th)
    BY <1>4, <1>t DEF Verify, ThreadTypes, Others
  <2>4. Place(th)'
    BY <1>4, <1>t DEF Verify, ThreadTypes, Place, Neutral
  <2> QED
    BY <1>t, <2>1, <2>2, <2>3, <2>4, OthersStay DEF Types
<1>5. ASSUME NEW th \in Thread, ExecuteTask(th) PROVE Types'
  <2>1. TaskTypes' /\ GroupTypes'
    BY <1>5, <1>t DEF ExecuteTask, TaskTypes, GroupTypes
  <2>2. HookTypes'
    BY <1>5, <1>t, HookTyped, Kinds DEF ExecuteTask, Place
  <2>3. ThreadTypes'
    BY <1>5, <1>t DEF ExecuteTask, ThreadTypes, PC
  <2>4. Others(th)
    BY <1>5, <1>t DEF ExecuteTask, ThreadTypes, Others
  <2>5. Place(th)'
    BY <1>5, <1>t DEF ExecuteTask, ThreadTypes, Place, Neutral
  <2> QED
    BY <1>t, <2>1, <2>2, <2>3, <2>4, <2>5, OthersStay DEF Types
<1>6. ASSUME NEW th \in Thread, CallGroup(th) PROVE Types'
  <2>1. Calls[cur[th]] \in Parallel /\ Calls[cur[th]] \in Called /\ Calls[cur[th]] \in Task /\ NoTask \notin Task
    BY <1>6, <1>t, GroupsAssumption, Kinds DEF CallGroup, Called
  <2>2. [task |-> cur[th], frames |-> frames[th], helping |-> helping[th], helpAt |-> helpAt[th]] \in Suspended
    BY <1>6, <1>t, <2>1 DEF CallGroup, TaskTypes, GroupTypes, ThreadTypes, Suspended
  <2>3. <<>> \in Seq(Task)
    BY <1>6, <1>t, EmptySeq, <2>1, <2>2 DEF CallGroup
  <2>4. TaskTypes' /\ GroupTypes'
    BY <1>6, <1>t, <2>1, <2>2, <2>3 DEF CallGroup, TaskTypes, GroupTypes, Called
  <2>5. HookTypes'
    BY <1>6, <1>t, HookTyped, Kinds DEF CallGroup, Place
  <2>6. ThreadTypes'
    BY <1>6, <1>t, <2>1, <2>2, <2>3 DEF CallGroup, ThreadTypes, PC
  <2>7. Others(th)
    BY <1>6, <1>t DEF CallGroup, ThreadTypes, Others
  <2>8. Place(th)'
    BY <1>6, <1>t, <2>1, <2>2, <2>3 DEF CallGroup, ThreadTypes, Place, Neutral
  <2> QED
    BY <1>t, <2>4, <2>5, <2>6, <2>7, <2>8, OthersStay DEF Types
<1>7. ASSUME NEW th \in Thread, FinishCaller(th) PROVE Types'
  <2>1. TaskTypes' /\ HookTypes' /\ GroupTypes'
    BY <1>7, <1>t DEF FinishCaller, TaskTypes, HookTypes, GroupTypes
  <2>2. ThreadTypes'
    BY <1>7, <1>t DEF FinishCaller, ThreadTypes, PC
  <2>3. Others(th)
    BY <1>7, <1>t DEF FinishCaller, ThreadTypes, Others
  <2>4. Place(th)'
    BY <1>7, <1>t, Kinds DEF FinishCaller, ThreadTypes, Place, Neutral
  <2> QED
    BY <1>t, <2>1, <2>2, <2>3, <2>4, OthersStay DEF Types
<1>8. ASSUME NEW th \in Thread, ExecuteSequence(th) PROVE Types'
  <2>1. queue[cur[th]] \in Seq(Task)
    BY <1>8, <1>t DEF ExecuteSequence, TaskTypes, GroupTypes, ThreadTypes
  <2>2. queue[cur[th]] # <<>> => Head(queue[cur[th]]) \in Task /\ Tail(queue[cur[th]]) \in Seq(Task)
    BY <1>8, <1>t, TailFacts, <2>1 DEF ExecuteSequence
  <2>3. TaskTypes' /\ GroupTypes'
    BY <1>8, <1>t, <2>1, <2>2 DEF ExecuteSequence, TaskTypes, GroupTypes
  <2>4. HookTypes'
    BY <1>8, <1>t, HookTyped, Kinds DEF ExecuteSequence, Place
  <2>5. ThreadTypes'
    BY <1>8, <1>t, <2>1, <2>2 DEF ExecuteSequence, ThreadTypes, PC
  <2>6. Others(th)
    BY <1>8, <1>t DEF ExecuteSequence, ThreadTypes, Others
  <2>7. Place(th)'
    BY <1>8, <1>t, <2>1, <2>2 DEF ExecuteSequence, ThreadTypes, Place, Neutral
  <2> QED
    BY <1>t, <2>3, <2>4, <2>5, <2>6, <2>7, OthersStay DEF Types
<1>9. ASSUME NEW th \in Thread, ExecuteParallel(th) PROVE Types'
  <2>1. TaskTypes' /\ GroupTypes'
    BY <1>9, <1>t DEF ExecuteParallel, TaskTypes, GroupTypes
  <2>2. HookTypes'
    BY <1>9, <1>t, HookTyped, Kinds DEF ExecuteParallel, Place
  <2>3. ThreadTypes'
    BY <1>9, <1>t DEF ExecuteParallel, ThreadTypes, PC
  <2>4. Others(th)
    BY <1>9, <1>t DEF ExecuteParallel, ThreadTypes, Others
  <2>5. Place(th)'
    BY <1>9, <1>t DEF ExecuteParallel, ThreadTypes, Place, Neutral
  <2> QED
    BY <1>t, <2>1, <2>2, <2>3, <2>4, <2>5, OthersStay DEF Types
<1>10. ASSUME NEW th \in Thread, FetchIndex(th) PROVE Types'
  <2>1. PICK label \in {"spawning", "scheduling", "first", "return"} : Fetched(th, label)
    BY <1>10, FetchKinds
  <2>2. cur[th] \in Parallel /\ nextIndex[cur[th]] \in Nat \ {0}
    BY <1>10, <1>t DEF FetchIndex, Place, GroupTypes
  <2>3. TaskTypes' /\ HookTypes' /\ GroupTypes'
    BY <1>10, <1>t, <2>2 DEF FetchIndex, TaskTypes, HookTypes, GroupTypes
  <2>4. ThreadTypes'
    BY <1>t, <2>1, <2>2 DEF Fetched, ThreadTypes, PC
  <2>5. Others(th)
    BY <1>t, <2>1 DEF Fetched, ThreadTypes, Others
  <2>6. Place(th)'
    <3>1. Len(members[cur[th]]) \in Nat
      BY <2>2, GroupFacts, Kinds
    <3> QED
      BY <1>t, <2>1, <2>2, <3>1 DEF Fetched, ThreadTypes, Place, Neutral
  <2> QED
    BY <1>t, <2>3, <2>4, <2>5, <2>6, OthersStay DEF Types
<1>11. ASSUME NEW th \in Thread, SpawnTask(th) PROVE Types'
  <2>1. cur[th] \in Parallel /\ Len(members[cur[th]]) \in Nat \ {0} /\ \A i \in 1..Len(members[cur[th]]) : members[cur[th]][i] \in Task
    BY <1>11, <1>t, GroupFacts, Kinds DEF SpawnTask, Place
  <2>2. members[cur[th]][at[th] + 1] \in Task
    BY <1>11, <1>t, <2>1 DEF SpawnTask, Place
  <2>3. TaskTypes' /\ HookTypes' /\ GroupTypes'
    BY <1>11, <1>t, <2>1, <2>2 DEF SpawnTask, TaskTypes, HookTypes, GroupTypes
  <2>4. ThreadTypes'
    <3>1. CASE grabbed[members[cur[th]][at[th] + 1]] \/ done[members[cur[th]][at[th] + 1]]
      BY <1>11, <1>t, <2>1, <2>2, <3>1 DEF SpawnTask, ThreadTypes, PC
    <3>2. CASE ~(grabbed[members[cur[th]][at[th] + 1]] \/ done[members[cur[th]][at[th] + 1]])
      <4>1. pc' = [pc EXCEPT ![th] = pc'[th]] /\ pc'[th] \in {"first", "spawn"}
        BY <1>11, <1>t, <3>2 DEF SpawnTask, ThreadTypes
      <4>2. scheduled' = [scheduled EXCEPT ![th] = scheduled'[th]] /\ scheduled'[th] \in Nat
        BY <1>11, <1>t, <3>2 DEF SpawnTask, ThreadTypes
      <4>3. adding' = [adding EXCEPT ![th] = members[cur[th]][at[th] + 1]]
        BY <1>11, <3>2 DEF SpawnTask
      <4>4. UNCHANGED <<cur, at, asking, frames, helping, helpAt, outer>>
        BY <1>11, <3>2 DEF SpawnTask
      <4> QED
        BY <1>t, <2>2, <4>1, <4>2, <4>3, <4>4 DEF ThreadTypes, PC
    <3> QED
      BY <1>11, <1>t, <2>1, <2>2, <3>1, <3>2
  <2>5. Others(th)
    BY <1>11, <1>t DEF SpawnTask, ThreadTypes, Others
  <2>6. Place(th)'
    BY <1>11, <1>t, <2>1, <2>2 DEF SpawnTask, ThreadTypes, Place, Neutral
  <2> QED
    BY <1>t, <2>3, <2>4, <2>5, <2>6, OthersStay DEF Types
<1>12. ASSUME NEW th \in Thread, GrabFirst(th) PROVE Types'
  <2>1. cur[th] \in Parallel /\ Len(members[cur[th]]) \in Nat \ {0} /\ \A i \in 1..Len(members[cur[th]]) : members[cur[th]][i] \in Task
    BY <1>12, <1>t, GroupFacts, Kinds DEF GrabFirst, Place
  <2>2. members[cur[th]][1] \in Task
    BY <1>12, <1>t, <2>1 DEF GrabFirst
  <2>3. TaskTypes' /\ HookTypes' /\ GroupTypes'
    BY <1>12, <1>t, <2>1, <2>2 DEF GrabFirst, TaskTypes, HookTypes, GroupTypes
  <2>4. ThreadTypes'
    BY <1>12, <1>t, <2>1, <2>2 DEF GrabFirst, ThreadTypes, PC
  <2>5. Others(th)
    BY <1>12, <1>t DEF GrabFirst, ThreadTypes, Others
  <2>6. Place(th)'
    BY <1>12, <1>t, <2>1, <2>2 DEF GrabFirst, ThreadTypes, Place, Neutral
  <2> QED
    BY <1>t, <2>3, <2>4, <2>5, <2>6, OthersStay DEF Types
<1>13. ASSUME NEW th \in Thread, NotifyTask(th) PROVE Types'
  <2>1. TaskTypes' /\ GroupTypes'
    BY <1>13, <1>t DEF NotifyTask, TaskTypes, GroupTypes
  <2>2. HookTypes'
    BY <1>13, <1>t, HookTyped, Kinds DEF NotifyTask, Place
  <2>3. ThreadTypes'
    BY <1>13, <1>t DEF NotifyTask, ThreadTypes, PC
  <2>4. Others(th)
    BY <1>13, <1>t DEF NotifyTask, ThreadTypes, Others
  <2>5. Place(th)'
    BY <1>13, <1>t DEF NotifyTask, ThreadTypes, Place, Neutral
  <2> QED
    BY <1>t, <2>1, <2>2, <2>3, <2>4, <2>5, OthersStay DEF Types
<1>14. ASSUME NEW th \in Thread, ReportToNobody(th) PROVE Types'
  <2>1. TaskTypes' /\ HookTypes' /\ GroupTypes'
    BY <1>14, <1>t DEF ReportToNobody, TaskTypes, HookTypes, GroupTypes
  <2>2. ThreadTypes'
    BY <1>14, <1>t DEF ReportToNobody, ThreadTypes, PC
  <2>3. Others(th)
    BY <1>14, <1>t DEF ReportToNobody, ThreadTypes, Others
  <2>4. Place(th)'
    BY <1>14, <1>t DEF ReportToNobody, ThreadTypes, Place, Neutral
  <2> QED
    BY <1>t, <2>1, <2>2, <2>3, <2>4, OthersStay DEF Types
<1>15. ASSUME NEW th \in Thread, ReportToParallel(th) PROVE Types'
  <2>1. Parent(cur[th]) \in Group /\ Parent(cur[th]) \in Task /\ cur[th] \in Task
    BY <1>15, <1>t, Kinds DEF ReportToParallel, Place
  <2>2. TaskTypes' /\ HookTypes' /\ GroupTypes'
    BY <1>15, <1>t, <2>1 DEF ReportToParallel, TaskTypes, HookTypes, GroupTypes
  <2>3. ThreadTypes'
    BY <1>15, <1>t, <2>1 DEF ReportToParallel, ThreadTypes, PC
  <2>4. Others(th)
    BY <1>15, <1>t DEF ReportToParallel, ThreadTypes, Others
  <2>5. Place(th)'
    BY <1>15, <1>t, <2>1 DEF ReportToParallel, ThreadTypes, Place, Neutral
  <2> QED
    BY <1>t, <2>2, <2>3, <2>4, <2>5, OthersStay DEF Types
<1>16. ASSUME NEW th \in Thread, ScheduleNext(th) PROVE Types'
  <2>1. cur[th] \in Parallel /\ Len(members[cur[th]]) \in Nat \ {0} /\ \A i \in 1..Len(members[cur[th]]) : members[cur[th]][i] \in Task
    BY <1>16, <1>t, GroupFacts, Kinds DEF ScheduleNext, Place
  <2>2. members[cur[th]][at[th] + 1] \in Task
    BY <1>16, <1>t, <2>1 DEF ScheduleNext, Place
  <2>3. TaskTypes' /\ HookTypes' /\ GroupTypes'
    BY <1>16, <1>t, <2>1, <2>2 DEF ScheduleNext, TaskTypes, HookTypes, GroupTypes
  <2>4. ThreadTypes'
    BY <1>16, <1>t, <2>1, <2>2 DEF ScheduleNext, ThreadTypes, PC
  <2>5. Others(th)
    BY <1>16, <1>t DEF ScheduleNext, ThreadTypes, Others
  <2>6. Place(th)'
    BY <1>16, <1>t, <2>1, <2>2 DEF ScheduleNext, ThreadTypes, Place, Neutral
  <2> QED
    BY <1>t, <2>3, <2>4, <2>5, <2>6, OthersStay DEF Types
<1>17. ASSUME NEW th \in Thread, ReportToSequence(th) PROVE Types'
  <2>1. Parent(cur[th]) \in Group /\ Parent(cur[th]) \in Task /\ cur[th] \in Task
    BY <1>17, <1>t, Kinds DEF ReportToSequence, Place
  <2>2. queue[Parent(cur[th])] \in Seq(Task)
    BY <1>17, <1>t, <2>1 DEF ReportToSequence, TaskTypes, GroupTypes, ThreadTypes
  <2>3. queue[Parent(cur[th])] # <<>> => Head(queue[Parent(cur[th])]) \in Task /\ Tail(queue[Parent(cur[th])]) \in Seq(Task)
    BY <1>17, <1>t, TailFacts, <2>1, <2>2 DEF ReportToSequence
  <2>4. TaskTypes' /\ HookTypes' /\ GroupTypes'
    BY <1>17, <1>t, <2>1, <2>2, <2>3 DEF ReportToSequence, TaskTypes, HookTypes, GroupTypes
  <2>5. ThreadTypes'
    <3>1. cur' = [cur EXCEPT ![th] = Parent(cur[th])]
      BY <1>17 DEF ReportToSequence
    <3>2. frames' = [frames EXCEPT ![th] = Append(frames[th], cur[th])]
      BY <1>17 DEF ReportToSequence
    <3>3. Append(frames[th], cur[th]) \in Seq(Task)
      BY <1>t, <2>1, AppendFacts DEF ThreadTypes
    <3>4. /\ pc' = [pc EXCEPT ![th] = pc'[th]] /\ pc'[th] \in PC
          /\ adding' = [adding EXCEPT ![th] = adding'[th]]
          /\ adding'[th] \in Task \cup {NoTask}
      BY <1>17, <1>t, <2>3 DEF ReportToSequence, ThreadTypes, PC
    <3>5. UNCHANGED <<at, scheduled, asking, helping, helpAt, outer>>
      BY <1>17 DEF ReportToSequence
    <3> QED
      BY <1>t, <2>1, <3>1, <3>2, <3>3, <3>4, <3>5 DEF ThreadTypes
  <2>6. Others(th)
    BY <1>17, <1>t DEF ReportToSequence, ThreadTypes, Others
  <2>7. Place(th)'
    BY <1>17, <1>t, <2>1, <2>2, <2>3 DEF ReportToSequence, ThreadTypes, Place, Neutral
  <2> QED
    BY <1>t, <2>4, <2>5, <2>6, <2>7, OthersStay DEF Types
<1>18. ASSUME NEW th \in Thread, JoinGroup(th) PROVE Types'
  <2>1. TaskTypes' /\ HookTypes' /\ GroupTypes'
    BY <1>18, <1>t DEF JoinGroup, TaskTypes, HookTypes, GroupTypes
  <2>2. ThreadTypes'
    BY <1>18, <1>t DEF JoinGroup, ThreadTypes, PC
  <2>3. Others(th)
    BY <1>18, <1>t DEF JoinGroup, ThreadTypes, Others
  <2>4. Place(th)'
    BY <1>18, <1>t, Kinds DEF JoinGroup, ThreadTypes, Place, Neutral
  <2> QED
    BY <1>t, <2>1, <2>2, <2>3, <2>4, OthersStay DEF Types
<1>19. ASSUME NEW th \in Thread, ResetParent(th) PROVE Types'
  <2>1. TaskTypes' /\ HookTypes' /\ GroupTypes'
    BY <1>19, <1>t DEF ResetParent, TaskTypes, HookTypes, GroupTypes
  <2>2. ThreadTypes'
    BY <1>19, <1>t DEF ResetParent, ThreadTypes, PC
  <2>3. Others(th)
    BY <1>19, <1>t DEF ResetParent, ThreadTypes, Others
  <2>4. Place(th)'
    BY <1>19, <1>t DEF ResetParent, ThreadTypes, Place, Neutral
  <2> QED
    BY <1>t, <2>1, <2>2, <2>3, <2>4, OthersStay DEF Types
<1>20. ASSUME NEW th \in Thread, Return(th) PROVE Types'
  <2>1. TaskTypes' /\ HookTypes' /\ GroupTypes'
    BY <1>20, <1>t DEF Return, TaskTypes, HookTypes, GroupTypes
  <2>2. ThreadTypes'
    BY <1>20, <1>t DEF Return, ThreadTypes, PC
  <2>3. Others(th)
    BY <1>20, <1>t DEF Return, ThreadTypes, Others
  <2>4. Place(th)'
    BY <1>20, <1>t DEF Return, ThreadTypes, Place, Neutral
  <2> QED
    BY <1>t, <2>1, <2>2, <2>3, <2>4, OthersStay DEF Types
<1>21. ASSUME NEW th \in Thread, Help(th) PROVE Types'
  <2>1. helping[th] \in Parallel /\ Len(members[helping[th]]) \in Nat /\ \A i \in 1..Len(members[helping[th]]) : members[helping[th]][i] \in Task
    BY <1>21, <1>t, GroupFacts, Kinds DEF Help, Place
  <2>2. members[helping[th]][helpAt[th]] \in Task
    BY <1>21, <1>t, <2>1 DEF Help, TaskTypes, GroupTypes, ThreadTypes
  <2>3. TaskTypes' /\ HookTypes' /\ GroupTypes'
    BY <1>21, <1>t, <2>1, <2>2 DEF Help, TaskTypes, HookTypes, GroupTypes
  <2>4. ThreadTypes'
    <3>1. CASE grabbed[members[helping[th]][helpAt[th]]]
      BY <1>21, <1>t, <2>1, <2>2, <3>1 DEF Help, ThreadTypes, PC
    <3>2. CASE ~grabbed[members[helping[th]][helpAt[th]]]
      <4>1. pc' = [pc EXCEPT ![th] = "execute"]
        BY <1>21, <3>2 DEF Help
      <4>2. cur' = [cur EXCEPT ![th] = members[helping[th]][helpAt[th]]]
        BY <1>21, <3>2 DEF Help
      <4>3. helpAt' = [helpAt EXCEPT ![th] = helpAt[th] + 1]
        BY <1>21 DEF Help
      <4>4. UNCHANGED <<at, scheduled, adding, asking, frames, helping, outer>>
        BY <1>21 DEF Help
      <4> QED
        BY <1>t, <2>2, <4>1, <4>2, <4>3, <4>4 DEF ThreadTypes, PC
    <3> QED
      BY <1>21, <1>t, <2>1, <2>2, <3>1, <3>2
  <2>5. Others(th)
    BY <1>21, <1>t DEF Help, ThreadTypes, Others
  <2>6. Place(th)'
    BY <1>21, <1>t, <2>1, <2>2 DEF Help, ThreadTypes, Place, Neutral
  <2> QED
    BY <1>t, <2>3, <2>4, <2>5, <2>6, OthersStay DEF Types
<1>22. ASSUME NEW th \in Thread, HelpEnds(th) PROVE Types'
  <2>1. helping[th] \in Parallel /\ helping[th] \in Task
    BY <1>22, <1>t, Kinds DEF HelpEnds, Place
  <2>2. TaskTypes' /\ HookTypes' /\ GroupTypes'
    BY <1>22, <1>t, <2>1 DEF HelpEnds, TaskTypes, HookTypes, GroupTypes
  <2>3. ThreadTypes'
    BY <1>22, <1>t, <2>1 DEF HelpEnds, ThreadTypes, PC
  <2>4. Others(th)
    BY <1>22, <1>t DEF HelpEnds, ThreadTypes, Others
  <2>5. Place(th)'
    BY <1>22, <1>t, <2>1 DEF HelpEnds, ThreadTypes, Place, Neutral
  <2> QED
    BY <1>t, <2>2, <2>3, <2>4, <2>5, OthersStay DEF Types
<1>23. ASSUME NEW th \in Thread, WaitReturns(th) PROVE Types'
  <2>1. TaskTypes' /\ HookTypes' /\ GroupTypes'
    BY <1>23, <1>t DEF WaitReturns, TaskTypes, HookTypes, GroupTypes
  <2>2. ThreadTypes'
    BY <1>23, <1>t DEF WaitReturns, ThreadTypes, PC
  <2>3. Others(th)
    BY <1>23, <1>t DEF WaitReturns, ThreadTypes, Others
  <2>4. Place(th)'
    BY <1>23, <1>t DEF WaitReturns, ThreadTypes, Place, Neutral
  <2> QED
    BY <1>t, <2>1, <2>2, <2>3, <2>4, OthersStay DEF Types
<1>24. ASSUME NEW th \in Thread, CallReturns(th) PROVE Types'
  <2>1. outer[th] \in Seq(Suspended)
    BY <1>24, <1>t DEF CallReturns, TaskTypes, GroupTypes, ThreadTypes
  <2>2. /\ Len(outer[th]) \in Nat \ {0}
       /\ outer[th][Len(outer[th])] \in Suspended
       /\ SubSeq(outer[th], 1, Len(outer[th]) - 1) \in Seq(Suspended)
    BY <1>24, <1>t, FrontFacts, <2>1 DEF CallReturns
  <2>3. /\ outer[th][Len(outer[th])].task \in Unit /\ Calls[outer[th][Len(outer[th])].task] # NoTask
       /\ outer[th][Len(outer[th])].task \in Task
       /\ outer[th][Len(outer[th])].frames \in Seq(Task)
       /\ outer[th][Len(outer[th])].helping \in Parallel \cup {NoTask}
       /\ outer[th][Len(outer[th])].helpAt \in Nat \ {0}
    BY <1>24, <1>t, Kinds, <2>1, <2>2 DEF CallReturns, Suspended
  <2>4. TaskTypes' /\ HookTypes' /\ GroupTypes'
    BY <1>24, <1>t, <2>1, <2>2, <2>3 DEF CallReturns, TaskTypes, HookTypes, GroupTypes
  <2>5. ThreadTypes'
    BY <1>24, <1>t, <2>1, <2>2, <2>3 DEF CallReturns, ThreadTypes, PC
  <2>6. Others(th)
    BY <1>24, <1>t DEF CallReturns, ThreadTypes, Others
  <2>7. Place(th)'
    BY <1>24, <1>t, <2>1, <2>2, <2>3 DEF CallReturns, ThreadTypes, Place, Neutral
  <2> QED
    BY <1>t, <2>4, <2>5, <2>6, <2>7, OthersStay DEF Types
<1>25. ASSUME NEW th \in Thread, NEW t \in Task, PopTask(th, t) PROVE Types'
  <2>1. TaskTypes' /\ HookTypes' /\ GroupTypes'
    BY <1>25, <1>t DEF PopTask, TaskTypes, HookTypes, GroupTypes
  <2>2. ThreadTypes'
    BY <1>25, <1>t DEF PopTask, ThreadTypes, PC
  <2>3. Others(th)
    BY <1>25, <1>t DEF PopTask, ThreadTypes, Others
  <2>4. Place(th)'
    BY <1>25, <1>t DEF PopTask, ThreadTypes, Place, Neutral
  <2> QED
    BY <1>t, <2>1, <2>2, <2>3, <2>4, OthersStay DEF Types
<1>26. ASSUME NEW th \in Thread, NEW t \in Task, Submit(th, t) PROVE Types'
  <2>1. TaskTypes' /\ HookTypes' /\ GroupTypes'
    BY <1>26, <1>t DEF Submit, TaskTypes, HookTypes, GroupTypes
  <2>2. ThreadTypes'
    BY <1>26, <1>t DEF Submit, ThreadTypes, PC
  <2>3. Others(th)
    BY <1>26, <1>t DEF Submit, ThreadTypes, Others
  <2>4. Place(th)'
    BY <1>26, <1>t DEF Submit, ThreadTypes, Place, Neutral
  <2> QED
    BY <1>t, <2>1, <2>2, <2>3, <2>4, OthersStay DEF Types
<1>27. ASSUME NEW th \in Thread, NEW t \in Task, ActiveWaitTask(th, t) PROVE Types'
  <2>1. TaskTypes' /\ HookTypes' /\ GroupTypes'
    BY <1>27, <1>t DEF ActiveWaitTask, TaskTypes, HookTypes, GroupTypes
  <2>2. ThreadTypes'
    BY <1>27, <1>t DEF ActiveWaitTask, ThreadTypes, PC
  <2>3. Others(th)
    BY <1>27, <1>t DEF ActiveWaitTask, ThreadTypes, Others
  <2>4. Place(th)'
    BY <1>27, <1>t DEF ActiveWaitTask, ThreadTypes, Place, Neutral
  <2> QED
    BY <1>t, <2>1, <2>2, <2>3, <2>4, OthersStay DEF Types
<1>28. ASSUME NEW th \in Thread, NEW t \in Task, Wait(th, t) PROVE Types'
  <2>1. TaskTypes' /\ HookTypes' /\ GroupTypes'
    BY <1>28, <1>t DEF Wait, TaskTypes, HookTypes, GroupTypes
  <2>2. ThreadTypes'
    BY <1>28, <1>t DEF Wait, ThreadTypes, PC
  <2>3. Others(th)
    BY <1>28, <1>t DEF Wait, ThreadTypes, Others
  <2>4. Place(th)'
    BY <1>28, <1>t DEF Wait, ThreadTypes, Place, Neutral
  <2> QED
    BY <1>t, <2>1, <2>2, <2>3, <2>4, OthersStay DEF Types
<1>29. ASSUME NEW th \in Thread, NEW t \in Parallel, ActiveWaitGroup(th, t) PROVE Types'
  <2>1. TaskTypes' /\ HookTypes' /\ GroupTypes'
    BY <1>29, <1>t DEF ActiveWaitGroup, TaskTypes, HookTypes, GroupTypes
  <2>2. ThreadTypes'
    BY <1>29, <1>t DEF ActiveWaitGroup, ThreadTypes, PC
  <2>3. Others(th)
    BY <1>29, <1>t DEF ActiveWaitGroup, ThreadTypes, Others
  <2>4. Place(th)'
    BY <1>29, <1>t DEF ActiveWaitGroup, ThreadTypes, Place, Neutral
  <2> QED
    BY <1>t, <2>1, <2>2, <2>3, <2>4, OthersStay DEF Types
<1>30. CASE UNCHANGED vars
  BY <1>30 DEF vars, Types, TaskTypes, HookTypes, GroupTypes, ThreadTypes, Place
<1> QED
  BY <1>1, <1>2, <1>3, <1>4, <1>5, <1>6, <1>7, <1>8, <1>9, <1>10, <1>11, <1>12, <1>13, <1>14, <1>15, <1>16, <1>17, <1>18, <1>19, <1>20, <1>21, <1>22, <1>23, <1>24, <1>25, <1>26, <1>27, <1>28, <1>29, <1>30, Kinds DEF Next, Continue

-----------------------------------------------------------------------------
(* What a step does to the tasks: it has one of the forms below, and only the    *)
(* proof of StepKinds opens the actions.                                        *)

Still(th) == \A th2 \in Thread \ {th} : UNCHANGED <<pc[th2], cur[th2], outer[th2]>>

\* th takes no task, completes none, goes into and out of no call of activeWait.
Plain(th) == Still(th) /\ UNCHANGED <<outer[th], done, queue, activeCount>>

\* It wanders from one label at which it has no task in hand to another; it may
\* grab the group it drops for being done.
Wander(th) ==
  /\ Plain(th)
  /\ pc[th] \in Neutral /\ pc'[th] \in Neutral
  /\ \A t \in Task : (grabbed[t] => grabbed'[t]) /\ (grabbed'[t] => grabbed[t] \/ done[t])

\* It takes a task nobody has,
Take(th, t) ==
  /\ Plain(th)
  /\ pc[th] \in Neutral /\ pc'[th] \in {"verify", "execute"} /\ cur'[th] = t
  /\ ~grabbed[t]
  /\ \A t2 \in Task : grabbed'[t2] <=> grabbed[t2] \/ t2 = t

\* keeps it, or drops it: a group that is done, or whose execution goes on without it.
Keep(th) ==
  /\ Plain(th) /\ UNCHANGED <<grabbed, cur[th]>>
  /\ pc[th] = "verify" /\ pc'[th] = "execute"

Drop(th) ==
  /\ Plain(th) /\ UNCHANGED grabbed
  /\ pc[th] \in {"verify", "execute"} /\ pc'[th] \in Neutral
  /\ pc[th] = "verify" => done[cur[th]]
  /\ cur[th] \in Sequence => done[cur[th]] \/ queue[cur[th]] = <<>>

\* A function, or a group, has ended,
Finish(th) ==
  /\ Still(th) /\ UNCHANGED <<outer[th], grabbed, queue, activeCount, cur[th]>>
  /\ \/ pc[th] = "execute" /\ cur[th] \in Unit /\ Calls[cur[th]] = NoTask
     \/ pc[th] = "called" /\ cur[th] \in Unit
     \/ pc[th] = "join" /\ cur[th] \in Group
  /\ pc'[th] = "notify"
  /\ \A t \in Task : done'[t] <=> done[t] \/ t = cur[th]

\* its event is notified, and its parent hears of it: it is
Tell(th) ==
  /\ Plain(th) /\ UNCHANGED <<grabbed, cur[th]>>
  /\ pc[th] = "notify" /\ pc'[th] = "report"

\* nobody, a parallel group, or a sequence group, which is over or goes on.
Report(th) ==
  /\ Still(th) /\ UNCHANGED <<outer[th], grabbed, done>>
  /\ pc[th] = "report" /\ pc'[th] \in Neutral \cup {"join"}

TellNobody(th) ==
  /\ Report(th) /\ UNCHANGED <<queue, activeCount>>
  /\ Parent(cur[th]) = NoTask
  /\ pc'[th] \in Neutral

TellParallel(th, g) ==
  /\ Report(th) /\ UNCHANGED queue
  /\ Parent(cur[th]) = g /\ cur'[th] = g
  /\ \A g2 \in Parallel : activeCount'[g2] = IF g2 = g THEN activeCount[g] - 1 ELSE activeCount[g2]
  /\ IF activeCount[g] = 1 THEN pc'[th] = "join" ELSE pc'[th] \in Neutral

TellSequence(th, s) ==
  /\ Report(th) /\ UNCHANGED activeCount
  /\ Parent(cur[th]) = s /\ cur'[th] = s
  /\ \A s2 \in Sequence \ {s} : queue'[s2] = queue[s2]
  /\ IF queue[s] = <<>> THEN pc'[th] = "join" /\ queue'[s] = <<>>
                        ELSE pc'[th] \in Neutral /\ queue'[s] = Tail(queue[s])

\* A sequence starts, with its first task unless somebody has it.
Start(th, s) ==
  /\ Still(th) /\ UNCHANGED <<outer[th], done, activeCount>>
  /\ pc[th] = "execute" /\ cur[th] = s
  /\ queue[s] # <<>>
  /\ \A s2 \in Sequence : queue'[s2] = IF s2 = s THEN Tail(queue[s]) ELSE queue[s2]
  /\ \A t \in Task : grabbed'[t] <=> grabbed[t] \/ t = Head(queue[s])
  /\ IF grabbed[Head(queue[s])] THEN pc'[th] \in Neutral
                                ELSE pc'[th] = "execute" /\ cur'[th] = Head(queue[s])

\* A function calls activeWait, and comes back from it.
Leave(th) ==
  /\ Still(th) /\ UNCHANGED <<done, grabbed, queue, activeCount>>
  /\ pc[th] = "execute" /\ cur[th] \in Unit /\ pc'[th] \in Neutral
  /\ \E o \in Suspended : o.task = cur[th] /\ outer'[th] = Append(outer[th], o)

ComeBack(th) ==
  /\ Still(th) /\ UNCHANGED <<done, grabbed, queue, activeCount>>
  /\ pc[th] = "waiting" /\ pc'[th] = "called"
  /\ outer[th] # <<>>
  /\ outer'[th] = SubSeq(outer[th], 1, Len(outer[th]) - 1)
  /\ cur'[th] = outer[th][Len(outer[th])].task

Form(th) ==
  \/ Wander(th) \/ Keep(th) \/ Drop(th) \/ Finish(th) \/ Tell(th) \/ TellNobody(th)
  \/ Leave(th) \/ ComeBack(th)
  \/ \E t \in Task : Take(th, t)
  \/ \E g \in Parallel : TellParallel(th, g)
  \/ \E s \in Sequence : TellSequence(th, s) \/ Start(th, s)

\* th takes a step.
Acts(th) ==
  \/ Continue(th)
  \/ \E t \in Task : PopTask(th, t) \/ Submit(th, t) \/ ActiveWaitTask(th, t) \/ Wait(th, t)
  \/ \E g \in Parallel : ActiveWaitGroup(th, g)

LEMMA ActKinds ==
  ASSUME Types, NEW th \in Thread, Acts(th)
  PROVE  Form(th)
<1>t. TaskTypes /\ GroupTypes /\ ThreadTypes /\ \A th1 \in Thread : Place(th1)
  BY DEF Types
<1> USE DEF At, Goto, On, Add, EnterParent, taskVars, groupVars, addVars, callVars, helpVars
<1>1. ASSUME TestTask(th) PROVE Wander(th)
  BY <1>1, <1>t DEF TestTask, Wander, Plain, Neutral, Place, Still, ThreadTypes, TaskTypes
<1>2. ASSUME SpawnTask(th) PROVE Wander(th)
  BY <1>2, <1>t DEF SpawnTask, Wander, Plain, Neutral, Place, Still, ThreadTypes, TaskTypes
<1>3. ASSUME ScheduleNext(th) PROVE Wander(th)
  BY <1>3, <1>t DEF ScheduleNext, Wander, Plain, Neutral, Place, Still, ThreadTypes, TaskTypes
<1>4. ASSUME ResetParent(th) PROVE Wander(th)
  BY <1>4, <1>t DEF ResetParent, Wander, Plain, Neutral, Place, Still, ThreadTypes, TaskTypes
<1>5. ASSUME Return(th) PROVE Wander(th)
  BY <1>5, <1>t DEF Return, Wander, Plain, Neutral, Place, Still, ThreadTypes, TaskTypes
<1>6. ASSUME HelpEnds(th) PROVE Wander(th)
  BY <1>6, <1>t DEF HelpEnds, Wander, Plain, Neutral, Place, Still, ThreadTypes, TaskTypes
<1>7. ASSUME WaitReturns(th) PROVE Wander(th)
  BY <1>7, <1>t DEF WaitReturns, Wander, Plain, Neutral, Place, Still, ThreadTypes, TaskTypes
<1>8. ASSUME AskParent(th) PROVE Wander(th)
  BY <1>8, <1>t, InheritTasks, Kinds DEF AskParent, Wander, Plain, Neutral, Place, Still, ThreadTypes, TaskTypes
<1>9. ASSUME PushTask(th) PROVE Wander(th)
  BY <1>9, <1>t, InheritTasks, Kinds DEF PushTask, Wander, Plain, Neutral, Place, Still, ThreadTypes, TaskTypes
<1>10. ASSUME FetchIndex(th) PROVE Wander(th)
  <2>1. PICK label \in {"spawning", "scheduling", "first", "return"} : Fetched(th, label)
    BY <1>10, FetchKinds
  <2> QED
    BY <1>t, <2>1 DEF Fetched, Wander, Plain, Neutral, Still, ThreadTypes, TaskTypes
<1>11. ASSUME NEW t \in Task, Submit(th, t) PROVE Wander(th)
  BY <1>11, <1>t DEF Submit, Wander, Plain, Neutral, Place, Still, ThreadTypes, TaskTypes
<1>12. ASSUME NEW t \in Task, Wait(th, t) PROVE Wander(th)
  BY <1>12, <1>t DEF Wait, Wander, Plain, Neutral, Place, Still, ThreadTypes, TaskTypes
<1>13. ASSUME NEW g \in Parallel, ActiveWaitGroup(th, g) PROVE Wander(th)
  BY <1>13, <1>t DEF ActiveWaitGroup, Wander, Plain, Neutral, Place, Still, ThreadTypes, TaskTypes
<1>14. ASSUME NEW t \in Task, PopTask(th, t) PROVE Wander(th) \/ Take(th, t)
  BY <1>14, <1>t DEF PopTask, Wander, Take, Plain, Neutral, Still, ThreadTypes, TaskTypes
<1>15. ASSUME NEW t \in Task, ActiveWaitTask(th, t) PROVE Wander(th) \/ Take(th, t)
  BY <1>15, <1>t DEF ActiveWaitTask, Wander, Take, Plain, Neutral, Still, ThreadTypes, TaskTypes
<1>16. ASSUME GrabFirst(th) PROVE \E t \in Task : Wander(th) \/ Take(th, t)
  <2>1. members[cur[th]][1] \in Task
    BY <1>16, <1>t, GroupFacts, Kinds DEF GrabFirst, Place
  <2> QED
    BY <1>16, <1>t, <2>1 DEF GrabFirst, Wander, Take, Plain, Neutral, Still, ThreadTypes, TaskTypes, GroupTypes
<1>17. ASSUME Help(th) PROVE \E t \in Task : Wander(th) \/ Take(th, t)
  <2>1. helping[th] \in Group /\ helpAt[th] \in 1..Len(members[helping[th]])
    BY <1>17, <1>t, GroupFacts, Kinds DEF Help, Place, ThreadTypes
  <2>2. members[helping[th]][helpAt[th]] \in Task
    BY <1>17, <1>t, GroupFacts, <2>1 DEF Help
  <2> QED
    BY <1>17, <1>t, <2>1, <2>2 DEF Help, Wander, Take, Plain, Neutral, Still, ThreadTypes, TaskTypes, GroupTypes
<1>18. ASSUME Verify(th) PROVE Keep(th) \/ Drop(th)
  BY <1>18, <1>t DEF Verify, Keep, Drop, Plain, Neutral, Still, ThreadTypes, TaskTypes
<1>19. ASSUME ExecuteParallel(th) PROVE Drop(th)
  BY <1>19, <1>t, Kinds DEF ExecuteParallel, Drop, Plain, Neutral, Still, ThreadTypes, TaskTypes
<1>20. ASSUME ExecuteTask(th) PROVE Finish(th)
  BY <1>20, <1>t DEF ExecuteTask, Finish, Still, ThreadTypes, TaskTypes
<1>21. ASSUME FinishCaller(th) PROVE Finish(th)
  BY <1>21, <1>t DEF FinishCaller, Finish, Place, Still, ThreadTypes, TaskTypes
<1>22. ASSUME JoinGroup(th) PROVE Finish(th)
  BY <1>22, <1>t DEF JoinGroup, Finish, Place, Still, ThreadTypes, TaskTypes
<1>23. ASSUME NotifyTask(th) PROVE Tell(th)
  BY <1>23, <1>t DEF NotifyTask, Tell, Plain, Still, ThreadTypes, TaskTypes
<1>24. ASSUME ReportToNobody(th) PROVE TellNobody(th)
  BY <1>24, <1>t DEF ReportToNobody, TellNobody, Report, Neutral, Still, ThreadTypes, TaskTypes
<1>25. ASSUME ReportToParallel(th) PROVE \E g \in Parallel : TellParallel(th, g)
  BY <1>25, <1>t DEF ReportToParallel, TellParallel, Report, Neutral, GroupTypes, Still, ThreadTypes, TaskTypes
<1>26. ASSUME ReportToSequence(th) PROVE \E s \in Sequence : TellSequence(th, s)
  BY <1>26, <1>t DEF ReportToSequence, TellSequence, Report, Neutral, GroupTypes, Still, ThreadTypes, TaskTypes
<1>27. ASSUME ExecuteSequence(th) PROVE Drop(th) \/ \E s \in Sequence : Start(th, s)
  <2>1. queue[cur[th]] \in Seq(Task)
    BY <1>27, <1>t DEF ExecuteSequence, GroupTypes
  <2>2. queue[cur[th]] # <<>> => Head(queue[cur[th]]) \in Task
    BY <1>27, <1>t, TailFacts, <2>1 DEF ExecuteSequence
  <2> QED
    BY <1>27, <1>t, <2>1, <2>2 DEF ExecuteSequence, Start, Drop, Plain, Neutral, Still, ThreadTypes, TaskTypes, GroupTypes
<1>28. ASSUME CallGroup(th) PROVE Leave(th)
  <2>1. [task |-> cur[th], frames |-> frames[th], helping |-> helping[th], helpAt |-> helpAt[th]] \in Suspended
    BY <1>28, <1>t DEF CallGroup, ThreadTypes, Suspended
  <2> QED
    BY <1>28, <1>t, <2>1 DEF CallGroup, Leave, Neutral, Still, ThreadTypes, TaskTypes, GroupTypes
<1>29. ASSUME CallReturns(th) PROVE ComeBack(th)
  BY <1>29, <1>t DEF CallReturns, ComeBack, Still, ThreadTypes, TaskTypes
<1> QED
  BY <1>1, <1>2, <1>3, <1>4, <1>5, <1>6, <1>7, <1>8, <1>9, <1>10, <1>11, <1>12, <1>13, <1>14, <1>15, <1>16, <1>17, <1>18, <1>19, <1>20, <1>21, <1>22, <1>23, <1>24, <1>25, <1>26, <1>27, <1>28, <1>29 DEF Acts, Continue, Form

LEMMA StepKinds ==
  ASSUME Types, [Next]_vars
  PROVE  (\E th \in Thread : Form(th)) \/ UNCHANGED vars
BY ActKinds, Kinds DEF Next, Acts

-----------------------------------------------------------------------------
(* Who has a task in hand: one thread runs it, one ends it.                   *)

Runs(th, t)   == cur[th] = t /\ pc[th] \in {"verify", "execute", "called"}
Ends(th, t)   == cur[th] = t /\ pc[th] \in {"join", "notify", "report"}
InCall(th, t) == \E i \in DOMAIN outer[th] : outer[th][i].task = t

\* What is run has been grabbed, and a function that is run has not ended.
RunGrabbed ==
  \A th \in Thread, t \in Task : Runs(th, t) => grabbed[t] /\ (t \in Unit => ~done[t])

CallGrabbed == \A th \in Thread, t \in Task : InCall(th, t) => grabbed[t] /\ ~done[t]

EndDone == \A th \in Thread, t \in Task : Ends(th, t) => (done[t] <=> pc[th] # "join")

UnitGrabbed == \A t \in Unit : done[t] => grabbed[t]

RunOnce == \A th1, th2 \in Thread, t \in Task : Runs(th1, t) /\ Runs(th2, t) => th1 = th2

EndOnce == \A th1, th2 \in Thread, t \in Task : Ends(th1, t) /\ Ends(th2, t) => th1 = th2

RunOrCall == \A th1, th2 \in Thread, t \in Task : ~(Runs(th1, t) /\ InCall(th2, t))

CallOnce ==
  \A th1, th2 \in Thread : \A i \in DOMAIN outer[th1], j \in DOMAIN outer[th2] :
    outer[th1][i].task = outer[th2][j].task => th1 = th2 /\ i = j

Hands ==
  RunGrabbed /\ CallGrabbed /\ EndDone /\ UnitGrabbed /\ RunOnce /\ EndOnce /\ RunOrCall
    /\ CallOnce

\* What is left of a group: those of its tasks it has not heard of.
Left(g) == {t \in Members(g) : Unreported(t)}

\* When a group is done, or about to be, nothing is left of it.
NothingLeft ==
  \A g \in Group : done[g] \/ (\E th \in Thread : Ends(th, g)) => Left(g) = {}

LEMMA HandsInit == Init => Hands
BY Kinds DEF Init, Hands, RunGrabbed, CallGrabbed, EndDone, UnitGrabbed, RunOnce, EndOnce,
  RunOrCall, CallOnce, Runs, Ends, InCall

\* The task a thread completes is the only one on its way to the parent.
LEMMA ReportUnique ==
  ASSUME Types, Hands, NEW th \in Thread, Report(th)
  PROVE  /\ cur[th] \in Task /\ Unreported(cur[th])
         /\ \A t \in Task : Unreported(t)' <=> Unreported(t) /\ t # cur[th]
<1>1. cur[th] \in Task /\ done[cur[th]] /\ Unreported(cur[th])
  BY DEF Types, Place, Report, Hands, EndDone, Ends, Unreported
<1>2. ASSUME NEW th2 \in Thread, th2 # th, cur[th2] = cur[th] PROVE pc[th2] \notin {"notify", "report"}
  BY <1>1, <1>2 DEF Report, Hands, EndOnce, Ends
<1>3. pc'[th] \notin {"notify", "report"}
  BY DEF Report, Neutral
<1> QED
  BY <1>1, <1>2, <1>3 DEF Report, Still, Unreported

\* What the others have in hand stays in their hands.
LEMMA OthersHold ==
  ASSUME NEW th \in Thread, Still(th)
  PROVE  \A th2 \in Thread \ {th} : \A t :
           /\ Runs(th2, t)' <=> Runs(th2, t)
           /\ Ends(th2, t)' <=> Ends(th2, t)
           /\ InCall(th2, t)' <=> InCall(th2, t)
BY DEF Still, Runs, Ends, InCall

LEMMA CallsOfUnits ==
  ASSUME Types, NEW th \in Thread
  PROVE  /\ \A i \in DOMAIN outer[th] : outer[th][i].task \in Unit
         /\ \A t : InCall(th, t) => t \in Unit
<1>1. outer[th] \in Seq(Suspended)
  BY DEF Types, ThreadTypes
<1>2. \A i \in DOMAIN outer[th] : outer[th][i] \in Suspended
  BY <1>1, LenProperties, ElementOfSeq
<1> QED
  BY <1>2 DEF Suspended, InCall

LEMMA HandsStep ==
  ASSUME Types, Hands, NothingLeft, CountsUnreported, [Next]_vars
  PROVE  Hands'
<1>t. TaskTypes /\ GroupTypes /\ ThreadTypes /\ \A th \in Thread : Place(th)
  BY DEF Types
<1>h. RunGrabbed /\ CallGrabbed /\ EndDone /\ UnitGrabbed /\ RunOnce /\ EndOnce /\ RunOrCall
        /\ CallOnce
  BY DEF Hands
<1>1. ASSUME NEW th \in Thread, Wander(th) PROVE Hands'
  <2>1. RunGrabbed'
    BY <1>1, <1>t, <1>h, Kinds DEF Wander, Still, Neutral, Plain, RunGrabbed, Runs, Ends, InCall, Place
  <2>2. CallGrabbed'
    BY <1>1, <1>t, <1>h, Kinds DEF Wander, Still, Neutral, Plain, CallGrabbed, Runs, Ends, InCall, Place
  <2>3. EndDone'
    BY <1>1, <1>t, <1>h, Kinds DEF Wander, Still, Neutral, Plain, EndDone, Runs, Ends, InCall, Place
  <2>4. UnitGrabbed'
    BY <1>1, <1>t, <1>h, Kinds DEF Wander, Still, Neutral, Plain, UnitGrabbed, Runs, Ends, InCall, Place
  <2>5. RunOnce'
    BY <1>1, <1>t, <1>h, Kinds DEF Wander, Still, Neutral, Plain, RunOnce, Runs, Ends, InCall, Place
  <2>6. EndOnce'
    BY <1>1, <1>t, <1>h, Kinds DEF Wander, Still, Neutral, Plain, EndOnce, Runs, Ends, InCall, Place
  <2>7. RunOrCall'
    BY <1>1, <1>t, <1>h, Kinds DEF Wander, Still, Neutral, Plain, RunOrCall, Runs, Ends, InCall, Place
  <2>8. CallOnce'
    BY <1>1, <1>t, <1>h, Kinds DEF Wander, Still, Neutral, Plain, CallOnce, Runs, Ends, InCall, Place
  <2> QED
    BY <2>1, <2>2, <2>3, <2>4, <2>5, <2>6, <2>7, <2>8 DEF Hands
<1>2. ASSUME NEW th \in Thread, Keep(th) PROVE Hands'
  <2>1. RunGrabbed'
    BY <1>2, <1>t, <1>h, Kinds DEF Keep, Still, Neutral, Plain, RunGrabbed, Runs, Ends, InCall, Place
  <2>2. CallGrabbed'
    BY <1>2, <1>t, <1>h, Kinds DEF Keep, Still, Neutral, Plain, CallGrabbed, Runs, Ends, InCall, Place
  <2>3. EndDone'
    BY <1>2, <1>t, <1>h, Kinds DEF Keep, Still, Neutral, Plain, EndDone, Runs, Ends, InCall, Place
  <2>4. UnitGrabbed'
    BY <1>2, <1>t, <1>h, Kinds DEF Keep, Still, Neutral, Plain, UnitGrabbed, Runs, Ends, InCall, Place
  <2>5. RunOnce'
    BY <1>2, <1>t, <1>h, Kinds DEF Keep, Still, Neutral, Plain, RunOnce, Runs, Ends, InCall, Place
  <2>6. EndOnce'
    BY <1>2, <1>t, <1>h, Kinds DEF Keep, Still, Neutral, Plain, EndOnce, Runs, Ends, InCall, Place
  <2>7. RunOrCall'
    BY <1>2, <1>t, <1>h, Kinds DEF Keep, Still, Neutral, Plain, RunOrCall, Runs, Ends, InCall, Place
  <2>8. CallOnce'
    BY <1>2, <1>t, <1>h, Kinds DEF Keep, Still, Neutral, Plain, CallOnce, Runs, Ends, InCall, Place
  <2> QED
    BY <2>1, <2>2, <2>3, <2>4, <2>5, <2>6, <2>7, <2>8 DEF Hands
<1>3. ASSUME NEW th \in Thread, Drop(th) PROVE Hands'
  <2>1. RunGrabbed'
    BY <1>3, <1>t, <1>h, Kinds DEF Drop, Still, Neutral, Plain, RunGrabbed, Runs, Ends, InCall, Place
  <2>2. CallGrabbed'
    BY <1>3, <1>t, <1>h, Kinds DEF Drop, Still, Neutral, Plain, CallGrabbed, Runs, Ends, InCall, Place
  <2>3. EndDone'
    BY <1>3, <1>t, <1>h, Kinds DEF Drop, Still, Neutral, Plain, EndDone, Runs, Ends, InCall, Place
  <2>4. UnitGrabbed'
    BY <1>3, <1>t, <1>h, Kinds DEF Drop, Still, Neutral, Plain, UnitGrabbed, Runs, Ends, InCall, Place
  <2>5. RunOnce'
    BY <1>3, <1>t, <1>h, Kinds DEF Drop, Still, Neutral, Plain, RunOnce, Runs, Ends, InCall, Place
  <2>6. EndOnce'
    BY <1>3, <1>t, <1>h, Kinds DEF Drop, Still, Neutral, Plain, EndOnce, Runs, Ends, InCall, Place
  <2>7. RunOrCall'
    BY <1>3, <1>t, <1>h, Kinds DEF Drop, Still, Neutral, Plain, RunOrCall, Runs, Ends, InCall, Place
  <2>8. CallOnce'
    BY <1>3, <1>t, <1>h, Kinds DEF Drop, Still, Neutral, Plain, CallOnce, Runs, Ends, InCall, Place
  <2> QED
    BY <2>1, <2>2, <2>3, <2>4, <2>5, <2>6, <2>7, <2>8 DEF Hands
<1>4. ASSUME NEW th \in Thread, Tell(th) PROVE Hands'
  <2>1. RunGrabbed'
    BY <1>4, <1>t, <1>h, Kinds DEF Tell, Still, Neutral, Plain, RunGrabbed, Runs, Ends, InCall, Place
  <2>2. CallGrabbed'
    BY <1>4, <1>t, <1>h, Kinds DEF Tell, Still, Neutral, Plain, CallGrabbed, Runs, Ends, InCall, Place
  <2>3. EndDone'
    BY <1>4, <1>t, <1>h, Kinds DEF Tell, Still, Neutral, Plain, EndDone, Runs, Ends, InCall, Place
  <2>4. UnitGrabbed'
    BY <1>4, <1>t, <1>h, Kinds DEF Tell, Still, Neutral, Plain, UnitGrabbed, Runs, Ends, InCall, Place
  <2>5. RunOnce'
    BY <1>4, <1>t, <1>h, Kinds DEF Tell, Still, Neutral, Plain, RunOnce, Runs, Ends, InCall, Place
  <2>6. EndOnce'
    BY <1>4, <1>t, <1>h, Kinds DEF Tell, Still, Neutral, Plain, EndOnce, Runs, Ends, InCall, Place
  <2>7. RunOrCall'
    BY <1>4, <1>t, <1>h, Kinds DEF Tell, Still, Neutral, Plain, RunOrCall, Runs, Ends, InCall, Place
  <2>8. CallOnce'
    BY <1>4, <1>t, <1>h, Kinds DEF Tell, Still, Neutral, Plain, CallOnce, Runs, Ends, InCall, Place
  <2> QED
    BY <2>1, <2>2, <2>3, <2>4, <2>5, <2>6, <2>7, <2>8 DEF Hands
<1>5. ASSUME NEW th \in Thread, TellNobody(th) PROVE Hands'
  <2>1. RunGrabbed'
    BY <1>5, <1>t, <1>h, Kinds DEF TellNobody, Still, Neutral, Report, RunGrabbed, Runs, Ends, InCall, Place
  <2>2. CallGrabbed'
    BY <1>5, <1>t, <1>h, Kinds DEF TellNobody, Still, Neutral, Report, CallGrabbed, Runs, Ends, InCall, Place
  <2>3. EndDone'
    BY <1>5, <1>t, <1>h, Kinds DEF TellNobody, Still, Neutral, Report, EndDone, Runs, Ends, InCall, Place
  <2>4. UnitGrabbed'
    BY <1>5, <1>t, <1>h, Kinds DEF TellNobody, Still, Neutral, Report, UnitGrabbed, Runs, Ends, InCall, Place
  <2>5. RunOnce'
    BY <1>5, <1>t, <1>h, Kinds DEF TellNobody, Still, Neutral, Report, RunOnce, Runs, Ends, InCall, Place
  <2>6. EndOnce'
    BY <1>5, <1>t, <1>h, Kinds DEF TellNobody, Still, Neutral, Report, EndOnce, Runs, Ends, InCall, Place
  <2>7. RunOrCall'
    BY <1>5, <1>t, <1>h, Kinds DEF TellNobody, Still, Neutral, Report, RunOrCall, Runs, Ends, InCall, Place
  <2>8. CallOnce'
    BY <1>5, <1>t, <1>h, Kinds DEF TellNobody, Still, Neutral, Report, CallOnce, Runs, Ends, InCall, Place
  <2> QED
    BY <2>1, <2>2, <2>3, <2>4, <2>5, <2>6, <2>7, <2>8 DEF Hands
<1>6. ASSUME NEW th \in Thread, Finish(th) PROVE Hands'
  <2> DEFINE u == cur[th]
  <2>1. /\ \A th2 \in Thread \ {th} : pc'[th2] = pc[th2]
        /\ \A th2 \in Thread : outer'[th2] = outer[th2]
        /\ \A th2 \in Thread, t \in Task : InCall(th2, t)' <=> InCall(th2, t)
    BY <1>6 DEF Finish, Still, InCall
  <2>2. /\ \A th2 \in Thread \ {th}, t \in Task : Runs(th2, t)' <=> Runs(th2, t)
        /\ \A th2 \in Thread \ {th}, t \in Task : Ends(th2, t)' <=> Ends(th2, t)
    BY <1>6, OthersHold DEF Finish
  <2>3. /\ \A t \in Task : ~Runs(th, t)'
        /\ \A t \in Task : Ends(th, t)' => t = u
        /\ pc'[th] = "notify"
    BY <1>6 DEF Finish, Runs, Ends
  <2>4. /\ u \in Task
        /\ \/ u \in Unit /\ Runs(th, u)
           \/ u \in Group /\ Ends(th, u)
    BY <1>6, Kinds DEF Finish, Runs, Ends
  <2>5. ASSUME NEW th2 \in Thread \ {th} PROVE ~Ends(th2, u)
    <3>1. CASE u \in Group /\ Ends(th, u)
      BY <1>h, <2>4, <3>1 DEF EndOnce
    <3>2. CASE u \in Unit /\ Runs(th, u)
      <4>1. ~done[u]
        BY <1>h, <2>4, <3>2 DEF RunGrabbed
      <4>2. Ends(th2, u) => u \in Group
        BY <1>h, <1>t, <2>4, <4>1 DEF EndDone, Ends, Place
      <4> QED
        BY <3>2, <4>2, Kinds
    <3> QED
      BY <2>4, <3>1, <3>2
  <2>6. \A th2 \in Thread : ~InCall(th2, u)
    BY <1>h, <2>4, CallsOfUnits, Kinds DEF RunOrCall
  <2>7. \A th2 \in Thread \ {th} : Runs(th2, u) => u \notin Unit
    BY <1>h, <2>4, Kinds DEF RunOnce
  <2>8. u \in Unit => grabbed[u]
    BY <1>h, <2>4, Kinds DEF RunGrabbed
  <2>9. UNCHANGED grabbed /\ \A t \in Task : done'[t] <=> done[t] \/ t = u
    BY <1>6 DEF Finish
  <2>10. /\ u' = u
    BY <1>6 DEF Finish
  <2> HIDE DEF u
  <2>11. RunGrabbed'
    BY <1>h, <2>2, <2>3, <2>7, <2>9 DEF RunGrabbed
  <2>12. CallGrabbed'
    BY <1>h, <2>1, <2>6, <2>9 DEF CallGrabbed
  <2>13. EndDone'
    BY <1>h, <2>1, <2>2, <2>3, <2>5, <2>9 DEF EndDone
  <2>14. UnitGrabbed'
    BY <1>h, <2>8, <2>9, Kinds DEF UnitGrabbed
  <2>15. RunOnce'
    BY <1>h, <2>2, <2>3 DEF RunOnce
  <2>16. EndOnce'
    BY <1>h, <2>2, <2>3, <2>5 DEF EndOnce
  <2>17. RunOrCall'
    BY <1>h, <2>1, <2>2, <2>3 DEF RunOrCall
  <2>18. CallOnce'
    BY <1>h, <2>1 DEF CallOnce
  <2> QED
    BY <2>11, <2>12, <2>13, <2>14, <2>15, <2>16, <2>17, <2>18 DEF Hands
<1>7. ASSUME NEW th \in Thread, NEW t \in Task, Still(th), outer'[th] = outer[th], ~grabbed[t],
              \A x \in Task : grabbed'[x] <=> grabbed[x] \/ x = t, UNCHANGED done,
              \A x \in Task : ~Ends(th, x),
              cur'[th] = t, pc'[th] \in {"verify", "execute"}
       PROVE  Hands'
  <2>1. /\ \A th2 \in Thread \ {th} : pc'[th2] = pc[th2]
        /\ \A th2 \in Thread : outer'[th2] = outer[th2]
        /\ \A th2 \in Thread, x \in Task : InCall(th2, x)' <=> InCall(th2, x)
    BY <1>7 DEF Still, InCall
  <2>2. /\ \A th2 \in Thread \ {th}, x \in Task : Runs(th2, x)' <=> Runs(th2, x)
        /\ \A th2 \in Thread \ {th}, x \in Task : Ends(th2, x)' <=> Ends(th2, x)
    BY <1>7, OthersHold
  <2>3. \A x \in Task : (Runs(th, x)' => x = t) /\ ~Ends(th, x)'
    BY <1>7 DEF Runs, Ends
  <2>4. \A th2 \in Thread : ~Runs(th2, t) /\ ~InCall(th2, t)
    BY <1>7, <1>h DEF RunGrabbed, CallGrabbed
  <2>5. t \in Unit => ~done[t]
    BY <1>7, <1>h DEF UnitGrabbed
  <2>11. RunGrabbed'
    BY <1>7, <1>h, <2>2, <2>3, <2>5 DEF RunGrabbed
  <2>12. CallGrabbed'
    BY <1>7, <1>h, <2>1 DEF CallGrabbed
  <2>13. EndDone'
    BY <1>7, <1>h, <2>1, <2>2, <2>3 DEF EndDone
  <2>14. UnitGrabbed'
    BY <1>7, <1>h, Kinds DEF UnitGrabbed
  <2>15. RunOnce'
    BY <1>h, <2>2, <2>3, <2>4 DEF RunOnce
  <2>16. EndOnce'
    BY <1>h, <2>2, <2>3 DEF EndOnce
  <2>17. RunOrCall'
    BY <1>h, <2>1, <2>2, <2>3, <2>4 DEF RunOrCall
  <2>18. CallOnce'
    BY <1>h, <2>1 DEF CallOnce
  <2> QED
    BY <2>11, <2>12, <2>13, <2>14, <2>15, <2>16, <2>17, <2>18 DEF Hands
<1>8. ASSUME NEW th \in Thread, NEW t \in Task, Take(th, t) PROVE Hands'
  BY <1>7, <1>8 DEF Take, Plain, Ends, Neutral
<1>9. ASSUME NEW th \in Thread, NEW s \in Sequence, Start(th, s) PROVE Hands'
  <2> DEFINE t == Head(queue[s])
  <2>t. t \in Task
    BY <1>9, <1>t, TailFacts DEF Start, GroupTypes
  <2>a. CASE ~grabbed[t]
    BY <1>7, <1>9, <2>t, <2>a DEF Start, Ends
  <2>b. CASE grabbed[t]
    <3>1. /\ Still(th) /\ UNCHANGED <<outer[th], done>> /\ pc'[th] \in Neutral
          /\ \A x \in Task : grabbed'[x] <=> grabbed[x]
      BY <1>9, <2>b DEF Start
    <3>2. RunGrabbed'
      BY <1>h, <1>t, <3>1, Kinds DEF Still, Neutral, RunGrabbed, Runs, Ends, InCall
    <3>3. CallGrabbed'
      BY <1>h, <1>t, <3>1, Kinds DEF Still, Neutral, CallGrabbed, Runs, Ends, InCall
    <3>4. EndDone'
      BY <1>h, <1>t, <3>1, Kinds DEF Still, Neutral, EndDone, Runs, Ends, InCall
    <3>5. UnitGrabbed'
      BY <1>h, <1>t, <3>1, Kinds DEF Still, Neutral, UnitGrabbed, Runs, Ends, InCall
    <3>6. RunOnce'
      BY <1>h, <1>t, <3>1, Kinds DEF Still, Neutral, RunOnce, Runs, Ends, InCall
    <3>7. EndOnce'
      BY <1>h, <1>t, <3>1, Kinds DEF Still, Neutral, EndOnce, Runs, Ends, InCall
    <3>8. RunOrCall'
      BY <1>h, <1>t, <3>1, Kinds DEF Still, Neutral, RunOrCall, Runs, Ends, InCall
    <3>9. CallOnce'
      BY <1>h, <1>t, <3>1, Kinds DEF Still, Neutral, CallOnce, Runs, Ends, InCall
    <3> QED
      BY <3>2, <3>3, <3>4, <3>5, <3>6, <3>7, <3>8, <3>9 DEF Hands
  <2> QED
    BY <2>a, <2>b
<1>10. ASSUME NEW th \in Thread, NEW g \in Group, Report(th), Parent(cur[th]) = g, cur'[th] = g
       PROVE  Hands'
  <2>1. /\ \A th2 \in Thread \ {th} : pc'[th2] = pc[th2]
        /\ \A th2 \in Thread : outer'[th2] = outer[th2]
        /\ \A th2 \in Thread, x \in Task : InCall(th2, x)' <=> InCall(th2, x)
        /\ UNCHANGED <<grabbed, done>>
    BY <1>10 DEF Report, Still, InCall
  <2>2. /\ \A th2 \in Thread \ {th}, x \in Task : Runs(th2, x)' <=> Runs(th2, x)
        /\ \A th2 \in Thread \ {th}, x \in Task : Ends(th2, x)' <=> Ends(th2, x)
    BY <1>10, OthersHold DEF Report
  <2>3. \A x \in Task : ~Runs(th, x)' /\ (Ends(th, x)' => x = g /\ pc'[th] = "join")
    BY <1>10 DEF Report, Runs, Ends, Neutral
  <2>4. Left(g) # {}
    BY <1>10, ReportUnique, ParentFacts DEF Left
  <2>5. ~done[g] /\ \A th2 \in Thread : ~Ends(th2, g)
    BY <2>4 DEF NothingLeft
  <2>11. RunGrabbed'
    BY <1>h, <2>1, <2>2, <2>3 DEF RunGrabbed
  <2>12. CallGrabbed'
    BY <1>h, <2>1 DEF CallGrabbed
  <2>13. EndDone'
    BY <1>h, <2>1, <2>2, <2>3, <2>5 DEF EndDone
  <2>14. UnitGrabbed'
    BY <1>h, <2>1 DEF UnitGrabbed
  <2>15. RunOnce'
    BY <1>h, <2>2, <2>3 DEF RunOnce
  <2>16. EndOnce'
    BY <1>h, <2>2, <2>3, <2>5 DEF EndOnce
  <2>17. RunOrCall'
    BY <1>h, <2>1, <2>2, <2>3 DEF RunOrCall
  <2>18. CallOnce'
    BY <1>h, <2>1 DEF CallOnce
  <2> QED
    BY <2>11, <2>12, <2>13, <2>14, <2>15, <2>16, <2>17, <2>18 DEF Hands
<1>11. ASSUME NEW th \in Thread, NEW g \in Parallel, TellParallel(th, g) PROVE Hands'
  BY <1>10, <1>11, Kinds DEF TellParallel
<1>12. ASSUME NEW th \in Thread, NEW s \in Sequence, TellSequence(th, s) PROVE Hands'
  BY <1>10, <1>12, Kinds DEF TellSequence
<1>13. ASSUME NEW th \in Thread, Leave(th) PROVE Hands'
  <2> DEFINE u == cur[th]
             n == Len(outer[th])
  <2>1. PICK o \in Suspended : o.task = u /\ outer'[th] = Append(outer[th], o)
    BY <1>13 DEF Leave
  <2>2. /\ n \in Nat /\ DOMAIN outer[th] = 1..n /\ DOMAIN outer'[th] = 1..(n + 1)
        /\ \A i \in 1..n : outer'[th][i] = outer[th][i]
        /\ outer'[th][n + 1] = o
    <3>1. outer[th] \in Seq(Suspended)
      BY <1>t DEF ThreadTypes
    <3> QED
      BY <2>1, <3>1, AppendFacts, LenProperties
  <2>3. u \in Unit /\ u \in Task /\ Runs(th, u)
    BY <1>13, Kinds DEF Leave, Runs
  <2>4. \A x \in Task : InCall(th, x)' => InCall(th, x) \/ x = u
    <3> HIDE DEF n
    <3> QED
      BY <2>1, <2>2 DEF InCall
  <2>5. /\ \A th2 \in Thread \ {th}, x \in Task : Runs(th2, x)' <=> Runs(th2, x)
        /\ \A th2 \in Thread \ {th}, x \in Task : Ends(th2, x)' <=> Ends(th2, x)
        /\ \A th2 \in Thread \ {th}, x \in Task : InCall(th2, x)' <=> InCall(th2, x)
        /\ \A th2 \in Thread \ {th} : outer'[th2] = outer[th2] /\ pc'[th2] = pc[th2]
    BY <1>13, OthersHold DEF Leave, Still
  <2>6. \A x \in Task : ~Runs(th, x)' /\ ~Ends(th, x)'
    BY <1>13 DEF Leave, Runs, Ends, Neutral
  <2>7. UNCHANGED <<grabbed, done>>
    BY <1>13 DEF Leave
  <2>8. grabbed[u] /\ ~done[u] /\ \A th2 \in Thread \ {th} : ~Runs(th2, u)
    BY <1>h, <2>3 DEF RunGrabbed, RunOnce
  <2>9. \A th2 \in Thread : \A i \in DOMAIN outer[th2] : outer[th2][i].task # u
    BY <1>h, <2>3 DEF RunOrCall, InCall
  <2> HIDE DEF u, n
  <2>11. RunGrabbed'
    BY <1>h, <2>5, <2>6, <2>7 DEF RunGrabbed
  <2>12. CallGrabbed'
    BY <1>h, <2>4, <2>5, <2>7, <2>8 DEF CallGrabbed
  <2>13. EndDone'
    BY <1>h, <2>5, <2>6, <2>7 DEF EndDone
  <2>14. UnitGrabbed'
    BY <1>h, <2>7 DEF UnitGrabbed
  <2>15. RunOnce'
    BY <1>h, <2>5, <2>6 DEF RunOnce
  <2>16. EndOnce'
    BY <1>h, <2>5, <2>6 DEF EndOnce
  <2>17. RunOrCall'
    BY <1>h, <2>4, <2>5, <2>6, <2>8 DEF RunOrCall
  <2>18. CallOnce'
    <3> SUFFICES ASSUME NEW th1 \in Thread, NEW th2 \in Thread,
                        NEW i \in DOMAIN outer'[th1], NEW j \in DOMAIN outer'[th2],
                        outer'[th1][i].task = outer'[th2][j].task
                 PROVE  th1 = th2 /\ i = j
      BY DEF CallOnce
    <3>1. \A x \in Thread : \A k \in DOMAIN outer'[x] :
            \/ k \in DOMAIN outer[x] /\ outer'[x][k] = outer[x][k]
            \/ x = th /\ k = n + 1 /\ outer'[x][k].task = u
      BY <2>1, <2>2, <2>5
    <3> QED
      BY <1>h, <2>9, <3>1 DEF CallOnce
  <2> QED
    BY <2>11, <2>12, <2>13, <2>14, <2>15, <2>16, <2>17, <2>18 DEF Hands
<1>14. ASSUME NEW th \in Thread, ComeBack(th) PROVE Hands'
  <2> DEFINE n == Len(outer[th])
             u == outer[th][n].task
  <2>2. /\ n \in Nat \ {0} /\ DOMAIN outer[th] = 1..n /\ DOMAIN outer'[th] = 1..(n - 1)
        /\ \A i \in 1..(n - 1) : outer'[th][i] = outer[th][i]
    <3>1. outer[th] \in Seq(Suspended) /\ outer[th] # <<>>
      BY <1>t, <1>14 DEF ThreadTypes, ComeBack
    <3> QED
      BY <1>14, <3>1, FrontFacts DEF ComeBack
  <2>3. u \in Unit /\ u \in Task /\ InCall(th, u)
    BY <2>2, CallsOfUnits, Kinds DEF InCall
  <2>4. /\ n \in DOMAIN outer[th]
        /\ \A k \in DOMAIN outer'[th] : k \in DOMAIN outer[th] /\ k # n /\ outer'[th][k] = outer[th][k]
    BY <2>2
  <2>5. /\ \A th2 \in Thread \ {th}, x \in Task : Runs(th2, x)' <=> Runs(th2, x)
        /\ \A th2 \in Thread \ {th}, x \in Task : Ends(th2, x)' <=> Ends(th2, x)
        /\ \A th2 \in Thread \ {th}, x \in Task : InCall(th2, x)' <=> InCall(th2, x)
        /\ \A th2 \in Thread \ {th} : outer'[th2] = outer[th2] /\ pc'[th2] = pc[th2]
    BY <1>14, OthersHold DEF ComeBack, Still
  <2>6. \A x \in Task : (Runs(th, x)' => x = u) /\ ~Ends(th, x)'
    BY <1>14 DEF ComeBack, Runs, Ends
  <2>7. UNCHANGED <<grabbed, done>>
    BY <1>14 DEF ComeBack
  <2>8. grabbed[u] /\ ~done[u] /\ \A th2 \in Thread : ~Runs(th2, u)
    BY <1>h, <2>3 DEF CallGrabbed, RunOrCall
  <2> HIDE DEF n
  <2>9. \A x \in Task : InCall(th, x)' => InCall(th, x) /\ x # u
    BY <1>h, <2>4 DEF CallOnce, InCall
  <2>10. \A th2 \in Thread \ {th} : ~InCall(th2, u)
    BY <1>h, <2>4 DEF CallOnce, InCall
  <2> HIDE DEF u
  <2>11. RunGrabbed'
    BY <1>h, <2>5, <2>6, <2>7, <2>8 DEF RunGrabbed
  <2>12. CallGrabbed'
    BY <1>h, <2>5, <2>7, <2>9 DEF CallGrabbed
  <2>13. EndDone'
    BY <1>h, <2>5, <2>6, <2>7 DEF EndDone
  <2>14. UnitGrabbed'
    BY <1>h, <2>7 DEF UnitGrabbed
  <2>15. RunOnce'
    BY <1>h, <2>5, <2>6, <2>8 DEF RunOnce
  <2>16. EndOnce'
    BY <1>h, <2>5, <2>6 DEF EndOnce
  <2>17. RunOrCall'
    BY <1>h, <2>5, <2>6, <2>9, <2>10 DEF RunOrCall
  <2>18. CallOnce'
    BY <1>h, <2>4, <2>5 DEF CallOnce
  <2> QED
    BY <2>11, <2>12, <2>13, <2>14, <2>15, <2>16, <2>17, <2>18 DEF Hands
<1>15. CASE UNCHANGED vars
  BY <1>15, <1>h DEF vars, taskVars, callVars, helpVars, Hands, RunGrabbed, CallGrabbed, EndDone, UnitGrabbed,
     RunOnce, EndOnce, RunOrCall, CallOnce, Runs, Ends, InCall
<1> QED
  BY StepKinds, <1>1, <1>2, <1>3, <1>4, <1>5, <1>6, <1>7, <1>8, <1>9, <1>10, <1>11, <1>12, <1>13, <1>14, <1>15 DEF Form

-----------------------------------------------------------------------------
(* The counts of what is left of the groups.                                 *)

\* A sequence of which a thread has taken the first task, or is past doing so.
Began(s) == grabbed[s] /\ \A th \in Thread : ~(cur[th] = s /\ pc[th] \in {"verify", "execute"})

\* What is queued in a sequence is what is left of it but the task it is at.
SequenceCounts ==
  \A s \in Sequence :
    IF Left(s) = {} THEN queue[s] = <<>>
    ELSE Len(queue[s]) + (IF Began(s) THEN 1 ELSE 0) = Cardinality(Left(s))

Counts == CountsUnreported /\ NothingLeft /\ SequenceCounts

LEMMA LeftFinite ==
  ASSUME NEW g \in Group
  PROVE  /\ IsFiniteSet(Left(g)) /\ Cardinality(Left(g)) \in Nat
         /\ Cardinality(Left(g)) = 0 <=> Left(g) = {}
         /\ Left(g) \subseteq Members(g) /\ Left(g) \subseteq Task
<1>1. Left(g) \subseteq Members(g)
  BY DEF Left
<1>2. IsFiniteSet(Left(g))
  BY <1>1, GroupFacts, FS_Subset
<1> QED
  BY <1>1, <1>2, GroupFacts, FS_CardinalityType, FS_EmptySet

\* Nobody has reported at the start.
LEMMA CountsInit == Init => Counts
<1> SUFFICES ASSUME Init PROVE Counts
  OBVIOUS
<1>1. ASSUME NEW g \in Group PROVE Left(g) = Members(g)
  BY <1>1, GroupFacts DEF Init, Left, Unreported
<1>2. CountsUnreported
  BY <1>1, GroupFacts, Kinds DEF CountsUnreported, Left, Init
<1>3. NothingLeft
  BY Kinds DEF NothingLeft, Init, Ends
<1>4. \A s \in Sequence : ~Began(s) /\ queue[s] = members[s]
  BY Kinds DEF Began, Init
<1>5. SequenceCounts
  <2> SUFFICES ASSUME NEW s \in Sequence
               PROVE  Left(s) # {} /\ Len(queue[s]) + 0 = Cardinality(Left(s))
    BY <1>4 DEF SequenceCounts
  <2> QED
    BY <1>1, <1>4, GroupFacts, Kinds
<1> QED
  BY <1>2, <1>3, <1>5 DEF Counts

\* A step that reports nothing leaves the groups what is left of them.
LEMMA NothingReported ==
  ASSUME Types, Hands, NEW th \in Thread,
         \/ Wander(th) \/ Keep(th) \/ Drop(th) \/ Finish(th) \/ Tell(th) \/ Leave(th) \/ ComeBack(th)
         \/ \E t \in Task : Take(th, t)
         \/ \E s \in Sequence : Start(th, s)
  PROVE  /\ \A t \in Task : Unreported(t)' <=> Unreported(t)
         /\ \A g \in Group : Left(g)' = Left(g)
         /\ \A g \in Group : (done[g] \/ \E th2 \in Thread : Ends(th2, g))'
                              => done[g] \/ \E th2 \in Thread : Ends(th2, g)
         /\ UNCHANGED activeCount
<1> DEFINE Same ==
      /\ \A t \in Task : Unreported(t)' <=> Unreported(t)
      /\ \A g \in Group : (done[g] \/ \E th2 \in Thread : Ends(th2, g))'
                           => done[g] \/ \E th2 \in Thread : Ends(th2, g)
<1>1. ASSUME Still(th), UNCHANGED done, pc[th] \notin {"notify", "report", "join"},
             pc'[th] \notin {"notify", "report", "join"}
      PROVE  Same
  BY <1>1, Kinds DEF Still, Unreported, Ends
<1>2. ASSUME \/ Wander(th) \/ Keep(th) \/ Drop(th) \/ Leave(th) \/ ComeBack(th)
             \/ \E t \in Task : Take(th, t)
             \/ \E s \in Sequence : Start(th, s)
      PROVE  Same
  <2>1. Still(th) /\ UNCHANGED done /\ pc[th] \notin {"notify", "report", "join"}
          /\ pc'[th] \notin {"notify", "report", "join"}
    BY <1>2 DEF Wander, Keep, Drop, Leave, ComeBack, Take, Start, Plain, Neutral
  <2> HIDE DEF Same
  <2> QED
    BY <1>1, <2>1
<1>3. ASSUME Tell(th) PROVE Same
  <2>1. ASSUME NEW t \in Task PROVE Unreported(t)' <=> Unreported(t)
    BY <1>3 DEF Tell, Plain, Still, Unreported
  <2>2. ASSUME NEW th2 \in Thread, NEW g \in Group PROVE Ends(th2, g)' <=> Ends(th2, g)
    BY <1>3 DEF Tell, Plain, Still, Ends
  <2>3. UNCHANGED done
    BY <1>3 DEF Tell, Plain
  <2> QED
    BY <2>1, <2>2, <2>3
<1>4. ASSUME Finish(th) PROVE Same
  <2> DEFINE u == cur[th]
  <2>1. u \in Task /\ ~done[u]
    <3>1. CASE u \in Unit
      BY <1>4, <3>1, Kinds DEF Finish, Hands, RunGrabbed, Runs
    <3>2. CASE u \in Group
      BY <1>4, <3>2, Kinds DEF Finish, Hands, EndDone, Ends
    <3> QED
      BY <1>4, <3>1, <3>2, Kinds DEF Finish
  <2>2. ASSUME NEW t \in Task, t = u PROVE Unreported(t) /\ Unreported(t)'
    BY <1>4, <2>1, <2>2 DEF Finish, Unreported
  <2>3. ASSUME NEW t \in Task, t # u PROVE Unreported(t)' <=> Unreported(t)
    BY <1>4, <2>3 DEF Finish, Still, Unreported
  <2>4. ASSUME NEW g \in Group, (done[g] \/ \E th2 \in Thread : Ends(th2, g))'
        PROVE  done[g] \/ \E th2 \in Thread : Ends(th2, g)
    <3>1. CASE g = u
      BY <1>4, <3>1, Kinds DEF Finish, Ends
    <3>2. CASE g # u
      BY <1>4, <2>4, <3>2, Kinds DEF Finish, Still, Ends
    <3> QED
      BY <3>1, <3>2
  <2>5. \A t \in Task : Unreported(t)' <=> Unreported(t)
    <3> HIDE DEF u
    <3> QED
      BY <2>2, <2>3
  <2>6. \A g \in Group : (done[g] \/ \E th2 \in Thread : Ends(th2, g))'
                        => done[g] \/ \E th2 \in Thread : Ends(th2, g)
    BY <2>4
  <2> QED
    BY <2>5, <2>6
<1>5. Same
  BY <1>2, <1>3, <1>4
<1>6. \A g \in Group : Left(g)' = Left(g)
  <2>1. \A g \in Group : Members(g)' = Members(g)
    BY DEF Members
  <2> QED
    BY <1>5, <2>1, GroupFacts DEF Left
<1>7. UNCHANGED activeCount
  BY DEF Wander, Keep, Drop, Finish, Tell, Leave, ComeBack, Take, Start, Plain
<1> QED
  BY <1>5, <1>6, <1>7

\* A report takes one task from what is left of one group.
LEMMA OneReported ==
  ASSUME Types, Hands, NEW th \in Thread, Report(th)
  PROVE  \A g \in Group :
           IF Parent(cur[th]) = g
           THEN /\ Left(g) # {} /\ IsFiniteSet(Left(g)')
                /\ Cardinality(Left(g)') = Cardinality(Left(g)) - 1
                /\ Left(g)' \subseteq Left(g)
           ELSE Left(g)' = Left(g)
<1> SUFFICES ASSUME NEW g \in Group
             PROVE  IF Parent(cur[th]) = g
                    THEN /\ Left(g) # {} /\ IsFiniteSet(Left(g)')
                         /\ Cardinality(Left(g)') = Cardinality(Left(g)) - 1
                         /\ Left(g)' \subseteq Left(g)
                    ELSE Left(g)' = Left(g)
  OBVIOUS
<1>1. /\ cur[th] \in Task /\ Unreported(cur[th])
      /\ \A t \in Task : Unreported(t)' <=> Unreported(t) /\ t # cur[th]
  BY ReportUnique
<1>2. Members(g)' = Members(g) /\ Members(g) \subseteq Task
  BY GroupFacts DEF Members
<1>3. Left(g)' = Left(g) \ {cur[th]}
  BY <1>1, <1>2 DEF Left
<1>4. cur[th] \in Left(g) <=> Parent(cur[th]) = g
  BY <1>1, ParentFacts DEF Left
<1> QED
  BY <1>3, <1>4, LeftFinite, FS_RemoveElement

LEMMA CountsStep ==
  ASSUME Types, Hands, Counts, [Next]_vars
  PROVE  Counts'
<1>t. TaskTypes /\ GroupTypes /\ ThreadTypes /\ \A th \in Thread : Place(th)
  BY DEF Types
<1>c. CountsUnreported /\ NothingLeft /\ SequenceCounts
  BY DEF Counts
<1>l. \A g \in Group : Cardinality(Left(g)) \in Nat /\ (Cardinality(Left(g)) = 0 <=> Left(g) = {})
  BY LeftFinite
<1>k. \A g \in Parallel : activeCount[g] = Cardinality(Left(g))
  BY <1>c DEF CountsUnreported, Left
\* Where nothing is reported, only the queues are to be looked at.
<1>1. ASSUME \A g \in Group : Left(g)' = Left(g),
             \A g \in Group : (done[g] \/ \E th2 \in Thread : Ends(th2, g))'
                              => done[g] \/ \E th2 \in Thread : Ends(th2, g),
             UNCHANGED activeCount,
             SequenceCounts'
      PROVE  Counts'
  <2>1. CountsUnreported'
    <3>1. \A g \in Parallel : activeCount'[g] = Cardinality(Left(g)')
      BY <1>1, <1>k, Kinds
    <3> QED
      BY <3>1 DEF CountsUnreported, Left
  <2>2. NothingLeft'
    BY <1>1, <1>c DEF NothingLeft
  <2> QED
    BY <1>1, <2>1, <2>2 DEF Counts
<1>2. ASSUME \A g \in Group : Left(g)' = Left(g), UNCHANGED queue,
             \A s \in Sequence : Left(s) = {} \/ (Began(s)' <=> Began(s))
      PROVE  SequenceCounts'
  BY <1>2, <1>c, Kinds DEF SequenceCounts
\* A sequence that is not begun and not queued has nothing left.
<1>3. ASSUME NEW s \in Sequence, queue[s] = <<>>, ~Began(s) PROVE Left(s) = {}
  <2> SUFFICES ASSUME Left(s) # {} PROVE FALSE
    OBVIOUS
  <2>1. Len(queue[s]) = 0
    BY <1>3
  <2>2. Len(queue[s]) + 0 = Cardinality(Left(s))
    BY <1>3, <1>c DEF SequenceCounts
  <2> QED
    BY <1>l, <2>1, <2>2, Kinds
<1>4. ASSUME NEW th \in Thread, Wander(th) PROVE Counts'
  <2>1. \A s \in Sequence : Left(s) = {} \/ (Began(s)' <=> Began(s))
    <3> SUFFICES ASSUME NEW s \in Sequence, ~done[s] PROVE Began(s)' <=> Began(s)
      BY <1>c, Kinds DEF NothingLeft
    <3>1. grabbed'[s] <=> grabbed[s]
      BY <1>4, Kinds DEF Wander
    <3> QED
      BY <1>4, <3>1 DEF Wander, Plain, Still, Neutral, Began
  <2> QED
    BY <1>1, <1>2, <1>4, <2>1, NothingReported DEF Wander, Plain
<1>5. ASSUME NEW th \in Thread, Drop(th) PROVE Counts'
  <2>1. \A s \in Sequence : Left(s) = {} \/ (Began(s)' <=> Began(s))
    <3> SUFFICES ASSUME NEW s \in Sequence PROVE Left(s) = {} \/ (Began(s)' <=> Began(s))
      OBVIOUS
    <3>1. CASE cur[th] = s
      <4>1. done[s] \/ queue[s] = <<>>
        BY <1>5, <3>1 DEF Drop
      <4>2. ~Began(s)
        BY <1>5, <3>1 DEF Drop, Began
      <4> QED
        BY <1>3, <1>c, <4>1, <4>2, Kinds DEF NothingLeft
    <3>2. CASE cur[th] # s
      BY <1>5, <3>2 DEF Drop, Plain, Still, Neutral, Began
    <3> QED
      BY <3>1, <3>2
  <2> QED
    BY <1>1, <1>2, <1>5, <2>1, NothingReported DEF Drop, Plain
<1>6. ASSUME NEW th \in Thread, Keep(th) \/ Finish(th) \/ Tell(th) \/ Leave(th) \/ ComeBack(th)
      PROVE  Counts'
  <2>1. \A s \in Sequence : Began(s)' <=> Began(s)
    <3> SUFFICES ASSUME NEW s \in Sequence PROVE Began(s)' <=> Began(s)
      OBVIOUS
    <3>1. UNCHANGED grabbed /\ Still(th)
      BY <1>6 DEF Keep, Finish, Tell, Leave, ComeBack, Plain
    <3>2. (cur[th] = s /\ pc[th] \in {"verify", "execute"})'
             <=> cur[th] = s /\ pc[th] \in {"verify", "execute"}
      BY <1>6, Kinds DEF Keep, Finish, Tell, Leave, ComeBack, Neutral
    <3> QED
      BY <3>1, <3>2 DEF Began, Still
  <2>2. UNCHANGED queue
    BY <1>6 DEF Keep, Finish, Tell, Leave, ComeBack, Plain
  <2> QED
    BY <1>1, <1>2, <1>6, <2>1, <2>2, NothingReported
<1>7. ASSUME NEW th \in Thread, NEW t \in Task, Take(th, t) PROVE Counts'
  <2>1. \A s \in Sequence : Began(s)' <=> Began(s)
    <3> SUFFICES ASSUME NEW s \in Sequence PROVE Began(s)' <=> Began(s)
      OBVIOUS
    <3>1. CASE s = t
      BY <1>7, <3>1 DEF Take, Began
    <3>2. CASE s # t
      <4>1. grabbed'[s] <=> grabbed[s]
        BY <1>7, <3>2, Kinds DEF Take
      <4> QED
        BY <1>7, <3>2, <4>1 DEF Take, Plain, Still, Neutral, Began
    <3> QED
      BY <3>1, <3>2
  <2> QED
    BY <1>1, <1>2, <1>7, <2>1, NothingReported DEF Take, Plain
<1>8. ASSUME NEW th \in Thread, NEW s \in Sequence, Start(th, s) PROVE Counts'
  <2> DEFINE q == queue[s]
             t == Head(q)
  <2>1. /\ q \in Seq(Task) /\ q # <<>> /\ Len(q) \in Nat /\ Len(Tail(q)) = Len(q) - 1
        /\ t \in Task
    BY <1>8, <1>t, TailFacts DEF Start, GroupTypes
  <2>2. s \in Task /\ grabbed[s]
    BY <1>8, Kinds DEF Start, Hands, RunGrabbed, Runs
  <2>3. \A th2 \in Thread \ {th} : ~(cur[th2] = s /\ pc[th2] \in {"verify", "execute"})
    BY <1>8, <2>2 DEF Start, Hands, RunOnce, Runs
  <2>4. ~Began(s) /\ Began(s)'
    <3>1. ~Began(s)
      BY <1>8 DEF Start, Began
    <3>2. grabbed'[s]
      BY <1>8, <2>2 DEF Start
    <3>3. ~(cur'[th] = s /\ pc'[th] \in {"verify", "execute"})
      BY <1>8, <2>2 DEF Start, Neutral
    <3>4. \A th2 \in Thread \ {th} : cur'[th2] = cur[th2] /\ pc'[th2] = pc[th2]
      BY <1>8 DEF Start, Still
    <3> QED
      BY <2>3, <3>1, <3>2, <3>3, <3>4 DEF Began
  <2>5. \A s2 \in Sequence \ {s} : Began(s2)' <=> Began(s2)
    <3> SUFFICES ASSUME NEW s2 \in Sequence \ {s} PROVE Began(s2)' <=> Began(s2)
      OBVIOUS
    <3>1. CASE s2 = t /\ ~grabbed[t]
      <4>1. ~Began(s2)
        BY <3>1 DEF Began
      <4>2. ~Began(s2)'
        BY <1>8, <3>1 DEF Start, Began
      <4> QED
        BY <4>1, <4>2
    <3>2. CASE s2 # t \/ grabbed[t]
      <4>1. grabbed'[s2] <=> grabbed[s2]
        BY <1>8, <3>2, Kinds DEF Start
      <4>2. /\ ~(cur[th] = s2 /\ pc[th] \in {"verify", "execute"})
            /\ ~(cur'[th] = s2 /\ pc'[th] \in {"verify", "execute"})
        BY <1>8, <3>2 DEF Start, Neutral
      <4>3. \A th2 \in Thread \ {th} : cur'[th2] = cur[th2] /\ pc'[th2] = pc[th2]
        BY <1>8 DEF Start, Still
      <4> QED
        BY <4>1, <4>2, <4>3 DEF Began
    <3> QED
      BY <3>1, <3>2
  <2>6. \A g \in Group : Left(g)' = Left(g)
    BY <1>8, NothingReported
  <2>7. Left(s) # {}
    BY <1>c, <2>1 DEF SequenceCounts
  <2>8. Len(q) = Cardinality(Left(s))
    <3>1. Len(q) + 0 = Cardinality(Left(s))
      BY <1>c, <2>4, <2>7 DEF SequenceCounts
    <3> QED
      BY <2>1, <3>1
  <2>9. Left(s)' # {} /\ Len(queue'[s]) + 1 = Cardinality(Left(s)')
    <3>1. queue'[s] = Tail(q)
      BY <1>8 DEF Start
    <3> QED
      BY <2>1, <2>6, <2>7, <2>8, <3>1, Kinds
  <2>10. \A s2 \in Sequence \ {s} : queue'[s2] = queue[s2]
    BY <1>8 DEF Start
  <2>11. SequenceCounts'
    BY <1>c, <2>4, <2>5, <2>6, <2>9, <2>10, Kinds DEF SequenceCounts
  <2> QED
    BY <1>1, <1>8, <2>11, NothingReported
\* A report.
<1>9. ASSUME NEW th \in Thread, Report(th)
      PROVE  /\ \A s \in Sequence : Began(s)' <=> Began(s)
             /\ \A g \in Group : done'[g] <=> done[g]
             /\ \A g \in Group : (\E th2 \in Thread : Ends(th2, g))' =>
                   (\E th2 \in Thread : Ends(th2, g)) \/ (cur'[th] = g /\ pc'[th] = "join")
  BY <1>9 DEF Report, Still, Neutral, Began, Ends
<1>10. ASSUME NEW th \in Thread, TellNobody(th) PROVE Counts'
  <2>1. \A g \in Group : Left(g)' = Left(g)
    BY <1>10, OneReported, ParentFacts DEF TellNobody
  <2>2. SequenceCounts'
    BY <1>2, <1>9, <1>10, <2>1 DEF TellNobody
  <2> QED
    BY <1>1, <1>9, <1>10, <2>1, <2>2 DEF TellNobody, Neutral
<1>11. ASSUME NEW th \in Thread, NEW g \in Parallel, TellParallel(th, g) PROVE Counts'
  <2>1. /\ Report(th) /\ g \in Group
        /\ \A x \in Group \ {g} : Left(x)' = Left(x)
        /\ Left(g) # {} /\ IsFiniteSet(Left(g)')
        /\ Cardinality(Left(g)') = Cardinality(Left(g)) - 1 /\ Left(g)' \subseteq Left(g)
    BY <1>11, OneReported, Kinds DEF TellParallel
  <2>2. CountsUnreported'
    <3>1. \A x \in Parallel : activeCount'[x] = Cardinality(Left(x)')
      BY <1>11, <1>k, <2>1, Kinds DEF TellParallel
    <3> QED
      BY <3>1 DEF CountsUnreported, Left
  <2>3. NothingLeft'
    <3> SUFFICES ASSUME NEW x \in Group, (done[x] \/ \E th2 \in Thread : Ends(th2, x))'
                 PROVE  Left(x)' = {}
      BY DEF NothingLeft
    <3>1. CASE done[x] \/ \E th2 \in Thread : Ends(th2, x)
      BY <1>c, <2>1, <3>1 DEF NothingLeft
    <3>2. CASE cur'[th] = x /\ pc'[th] = "join"
      <4>1. x = g /\ activeCount[g] = 1
        BY <1>11, <3>2 DEF TellParallel, Neutral
      <4>2. Cardinality(Left(g)') = 0
        BY <1>k, <2>1, <4>1
      <4> QED
        BY <2>1, <4>1, <4>2, FS_EmptySet
    <3> QED
      BY <1>9, <2>1, <3>1, <3>2
  <2>4. SequenceCounts'
    <3>1. \A s \in Sequence : Left(s)' = Left(s) /\ (Began(s)' <=> Began(s))
      BY <1>9, <2>1, Kinds
    <3>2. UNCHANGED queue
      BY <1>11 DEF TellParallel
    <3> QED
      BY <1>c, <3>1, <3>2 DEF SequenceCounts
  <2> QED
    BY <2>2, <2>3, <2>4 DEF Counts
<1>12. ASSUME NEW th \in Thread, NEW s \in Sequence, TellSequence(th, s) PROVE Counts'
  <2> DEFINE q == queue[s]
  <2>1. /\ Report(th) /\ s \in Group
        /\ \A x \in Group \ {s} : Left(x)' = Left(x)
        /\ Left(s) # {} /\ IsFiniteSet(Left(s)')
        /\ Cardinality(Left(s)') = Cardinality(Left(s)) - 1 /\ Left(s)' \subseteq Left(s)
    BY <1>12, OneReported, Kinds DEF TellSequence
  <2>2. CountsUnreported'
    <3>1. \A x \in Parallel : activeCount'[x] = Cardinality(Left(x)')
      BY <1>12, <1>k, <2>1, Kinds DEF TellSequence
    <3> QED
      BY <3>1 DEF CountsUnreported, Left
  <2>3. q \in Seq(Task) /\ Len(q) \in Nat /\ (q # <<>> => Len(q) > 0 /\ Tail(q) \in Seq(Task) /\ Len(Tail(q)) = Len(q) - 1)
    BY <1>t, TailFacts, LenProperties DEF GroupTypes
  <2> DEFINE b == IF Began(s) THEN 1 ELSE 0
  <2>4. Len(q) + b = Cardinality(Left(s)) /\ Cardinality(Left(s)) \in Nat /\ b \in {0, 1}
    BY <1>c, <1>l, <2>1 DEF SequenceCounts
  <2>5. ASSUME q = <<>> PROVE Left(s)' = {}
    <3>1. Len(q) = 0
      BY <2>5
    <3>2. Cardinality(Left(s)') = 0 \/ Cardinality(Left(s)') = 0 - 1
      BY <2>1, <2>4, <3>1
    <3>3. Cardinality(Left(s)') \in Nat
      BY <2>1, FS_CardinalityType
    <3> QED
      BY <2>1, <3>2, <3>3, FS_EmptySet
  <2>6. NothingLeft'
    <3> SUFFICES ASSUME NEW x \in Group, (done[x] \/ \E th2 \in Thread : Ends(th2, x))'
                 PROVE  Left(x)' = {}
      BY DEF NothingLeft
    <3>1. CASE done[x] \/ \E th2 \in Thread : Ends(th2, x)
      BY <1>c, <2>1, <3>1 DEF NothingLeft
    <3>2. CASE cur'[th] = x /\ pc'[th] = "join"
      BY <1>12, <2>5, <3>2 DEF TellSequence, Neutral
    <3> QED
      BY <1>9, <2>1, <3>1, <3>2
  <2>7. SequenceCounts'
    <3>1. IF Left(s)' = {} THEN queue'[s] = <<>>
          ELSE Len(queue'[s]) + (IF Began(s)' THEN 1 ELSE 0) = Cardinality(Left(s)')
      <4>1. CASE q = <<>>
        BY <1>12, <2>5, <4>1 DEF TellSequence
      <4>2. CASE q # <<>>
        <5>1. queue'[s] = Tail(q) /\ (IF Began(s)' THEN 1 ELSE 0) = b
          BY <1>12, <1>9, <2>1, <4>2 DEF TellSequence
        <5>2. Len(Tail(q)) + b = Cardinality(Left(s)')
          <6> HIDE DEF q, b
          <6> QED
            BY <2>1, <2>3, <2>4, <4>2
        <5> DEFINE n == Len(Tail(q))
        <5>3. Left(s)' = {} => n = 0
          <6>1. Left(s)' = {} => Cardinality(Left(s)') = 0
            BY FS_EmptySet
          <6>2. n \in Nat
            BY <2>3, <4>2
          <6>3. n + b = Cardinality(Left(s)') /\ b \in {0, 1}
            BY <2>4, <5>2
          <6> HIDE DEF q, b, n
          <6> QED
            BY <6>1, <6>2, <6>3
        <5>4. Left(s)' = {} => Tail(q) = <<>>
          BY <2>3, <4>2, <5>3, EmptySeq
        <5> QED
          BY <5>1, <5>2, <5>4
      <4> QED
        BY <4>1, <4>2
    <3>2. ASSUME NEW x \in Sequence, x # s
          PROVE  IF Left(x)' = {} THEN queue'[x] = <<>>
                 ELSE Len(queue'[x]) + (IF Began(x)' THEN 1 ELSE 0) = Cardinality(Left(x)')
      <4>1. Left(x)' = Left(x) /\ (Began(x)' <=> Began(x)) /\ queue'[x] = queue[x]
        BY <1>9, <1>12, <2>1, <3>2, Kinds DEF TellSequence
      <4> QED
        BY <1>c, <4>1 DEF SequenceCounts
    <3> QED
      BY <3>1, <3>2 DEF SequenceCounts
  <2> QED
    BY <2>2, <2>6, <2>7 DEF Counts
<1>13. CASE UNCHANGED vars
  <2>1. \A g : Left(g)' = Left(g) /\ (Began(g)' <=> Began(g))
    BY <1>13 DEF vars, taskVars, callVars, Left, Unreported, Members, Began
  <2>2. SequenceCounts'
    BY <1>2, <1>13, <2>1 DEF vars, groupVars
  <2> QED
    BY <1>1, <1>13, <2>1, <2>2 DEF vars, groupVars, taskVars, callVars, Ends
<1> QED
  BY StepKinds, <1>4, <1>5, <1>6, <1>7, <1>8, <1>10, <1>11, <1>12, <1>13 DEF Form

-----------------------------------------------------------------------------
(* Together. *)

Work == Types /\ Hands /\ Counts

LEMMA WorkAlways == Spec => []Work
<1>1. Init => Work
  BY TypesInit, HandsInit, CountsInit DEF Work
<1>2. Work /\ [Next]_vars => Work'
  BY TypesStep, HandsStep, CountsStep DEF Work, Counts
<1> QED
  BY <1>1, <1>2, PTL DEF Spec

\* The counter of a parallel group counts the tasks the group has not heard of.
THEOREM CountsHold == Spec => []CountsUnreported
<1>1. Work => CountsUnreported
  BY DEF Work, Counts
<1> QED
  BY WorkAlways, <1>1, PTL

\* Every variable keeps its type: the counters do not go below zero.
THEOREM TypesHold == Spec => []TypeOK
<1>1. Work => TypeOK
  <2> SUFFICES ASSUME Work PROVE TypeOK
    OBVIOUS
  <2>t. TaskTypes /\ HookTypes /\ GroupTypes /\ ThreadTypes
    BY DEF Work, Types
  <2>1. activeCount \in [Parallel -> Nat]
    <3>1. \A g \in Parallel : activeCount[g] = Cardinality(Left(g))
      BY DEF Work, Counts, CountsUnreported, Left
    <3>2. \A g \in Parallel : activeCount[g] \in Nat
      BY <3>1, LeftFinite, Kinds
    <3> QED
      BY <2>t, <3>2 DEF GroupTypes
  <2>2. outer \in [Thread -> Seq([task : Unit, frames : Seq(Task),
                                  helping : Task \cup {NoTask}, helpAt : Nat])]
    <3> DEFINE Wide == [task : Unit, frames : Seq(Task), helping : Task \cup {NoTask}, helpAt : Nat]
    <3>1. Suspended \subseteq Wide
      BY Kinds DEF Suspended
    <3>2. \A th \in Thread : outer[th] \in Seq(Wide)
      <4> SUFFICES ASSUME NEW th \in Thread PROVE outer[th] \in Seq(Wide)
        OBVIOUS
      <4>1. outer[th] \in Seq(Suspended)
        BY <2>t DEF ThreadTypes
      <4> HIDE DEF Wide
      <4> QED
        BY <3>1, <4>1
    <3> QED
      BY <2>t, <3>2 DEF ThreadTypes
  <2>3. /\ nextIndex \in [Parallel -> Nat] /\ queue \in [Sequence -> Seq(Task)]
        /\ helping \in [Thread -> Task \cup {NoTask}] /\ helpAt \in [Thread -> Nat]
    BY <2>t, Kinds DEF GroupTypes, ThreadTypes
  <2> QED
    BY <2>t, <2>1, <2>2, <2>3 DEF TypeOK, TaskTypes, HookTypes, ThreadTypes
<1> QED
  BY WorkAlways, <1>1, PTL

-----------------------------------------------------------------------------
(* Who hands a task out.                                                      *)

\* Somebody has had the task in hand, or it is on its way through the scheduler.
Touched(t) == grabbed[t] \/ done[t] \/ pending[t] > 0 \/ \E th \in Thread : adding[th] = t

\* A thread hands t out: a client, a function that calls it, a thread at the group it is
\* in, the one that completes it, or the one that takes it from the queue of a sequence.
HandsOut(th, t) ==
  \/ t \in Root \cup ActivelyWaited
  \/ pc[th] = "execute" /\ cur[th] \in Unit /\ Calls[cur[th]] = t
  \/ \E g \in Parallel :
       /\ t \in Members(g)
       /\ \/ pc[th] \in {"spawning", "scheduling"} /\ cur[th] = g /\ t = members[g][at[th] + 1]
          \/ pc[th] = "first" /\ cur[th] = g /\ t = members[g][1]
          \/ pc[th] = "help" /\ helping[th] = g
  \/ pc[th] = "join" /\ cur[th] = t
  \/ \E s \in Sequence : /\ queue[s] # <<>> /\ t = Head(queue[s])
                         /\ Start(th, s) \/ TellSequence(th, s)

\* In the queues of the scheduler, or out of them again.
Queued(t) == grabbed[t] \/ done[t] \/ pending[t] > 0

\* What a thread hands out it queues, grabs, completes, or goes into scheduler::add with,
\* and what it comes out with is queued; only with what it has fetched does it look at a
\* task in spawning and scheduling.
Hand(th) ==
  /\ \A th2 \in Thread \ {th} : UNCHANGED <<adding[th2], pc[th2], cur[th2], at[th2]>>
  /\ \A t \in Task :
       /\ Queued(t) => Queued(t)'
       /\ Queued(t)' => Queued(t) \/ (adding'[th] # t /\ (adding[th] = t \/ HandsOut(th, t)))
       /\ adding[th] = t => adding'[th] = t \/ Queued(t)'
       /\ adding'[th] = t =>
            adding[th] = t \/ (HandsOut(th, t) /\ pc[th] \notin {"first", "help", "join"})
  /\ \/ \E label \in {"spawning", "scheduling", "first", "return"} : Fetched(th, label)
     \/ /\ UNCHANGED nextIndex
        /\ pc'[th] \in {"spawning", "scheduling"} =>
             /\ UNCHANGED <<pc[th], cur[th], at[th]>>
             /\ \A t \in Task : Queued(t)' => Queued(t) \/ adding[th] = t
             /\ \A t \in Task : adding'[th] = t => adding[th] = t

LEMMA HandKinds ==
  ASSUME Types, Hands, [Next]_vars
  PROVE  (\E th \in Thread : Acts(th) /\ Hand(th)) \/ UNCHANGED vars
<1>t. TaskTypes /\ GroupTypes /\ ThreadTypes /\ \A th \in Thread : Place(th)
  BY DEF Types
<1> USE DEF At, Goto, On, Add, EnterParent, taskVars, groupVars, addVars, callVars, helpVars
\* Most steps hand nothing out,
<1>q. ASSUME NEW th \in Thread, UNCHANGED <<grabbed, done, pending, adding, nextIndex>>,
             \A th2 \in Thread \ {th} : UNCHANGED <<pc[th2], cur[th2], at[th2]>>,
             pc'[th] \in {"spawning", "scheduling"} => UNCHANGED <<pc[th], cur[th], at[th]>>
      PROVE  Hand(th)
  BY <1>q DEF Hand, Queued
\* others one task to themselves.
<1>g. ASSUME NEW th \in Thread, NEW x \in Task, UNCHANGED <<done, pending, adding, nextIndex>>,
             grabbed' = [grabbed EXCEPT ![x] = TRUE], adding[th] = NoTask, HandsOut(th, x) \/ Queued(x),
             pc'[th] \notin {"spawning", "scheduling"},
             \A th2 \in Thread \ {th} : UNCHANGED <<pc[th2], cur[th2], at[th2]>>
      PROVE  Hand(th)
  BY <1>g, <1>t, Kinds DEF Hand, Queued, TaskTypes
<1>d. ASSUME NEW th \in Thread, NEW x \in Task, UNCHANGED <<grabbed, pending, adding, nextIndex>>,
             done' = [done EXCEPT ![x] = TRUE], adding[th] = NoTask, HandsOut(th, x) \/ Queued(x),
             pc'[th] \notin {"spawning", "scheduling"},
             \A th2 \in Thread \ {th} : UNCHANGED <<pc[th2], cur[th2], at[th2]>>
      PROVE  Hand(th)
  BY <1>d, <1>t, Kinds DEF Hand, Queued, TaskTypes
<1>1. ASSUME NEW th \in Thread, Verify(th) PROVE Hand(th)
  BY <1>1, <1>q, <1>t DEF Verify, ThreadTypes
<1>2. ASSUME NEW th \in Thread, AskParent(th) PROVE Hand(th)
  BY <1>2, <1>q, <1>t DEF AskParent, ThreadTypes
<1>3. ASSUME NEW th \in Thread, ExecuteParallel(th) PROVE Hand(th)
  BY <1>3, <1>q, <1>t DEF ExecuteParallel, ThreadTypes
<1>4. ASSUME NEW th \in Thread, NotifyTask(th) PROVE Hand(th)
  BY <1>4, <1>q, <1>t DEF NotifyTask, ThreadTypes
<1>5. ASSUME NEW th \in Thread, ReportToNobody(th) PROVE Hand(th)
  BY <1>5, <1>q, <1>t DEF ReportToNobody, ThreadTypes
<1>6. ASSUME NEW th \in Thread, ReportToParallel(th) PROVE Hand(th)
  BY <1>6, <1>q, <1>t DEF ReportToParallel, ThreadTypes
<1>7. ASSUME NEW th \in Thread, ResetParent(th) PROVE Hand(th)
  BY <1>7, <1>q, <1>t DEF ResetParent, ThreadTypes
<1>8. ASSUME NEW th \in Thread, Return(th) PROVE Hand(th)
  BY <1>8, <1>q, <1>t DEF Return, ThreadTypes
<1>9. ASSUME NEW th \in Thread, HelpEnds(th) PROVE Hand(th)
  BY <1>9, <1>q, <1>t DEF HelpEnds, ThreadTypes
<1>10. ASSUME NEW th \in Thread, WaitReturns(th) PROVE Hand(th)
  BY <1>10, <1>q, <1>t DEF WaitReturns, ThreadTypes
<1>11. ASSUME NEW th \in Thread, CallReturns(th) PROVE Hand(th)
  BY <1>11, <1>q, <1>t DEF CallReturns, ThreadTypes
<1>12. ASSUME NEW th \in Thread, NEW t \in Task, Wait(th, t) PROVE Hand(th)
  BY <1>12, <1>q, <1>t DEF Wait, ThreadTypes
<1>13. ASSUME NEW th \in Thread, NEW g \in Parallel, ActiveWaitGroup(th, g) PROVE Hand(th)
  BY <1>13, <1>q, <1>t DEF ActiveWaitGroup, ThreadTypes
<1>14. ASSUME NEW th \in Thread, FetchIndex(th) PROVE Hand(th)
  <2>1. PICK label \in {"spawning", "scheduling", "first", "return"} : Fetched(th, label)
    BY <1>14, FetchKinds
  <2> QED
    BY <1>t, <2>1 DEF Fetched, Hand, Queued, ThreadTypes
<1>15. ASSUME NEW th \in Thread, TestTask(th) PROVE Hand(th)
  BY <1>15, <1>t, Kinds DEF TestTask, Hand, Queued, ThreadTypes
<1>16. ASSUME NEW th \in Thread, PushTask(th) PROVE Hand(th)
  BY <1>16, <1>t, Kinds DEF PushTask, Hand, Queued, ThreadTypes, TaskTypes
<1>17. ASSUME NEW th \in Thread, NEW t \in Task, Submit(th, t) PROVE Hand(th)
  BY <1>17, <1>t, Kinds DEF Submit, Hand, Queued, ThreadTypes, HandsOut
<1>18. ASSUME NEW th \in Thread, NEW t \in Task, PopTask(th, t) PROVE Hand(th)
  <2>1. Queued(t) /\ adding[th] = NoTask
    BY <1>18 DEF PopTask, Queued
  <2>2. \A x \in Task : (pending'[x] > 0 => pending[x] > 0) /\ (pending[x] > 0 => pending'[x] > 0 \/ grabbed'[x])
    BY <1>18, <1>t DEF PopTask, TaskTypes
  <2> QED
    BY <1>18, <1>t, <2>1, <2>2, Kinds DEF PopTask, Hand, Queued, TaskTypes, ThreadTypes
<1>19. ASSUME NEW th \in Thread, NEW t \in Task, ActiveWaitTask(th, t) PROVE Hand(th)
  <2>1. HandsOut(th, t)
    BY <1>19 DEF ActiveWaitTask, HandsOut
  <2> QED
    BY <1>19, <1>g, <1>t, <2>1 DEF ActiveWaitTask, ThreadTypes
<1>20. ASSUME NEW th \in Thread, ExecuteTask(th) PROVE Hand(th)
  <2>1. cur[th] \in Task /\ Queued(cur[th])
    BY <1>20, Kinds DEF ExecuteTask, Hands, RunGrabbed, Runs, Queued
  <2> QED
    BY <1>20, <1>d, <1>t, <2>1 DEF ExecuteTask, ThreadTypes
<1>21. ASSUME NEW th \in Thread, FinishCaller(th) PROVE Hand(th)
  <2>1. cur[th] \in Task /\ Queued(cur[th])
    BY <1>21, <1>t, Kinds DEF FinishCaller, Hands, RunGrabbed, Runs, Queued, Place
  <2> QED
    BY <1>21, <1>d, <1>t, <2>1 DEF FinishCaller, ThreadTypes
<1>22. ASSUME NEW th \in Thread, JoinGroup(th) PROVE Hand(th)
  <2>1. cur[th] \in Task /\ HandsOut(th, cur[th])
    BY <1>22, <1>t, Kinds DEF JoinGroup, HandsOut, Place
  <2> QED
    BY <1>22, <1>d, <1>t, <2>1 DEF JoinGroup, ThreadTypes
<1>23. ASSUME NEW th \in Thread, CallGroup(th) PROVE Hand(th)
  <2>1. Calls[cur[th]] \in Task /\ HandsOut(th, Calls[cur[th]])
    BY <1>23, GroupsAssumption, Kinds DEF CallGroup, HandsOut
  <2> QED
    BY <1>23, <1>t, <2>1, Kinds DEF CallGroup, Hand, Queued, ThreadTypes
<1>24. ASSUME NEW th \in Thread, SpawnTask(th) PROVE Hand(th)
  <2> DEFINE x == members[cur[th]][at[th] + 1]
  <2>1. x \in Task /\ HandsOut(th, x)
    BY <1>24, <1>t, GroupFacts, Kinds DEF SpawnTask, Place, HandsOut
  <2>2. CASE grabbed[x] \/ done[x]
    BY <1>24, <1>q, <1>t, <2>2 DEF SpawnTask, ThreadTypes
  <2>3. CASE ~(grabbed[x] \/ done[x])
    BY <1>24, <1>t, <2>1, <2>3, Kinds DEF SpawnTask, Hand, Queued, ThreadTypes
  <2> QED
    BY <2>2, <2>3
<1>25. ASSUME NEW th \in Thread, ScheduleNext(th) PROVE Hand(th)
  <2> DEFINE x == members[cur[th]][at[th] + 1]
  <2>1. x \in Task /\ HandsOut(th, x)
    BY <1>25, <1>t, GroupFacts, Kinds DEF ScheduleNext, Place, HandsOut
  <2>2. CASE grabbed[x] \/ done[x]
    BY <1>25, <1>q, <1>t, <2>2 DEF ScheduleNext, ThreadTypes
  <2>3. CASE ~(grabbed[x] \/ done[x])
    BY <1>25, <1>t, <2>1, <2>3, Kinds DEF ScheduleNext, Hand, Queued, ThreadTypes
  <2> QED
    BY <2>2, <2>3
<1>26. ASSUME NEW th \in Thread, GrabFirst(th) PROVE Hand(th)
  <2> DEFINE x == members[cur[th]][1]
  <2>1. x \in Task /\ HandsOut(th, x)
    BY <1>26, <1>t, GroupFacts, Kinds DEF GrabFirst, Place, HandsOut
  <2> QED
    BY <1>26, <1>g, <1>t, <2>1 DEF GrabFirst, ThreadTypes
<1>27. ASSUME NEW th \in Thread, Help(th) PROVE Hand(th)
  <2> DEFINE x == members[helping[th]][helpAt[th]]
  <2>1. helping[th] \in Parallel /\ helpAt[th] \in 1..Len(members[helping[th]])
    BY <1>27, <1>t, GroupFacts, Kinds DEF Help, Place, ThreadTypes
  <2>2. x \in Task /\ HandsOut(th, x)
    BY <1>27, <2>1, GroupFacts, Kinds DEF Help, HandsOut
  <2> QED
    BY <1>27, <1>g, <1>t, <2>2 DEF Help, ThreadTypes
<1>28. ASSUME NEW th \in Thread, ExecuteSequence(th) PROVE Hand(th)
  <2> DEFINE q == queue[cur[th]]
  <2>1. CASE q = <<>>
    BY <1>28, <1>q, <1>t, <2>1 DEF ExecuteSequence, ThreadTypes
  <2>2. CASE q # <<>>
    <3>1. Head(q) \in Task
      BY <1>28, <1>t, <2>2, TailFacts DEF ExecuteSequence, GroupTypes
    <3>2. Start(th, cur[th])
      BY <1>28, <1>t, <2>2, <3>1 DEF ExecuteSequence, Start, Still, ThreadTypes, GroupTypes, TaskTypes, Neutral
    <3>3. HandsOut(th, Head(q))
      BY <1>28, <2>2, <3>2 DEF ExecuteSequence, HandsOut
    <3> QED
      BY <1>28, <1>g, <1>t, <2>2, <3>1, <3>3 DEF ExecuteSequence, ThreadTypes
  <2> QED
    BY <2>1, <2>2
<1>29. ASSUME NEW th \in Thread, ReportToSequence(th) PROVE Hand(th)
  <2> DEFINE q == queue[Parent(cur[th])]
  <2>1. CASE q = <<>>
    BY <1>29, <1>q, <1>t, <2>1 DEF ReportToSequence, ThreadTypes
  <2>2. CASE q # <<>>
    <3>1. Head(q) \in Task
      BY <1>29, <1>t, <2>2, TailFacts DEF ReportToSequence, GroupTypes
    <3>2. TellSequence(th, Parent(cur[th]))
      BY <1>29, <1>t DEF ReportToSequence, TellSequence, Report, Still, ThreadTypes, GroupTypes, Neutral
    <3>3. HandsOut(th, Head(q))
      BY <1>29, <2>2, <3>2 DEF ReportToSequence, HandsOut
    <3> QED
      BY <1>29, <1>t, <2>2, <3>1, <3>3, Kinds DEF ReportToSequence, Hand, Queued, ThreadTypes
  <2> QED
    BY <2>1, <2>2
<1>30. ASSUME NEW th \in Thread, Acts(th) PROVE Hand(th)
  BY <1>30, <1>1, <1>2, <1>3, <1>4, <1>5, <1>6, <1>7, <1>8, <1>9, <1>10, <1>11, <1>12, <1>13, <1>14, <1>15, <1>16, <1>17, <1>18, <1>19, <1>20, <1>21, <1>22, <1>23, <1>24, <1>25, <1>26, <1>27, <1>28, <1>29 DEF Acts, Continue
<1> QED
  BY <1>30, Kinds DEF Next, Acts

\* What was touched stays so, and what becomes so is handed out.
Touches ==
  \A t \in Task : /\ Touched(t) => Touched(t)'
                  /\ Touched(t)' => Touched(t) \/ \E th \in Thread : HandsOut(th, t)

LEMMA TouchKinds ==
  ASSUME Types, Hands, [Next]_vars
  PROVE  Touches
<1>1. ASSUME NEW th \in Thread, Hand(th) PROVE Touches
  BY <1>1 DEF Hand, Queued, Touches, Touched
<1>2. CASE UNCHANGED vars
  BY <1>2 DEF vars, taskVars, addVars, Touches, Touched
<1> QED
  BY HandKinds, <1>1, <1>2

\* What the groups lead a thread to: where it helps, and what it looks for tasks in.
Led(th) ==
  /\ Still(th) /\ \A th2 \in Thread \ {th} : UNCHANGED helping[th2]
  /\ \/ helping'[th] \in {helping[th], NoTask}
     \/ helping'[th] \in ActivelyWaited
     \/ /\ pc[th] = "execute" /\ cur[th] \in Unit
        /\ helping'[th] = Calls[cur[th]] /\ adding'[th] = Calls[cur[th]]
     \/ outer[th] # <<>> /\ helping'[th] = outer[th][Len(outer[th])].helping
  /\ \/ UNCHANGED outer[th]
     \/ \E o \in Suspended : o.helping = helping[th] /\ outer'[th] = Append(outer[th], o)
     \/ outer[th] # <<>> /\ outer'[th] = SubSeq(outer[th], 1, Len(outer[th]) - 1)
  /\ pc'[th] \in {"spawn", "spawning", "first"} =>
       pc[th] \in {"execute", "spawn", "spawning", "first"} /\ UNCHANGED cur[th]
  /\ pc'[th] \in {"schedule", "scheduling"} =>
       \/ pc[th] \in {"schedule", "scheduling"} /\ UNCHANGED cur[th]
       \/ pc[th] = "report" /\ Parent(cur[th]) = cur'[th]

LEMMA LedKinds ==
  ASSUME Types, [Next]_vars
  PROVE  (\E th \in Thread : Led(th)) \/ UNCHANGED vars
<1>t. TaskTypes /\ GroupTypes /\ ThreadTypes /\ \A th \in Thread : Place(th)
  BY DEF Types
<1> USE DEF At, Goto, On, Add, EnterParent, taskVars, groupVars, addVars, callVars, helpVars
<1>1. ASSUME NEW th \in Thread, TestTask(th) PROVE Led(th)
  BY <1>1, <1>t DEF TestTask, Led, Still, ThreadTypes
<1>2. ASSUME NEW th \in Thread, AskParent(th) PROVE Led(th)
  BY <1>2, <1>t DEF AskParent, Led, Still, ThreadTypes
<1>3. ASSUME NEW th \in Thread, PushTask(th) PROVE Led(th)
  BY <1>3, <1>t DEF PushTask, Led, Still, ThreadTypes
<1>4. ASSUME NEW th \in Thread, Verify(th) PROVE Led(th)
  BY <1>4, <1>t DEF Verify, Led, Still, ThreadTypes
<1>5. ASSUME NEW th \in Thread, ExecuteTask(th) PROVE Led(th)
  BY <1>5, <1>t DEF ExecuteTask, Led, Still, ThreadTypes
<1>6. ASSUME NEW th \in Thread, CallGroup(th) PROVE Led(th)
  <2>1. [task |-> cur[th], frames |-> frames[th], helping |-> helping[th], helpAt |-> helpAt[th]] \in Suspended
    BY <1>6, <1>t DEF CallGroup, ThreadTypes, Suspended
  <2> QED
    BY <1>6, <1>t, <2>1 DEF CallGroup, Led, Still, ThreadTypes
<1>7. ASSUME NEW th \in Thread, FinishCaller(th) PROVE Led(th)
  BY <1>7, <1>t DEF FinishCaller, Led, Still, ThreadTypes
<1>8. ASSUME NEW th \in Thread, ExecuteSequence(th) PROVE Led(th)
  BY <1>8, <1>t DEF ExecuteSequence, Led, Still, ThreadTypes
<1>9. ASSUME NEW th \in Thread, ExecuteParallel(th) PROVE Led(th)
  BY <1>9, <1>t DEF ExecuteParallel, Led, Still, ThreadTypes
<1>10. ASSUME NEW th \in Thread, FetchIndex(th) PROVE Led(th)
  <2>1. PICK label \in {"spawning", "scheduling", "first", "return"} : Fetched(th, label)
    BY <1>10, FetchKinds
  <2> QED
    BY <1>t, <2>1 DEF Fetched, Led, Still, ThreadTypes
<1>11. ASSUME NEW th \in Thread, SpawnTask(th) PROVE Led(th)
  BY <1>11, <1>t DEF SpawnTask, Led, Still, ThreadTypes
<1>12. ASSUME NEW th \in Thread, GrabFirst(th) PROVE Led(th)
  BY <1>12, <1>t DEF GrabFirst, Led, Still, ThreadTypes
<1>13. ASSUME NEW th \in Thread, NotifyTask(th) PROVE Led(th)
  BY <1>13, <1>t DEF NotifyTask, Led, Still, ThreadTypes
<1>14. ASSUME NEW th \in Thread, ReportToNobody(th) PROVE Led(th)
  BY <1>14, <1>t DEF ReportToNobody, Led, Still, ThreadTypes
<1>15. ASSUME NEW th \in Thread, ReportToParallel(th) PROVE Led(th)
  BY <1>15, <1>t DEF ReportToParallel, Led, Still, ThreadTypes
<1>16. ASSUME NEW th \in Thread, ScheduleNext(th) PROVE Led(th)
  BY <1>16, <1>t DEF ScheduleNext, Led, Still, ThreadTypes
<1>17. ASSUME NEW th \in Thread, ReportToSequence(th) PROVE Led(th)
  BY <1>17, <1>t DEF ReportToSequence, Led, Still, ThreadTypes
<1>18. ASSUME NEW th \in Thread, JoinGroup(th) PROVE Led(th)
  BY <1>18, <1>t DEF JoinGroup, Led, Still, ThreadTypes
<1>19. ASSUME NEW th \in Thread, ResetParent(th) PROVE Led(th)
  BY <1>19, <1>t DEF ResetParent, Led, Still, ThreadTypes
<1>20. ASSUME NEW th \in Thread, Return(th) PROVE Led(th)
  BY <1>20, <1>t DEF Return, Led, Still, ThreadTypes
<1>21. ASSUME NEW th \in Thread, Help(th) PROVE Led(th)
  BY <1>21, <1>t DEF Help, Led, Still, ThreadTypes
<1>22. ASSUME NEW th \in Thread, HelpEnds(th) PROVE Led(th)
  BY <1>22, <1>t DEF HelpEnds, Led, Still, ThreadTypes
<1>23. ASSUME NEW th \in Thread, WaitReturns(th) PROVE Led(th)
  BY <1>23, <1>t DEF WaitReturns, Led, Still, ThreadTypes
<1>24. ASSUME NEW th \in Thread, CallReturns(th) PROVE Led(th)
  BY <1>24, <1>t DEF CallReturns, Led, Still, ThreadTypes
<1>25. ASSUME NEW th \in Thread, NEW t \in Task, PopTask(th, t) PROVE Led(th)
  BY <1>25, <1>t DEF PopTask, Led, Still, ThreadTypes
<1>26. ASSUME NEW th \in Thread, NEW t \in Task, Submit(th, t) PROVE Led(th)
  BY <1>26, <1>t DEF Submit, Led, Still, ThreadTypes
<1>27. ASSUME NEW th \in Thread, NEW t \in Task, ActiveWaitTask(th, t) PROVE Led(th)
  BY <1>27, <1>t DEF ActiveWaitTask, Led, Still, ThreadTypes
<1>28. ASSUME NEW th \in Thread, NEW t \in Task, Wait(th, t) PROVE Led(th)
  BY <1>28, <1>t DEF Wait, Led, Still, ThreadTypes
<1>29. ASSUME NEW th \in Thread, NEW g \in Parallel, ActiveWaitGroup(th, g) PROVE Led(th)
  BY <1>29, <1>t DEF ActiveWaitGroup, Led, Still, ThreadTypes
<1> QED
  BY <1>1, <1>2, <1>3, <1>4, <1>5, <1>6, <1>7, <1>8, <1>9, <1>10, <1>11, <1>12, <1>13, <1>14, <1>15, <1>16, <1>17, <1>18, <1>19, <1>20, <1>21, <1>22, <1>23, <1>24, <1>25, <1>26, <1>27, <1>28, <1>29, Kinds DEF Next, Continue

\* The groups a thread helps in, now or when it comes back to it.
Helps(th, g) == helping[th] = g \/ \E i \in DOMAIN outer[th] : outer[th][i].helping = g

LEMMA HelpKinds ==
  ASSUME Types, NEW th \in Thread, Led(th)
  PROVE  \A g : Helps(th, g)' =>
           \/ Helps(th, g) \/ g = NoTask \/ g \in ActivelyWaited
           \/ cur[th] \in Unit /\ g = Calls[cur[th]] /\ adding'[th] = g
<1> DEFINE n == Len(outer[th])
<1>t. outer[th] \in Seq(Suspended)
  BY DEF Types, ThreadTypes
<1>1. \A g : g = helping'[th] =>
        \/ Helps(th, g) \/ g = NoTask \/ g \in ActivelyWaited
        \/ cur[th] \in Unit /\ g = Calls[cur[th]] /\ adding'[th] = g
  <2>1. outer[th] # <<>> => n \in DOMAIN outer[th]
    BY <1>t, FrontFacts
  <2> QED
    BY <2>1 DEF Led, Helps
<1>2. \A i \in DOMAIN outer'[th] : \/ outer'[th][i].helping = helping[th]
                                   \/ i \in DOMAIN outer[th] /\ outer'[th][i] = outer[th][i]
  <2>1. ASSUME NEW o \in Suspended, o.helping = helping[th], outer'[th] = Append(outer[th], o)
        PROVE  \A i \in DOMAIN outer'[th] : \/ outer'[th][i].helping = helping[th]
                                            \/ i \in DOMAIN outer[th] /\ outer'[th][i] = outer[th][i]
    <3>1. /\ n \in Nat /\ DOMAIN outer[th] = 1..n /\ DOMAIN outer'[th] = 1..(n + 1)
          /\ \A i \in 1..n : outer'[th][i] = outer[th][i]
          /\ outer'[th][n + 1] = o
      BY <1>t, <2>1, AppendFacts, LenProperties
    <3> HIDE DEF n
    <3>2. \A i \in DOMAIN outer'[th] : \/ i \in DOMAIN outer[th] /\ outer'[th][i] = outer[th][i]
                                       \/ outer'[th][i] = o
      BY <3>1
    <3> QED
      BY <2>1, <3>2
  <2>2. ASSUME outer[th] # <<>>, outer'[th] = SubSeq(outer[th], 1, n - 1)
        PROVE  \A i \in DOMAIN outer'[th] : i \in DOMAIN outer[th] /\ outer'[th][i] = outer[th][i]
    <3>1. /\ n \in Nat \ {0} /\ DOMAIN outer[th] = 1..n /\ DOMAIN outer'[th] = 1..(n - 1)
          /\ \A i \in 1..(n - 1) : outer'[th][i] = outer[th][i]
      BY <1>t, <2>2, FrontFacts
    <3> HIDE DEF n
    <3> QED
      BY <3>1
  <2> QED
    BY <2>1, <2>2 DEF Led
<1> QED
  BY <1>1, <1>2 DEF Helps

-----------------------------------------------------------------------------
(* What a task is a part of.                                                  *)

LEMMA AboveTasks == \A t : Above(t) \subseteq Task
BY Kinds DEF Above

\* Line(t) holds t and, with a task, what the task is a part of.
LEMMA LineFacts ==
  ASSUME NEW t \in Task
  PROVE  /\ t \in Line(t) /\ Line(t) \subseteq Task
         /\ \A x \in Line(t) : Above(x) \subseteq Line(t)
         /\ \A C \in SUBSET Task : t \in C /\ (\A a \in C : Above(a) \subseteq C) => Line(t) \subseteq C
<1>1. t \in Line(t) /\ Line(t) \subseteq Task
  BY DEF Line
<1>2. ASSUME NEW C \in SUBSET Task, t \in C, \A a \in C : Above(a) \subseteq C PROVE Line(t) \subseteq C
  BY <1>2 DEF Line
<1>3. ASSUME NEW x \in Line(t), NEW y \in Above(x) PROVE y \in Line(t)
  <2>1. ASSUME NEW C \in SUBSET Task, t \in C, \A a \in C : Above(a) \subseteq C PROVE y \in C
    BY <1>2, <1>3, <2>1
  <2> QED
    BY <1>3, <2>1, AboveTasks DEF Line
<1> QED
  BY <1>1, <1>2, <1>3

LEMMA FreeFacts ==
  /\ ActivelyWaited \subseteq Free
  /\ Free \subseteq Task
  /\ \A g \in Group : \A t \in Members(g) : t \in Free => g \in Free
  /\ \A u \in Unit : Calls[u] # NoTask /\ Calls[u] \in Free => u \in Free
<1>1. ActivelyWaited \subseteq Task
  BY GroupsAssumption, Kinds
<1>2. ActivelyWaited \subseteq Free /\ Free \subseteq Task
  BY <1>1, LineFacts DEF Free
<1>3. \A x \in Free : Above(x) \subseteq Free
  <2> SUFFICES ASSUME NEW a \in ActivelyWaited, NEW x \in Line(a) PROVE Above(x) \subseteq Free
    BY DEF Free
  <2>1. Above(x) \subseteq Line(a)
    BY <1>1, LineFacts
  <2> QED
    BY <2>1 DEF Free
<1> QED
  BY <1>2, <1>3 DEF Above

-----------------------------------------------------------------------------
(* A task of a sequence is handed out in its turn.                            *)

\* Somebody has begun on a group: it is grabbed, or executed by those who wait for it.
Started(g) == grabbed[g] \/ g \in Free \/ (g \in Called /\ Touched(g))

\* What lies in a group, or is called, is touched after it.
GroupTurns == \A g \in Parallel, t \in Task : t \in Members(g) /\ Touched(t) => Started(g)

CallTurns ==
  \A u \in Unit : Calls[u] # NoTask /\ Touched(Calls[u]) => grabbed[u] \/ u \in Free

\* The tasks before the last one taken from the queue have reported, those after it are
\* in the queue and untouched; nothing is taken before the sequence begins.
Popped(s) == Len(members[s]) - Len(queue[s])

SequenceTurns(s) ==
  /\ Len(queue[s]) <= Len(members[s])
  /\ \A i \in 1..Len(queue[s]) : queue[s][i] = members[s][Popped(s) + i]
  /\ \A i \in 1..Len(members[s]) :
       /\ Touched(members[s][i]) => i <= Popped(s)
       /\ i < Popped(s) => ~Unreported(members[s][i])
  /\ Began(s) \/ Popped(s) = 0

\* A thread is at work on groups that have started.
LeaderTurns(th) ==
  /\ \A g \in Task : Helps(th, g) => Started(g)
  /\ pc[th] \in {"spawn", "spawning", "first"} => grabbed[cur[th]]
  /\ pc[th] \in {"schedule", "scheduling"} => Started(cur[th])

Turns ==
  /\ GroupTurns /\ CallTurns
  /\ \A s \in Sequence : SequenceTurns(s)
  /\ \A th \in Thread : LeaderTurns(th)

LEMMA TurnsInit == Init => Turns
<1> SUFFICES ASSUME Init PROVE Turns
  OBVIOUS
<1>1. \A t \in Task : ~Touched(t)
  BY Kinds DEF Init, Touched
<1>2. GroupTurns
  BY <1>1 DEF GroupTurns
<1>3. CallTurns
  BY <1>1, GroupsAssumption, Kinds DEF CallTurns
<1>4. ASSUME NEW s \in Sequence PROVE SequenceTurns(s)
  <2>1. queue[s] = members[s]
    BY DEF Init
  <2>2. /\ Len(members[s]) \in Nat
        /\ \A i \in 1..Len(members[s]) : members[s][i] \in Task
    BY GroupFacts, Kinds
  <2>3. Popped(s) = 0
    BY <2>1, <2>2 DEF Popped
  <2> QED
    BY <1>1, <2>1, <2>2, <2>3 DEF SequenceTurns
<1>5. \A th \in Thread : LeaderTurns(th)
  BY Kinds DEF Init, LeaderTurns, Helps
<1> QED
  BY <1>2, <1>3, <1>4, <1>5 DEF Turns

\* Steps do not undo anything.
LEMMA Progress ==
  ASSUME Types, Hands, [Next]_vars
  PROVE  /\ \A t \in Task : grabbed[t] => grabbed'[t]
         /\ \A t \in Task : Unreported(t)' => Unreported(t)
         /\ \A s \in Task : Began(s) => Began(s)'
<1>1. CASE UNCHANGED vars
  BY <1>1 DEF vars, taskVars, callVars, Unreported, Began
<1>2. ASSUME NEW th \in Thread, Form(th)
      PROVE  /\ \A t \in Task : grabbed[t] => grabbed'[t]
             /\ \A t \in Task : Unreported(t)' => Unreported(t)
             /\ \A s \in Task : Began(s) => Began(s)'
  <2>1. \A t \in Task : grabbed[t] => grabbed'[t]
    BY <1>2 DEF Form, Wander, Keep, Drop, Finish, Tell, TellNobody, Leave, ComeBack, Take,
      TellParallel, TellSequence, Start, Report, Plain
  <2>2. \A t \in Task : Unreported(t)' => Unreported(t)
    BY <1>2, NothingReported, ReportUnique DEF Form, TellNobody, TellParallel, TellSequence
  <2>3. Still(th)
    BY <1>2 DEF Form, Wander, Keep, Drop, Finish, Tell, TellNobody, Leave, ComeBack, Take,
      TellParallel, TellSequence, Start, Report, Plain
  <2>4. ASSUME NEW s \in Task, grabbed[s], ~(cur[th] = s /\ pc[th] \in {"verify", "execute"})
        PROVE  ~(cur'[th] = s /\ pc'[th] \in {"verify", "execute"})
    BY <1>2, <2>4 DEF Form, Wander, Keep, Drop, Finish, Tell, TellNobody, Leave, ComeBack, Take,
      TellParallel, TellSequence, Start, Report, Plain, Neutral
  <2>5. ASSUME NEW s \in Task, Began(s) PROVE Began(s)'
    BY <2>1, <2>3, <2>4, <2>5, Kinds DEF Began, Still
  <2> QED
    BY <2>1, <2>2, <2>5
<1> QED
  BY StepKinds, <1>1, <1>2

LEMMA StartedStays ==
  ASSUME Types, Hands, [Next]_vars
  PROVE  \A g \in Task : Started(g) => Started(g)'
BY Progress, TouchKinds DEF Started, Touches

\* A queue changes when the sequence starts or hears of a task.
LEMMA QueueStays ==
  ASSUME Types, [Next]_vars, NEW s \in Sequence,
         ~ \E th \in Thread : queue[s] # <<>> /\ (Start(th, s) \/ TellSequence(th, s))
  PROVE  queue'[s] = queue[s]
<1>1. CASE UNCHANGED vars
  BY <1>1 DEF vars, groupVars
<1>2. ASSUME NEW th \in Thread, Form(th) PROVE queue'[s] = queue[s]
  <2>1. CASE \E x \in Sequence : TellSequence(th, x) \/ Start(th, x)
    BY <2>1 DEF TellSequence, Start
  <2>2. CASE ~ \E x \in Sequence : TellSequence(th, x) \/ Start(th, x)
    BY <1>2, <2>2 DEF Form, Wander, Keep, Drop, Finish, Tell, TellNobody, Leave, ComeBack, Take,
      TellParallel, Plain
  <2> QED
    BY <2>1, <2>2
<1> QED
  BY StepKinds, <1>1, <1>2

\* A group all of whose tasks have reported has started.
LEMMA JoinStarted ==
  ASSUME Types, Counts, Turns, NEW th \in Thread, pc[th] = "join", NEW g \in Group, cur[th] = g
  PROVE  /\ g \in Parallel => Started(g)
         /\ g \in Sequence => grabbed[g]
<1>1. Left(g) = {}
  BY DEF Counts, NothingLeft, Ends
<1>2. PICK i \in 1..Len(members[g]) : members[g][i] \in Members(g) /\ members[g][i] \in Task
  BY GroupFacts
<1>3. done[members[g][i]]
  BY <1>1, <1>2 DEF Left, Unreported
<1>4. Touched(members[g][i])
  BY <1>3 DEF Touched
<1>5. g \in Parallel => Started(g)
  BY <1>2, <1>4 DEF Turns, GroupTurns
<1>6. ASSUME g \in Sequence PROVE grabbed[g]
  <2>1. i <= Popped(g) /\ (Began(g) \/ Popped(g) = 0)
    BY <1>4, <1>6 DEF Turns, SequenceTurns
  <2>2. Began(g)
    BY <1>2, <2>1
  <2> QED
    BY <2>2 DEF Began
<1> QED
  BY <1>5, <1>6

\* The head of a queue is the next task of the sequence.
LEMMA QueueHead ==
  ASSUME Types, NEW s \in Sequence, SequenceTurns(s), queue[s] # <<>>
  PROVE  /\ Len(queue[s]) \in Nat \ {0} /\ Len(members[s]) \in Nat
         /\ Popped(s) \in Nat /\ Popped(s) + 1 <= Len(members[s])
         /\ Head(queue[s]) = members[s][Popped(s) + 1]
         /\ Head(queue[s]) \in Members(s) /\ Head(queue[s]) \in Task
         /\ Tail(queue[s]) \in Seq(Task) /\ Len(Tail(queue[s])) = Len(queue[s]) - 1
         /\ \A i \in 1..(Len(queue[s]) - 1) : Tail(queue[s])[i] = queue[s][i + 1]
<1>1. queue[s] \in Seq(Task)
  BY DEF Types, GroupTypes
<1>2. /\ Len(queue[s]) \in Nat \ {0}
      /\ Head(queue[s]) \in Task /\ Head(queue[s]) = queue[s][1]
      /\ Tail(queue[s]) \in Seq(Task) /\ Len(Tail(queue[s])) = Len(queue[s]) - 1
      /\ \A i \in 1..(Len(queue[s]) - 1) : Tail(queue[s])[i] = queue[s][i + 1]
  BY <1>1, TailFacts
<1>3. Len(members[s]) \in Nat /\ \A i \in 1..Len(members[s]) : members[s][i] \in Members(s)
  BY GroupFacts, Kinds
<1>4. /\ Len(queue[s]) <= Len(members[s])
      /\ \A i \in 1..Len(queue[s]) : queue[s][i] = members[s][Popped(s) + i]
  BY DEF SequenceTurns
<1>5. Popped(s) \in Nat /\ Popped(s) + 1 <= Len(members[s])
  BY <1>2, <1>3, <1>4 DEF Popped
<1>6. queue[s][1] = members[s][Popped(s) + 1]
  BY <1>2, <1>4
<1> QED
  BY <1>2, <1>3, <1>5, <1>6

\* Who hands out a task that lies in a group.
LEMMA NewMember ==
  ASSUME InTurn, Work, Turns, [Next]_vars,
         NEW g \in Group, NEW t \in Members(g), t \in Task, Touched(t)', ~Touched(t)
  PROVE  \/ t \in Free
         \/ g \in Parallel /\ Started(g)
         \/ g \in Sequence /\ \E th \in Thread : /\ Start(th, g) \/ TellSequence(th, g)
                                                 /\ queue[g] # <<>> /\ t = Head(queue[g])
<1>t. Types /\ Hands /\ Counts
  BY DEF Work
<1>1. PICK th \in Thread : HandsOut(th, t)
  BY <1>t, TouchKinds DEF Touches
<1>2. CASE t \in Root \cup ActivelyWaited
  BY <1>2, FreeFacts DEF InTurn
<1>3. CASE pc[th] = "execute" /\ cur[th] \in Unit /\ Calls[cur[th]] = t
  <2>1. t \in Called
    BY <1>3, Kinds DEF Called
  <2> QED
    BY <2>1, GroupsAssumption
<1>4. CASE \E p \in Parallel :
             /\ t \in Members(p)
             /\ \/ pc[th] \in {"spawning", "scheduling", "first"} /\ cur[th] = p
                \/ pc[th] = "help" /\ helping[th] = p
  <2>1. PICK p \in Parallel :
             /\ t \in Members(p)
             /\ \/ pc[th] \in {"spawning", "scheduling", "first"} /\ cur[th] = p
                \/ pc[th] = "help" /\ helping[th] = p
    BY <1>4
  <2>2. p = g
    BY <2>1, ParentFacts, Kinds
  <2>3. Started(g)
    BY <2>1, <2>2, Kinds DEF Turns, LeaderTurns, Started, Helps
  <2> QED
    BY <2>2, <2>3
<1>5. CASE pc[th] = "join" /\ cur[th] = t
  <2>1. t \in Group
    BY <1>t, <1>5 DEF Types, Place
  <2>2. ~grabbed[t]
    BY DEF Touched
  <2>3. t \in Parallel /\ Started(t)
    BY <1>t, <1>5, <2>1, <2>2, JoinStarted DEF Group
  <2>4. t \notin Called
    BY GroupsAssumption
  <2> QED
    BY <2>2, <2>3, <2>4 DEF Started
<1>6. CASE \E s \in Sequence : /\ queue[s] # <<>> /\ t = Head(queue[s])
                               /\ Start(th, s) \/ TellSequence(th, s)
  <2>1. PICK s \in Sequence : /\ queue[s] # <<>> /\ t = Head(queue[s])
                              /\ Start(th, s) \/ TellSequence(th, s)
    BY <1>6
  <2>2. t \in Members(s)
    BY <1>t, <2>1, QueueHead DEF Turns
  <2>3. s = g
    BY <2>2, ParentFacts, Kinds
  <2> QED
    BY <2>1, <2>3
<1> QED
  BY <1>1, <1>2, <1>3, <1>4, <1>5, <1>6 DEF HandsOut

\* A sequence stays in its order: nothing of it is handed out but the head of its queue,
\* when it starts, and when the task before has reported.
LEMMA SequenceTurnsStep ==
  ASSUME InTurn, Work, Turns, [Next]_vars, NEW s \in Sequence
  PROVE  SequenceTurns(s)'
<1>t. Types /\ Hands /\ Counts /\ s \in Group
  BY Kinds DEF Work
<1>s. SequenceTurns(s)
  BY DEF Turns
<1> DEFINE m == members[s]
           q == queue[s]
           k == Popped(s)
<1>0. Len(m) \in Nat /\ Len(q) \in Nat /\ Len(q) <= Len(m) /\ k \in Nat /\ k = Len(m) - Len(q)
  <2>1. Len(m) \in Nat
    BY <1>t, GroupFacts
  <2>2. Len(q) \in Nat /\ Len(q) <= Len(m)
    BY <1>t, <1>s, LenProperties DEF Types, GroupTypes, SequenceTurns
  <2> QED
    BY <2>1, <2>2 DEF Popped
<1>1. /\ \A i \in 1..Len(m) : m[i] \in Task /\ m[i] \in Members(s)
      /\ \A i, j \in 1..Len(m) : m[i] = m[j] => i = j
  <2>1. Len(m) \in Nat /\ DOMAIN m = 1..Len(m) /\ \A i \in 1..Len(m) : m[i] \in Task /\ m[i] \in Members(s)
    BY <1>t, GroupFacts
  <2>2. \A i, j \in 1..Len(m) : m[i] = m[j] => i = j
    BY <1>t, <2>1, GroupsAssumption
  <2> QED
    BY <2>1, <2>2
<1>2. /\ \A i \in 1..Len(q) : q[i] = m[k + i]
      /\ \A i \in 1..Len(m) : (Touched(m[i]) => i <= k) /\ (i < k => ~Unreported(m[i]))
      /\ Began(s) \/ k = 0
  BY <1>s DEF SequenceTurns
<1>3. /\ \A t \in Task : Unreported(t)' => Unreported(t)
      /\ Began(s) => Began(s)'
  BY <1>t, Progress, Kinds
<1>4. \A t \in Members(s) : t \notin Free /\ s \notin Parallel
  BY Kinds DEF InTurn
<1>5. \A t \in Members(s) : Touched(t)' /\ ~Touched(t) =>
        \E th \in Thread : /\ Start(th, s) \/ TellSequence(th, s)
                           /\ q # <<>> /\ t = Head(q)
  BY <1>t, <1>4, NewMember, GroupFacts
<1>6. CASE ~ \E th \in Thread : q # <<>> /\ (Start(th, s) \/ TellSequence(th, s))
  <2>1. queue'[s] = q
    BY <1>t, <1>6, QueueStays
  <2>2. Popped(s)' = k
    BY <2>1 DEF Popped
  <2>3. \A i \in 1..Len(m) : Touched(m[i])' => Touched(m[i])
    BY <1>1, <1>5, <1>6
  <2>4. \A i \in 1..Len(m) : Unreported(m[i])' => Unreported(m[i])
    BY <1>1, <1>3
  <2> HIDE DEF k
  <2> QED
    BY <1>0, <1>1, <1>2, <1>3, <2>1, <2>2, <2>3, <2>4 DEF SequenceTurns
<1>7. ASSUME NEW th \in Thread, q # <<>>, Start(th, s) \/ TellSequence(th, s)
      PROVE  SequenceTurns(s)'
  <2>1. /\ Len(q) \in Nat \ {0} /\ k + 1 <= Len(m) /\ Head(q) = m[k + 1]
        /\ Len(Tail(q)) = Len(q) - 1
        /\ \A i \in 1..(Len(q) - 1) : Tail(q)[i] = q[i + 1]
    BY <1>t, <1>s, <1>7, QueueHead
  <2>2. queue'[s] = Tail(q)
    BY <1>7 DEF Start, TellSequence
  <2>3. Popped(s)' = k + 1
    <3>1. Len(members[s]) - Len(Tail(q)) = k + 1
      <4> DEFINE lq == Len(q)
                 lm == Len(m)
                 lt == Len(Tail(q))
      <4>1. lq \in Nat /\ lm \in Nat /\ k = lm - lq /\ lt = lq - 1
        BY <1>0, <2>1
      <4> HIDE DEF lq, lm, lt, k
      <4>2. lm - lt = k + 1
        BY <4>1
      <4> QED
        BY <4>2 DEF lm, lt
    <3> QED
      BY <2>2, <3>1 DEF Popped
  <2>4. \A i \in 1..Len(m) : Touched(m[i])' => Touched(m[i]) \/ i = k + 1
    <3> SUFFICES ASSUME NEW i \in 1..Len(m), Touched(m[i])', ~Touched(m[i]) PROVE i = k + 1
      OBVIOUS
    <3>1. m[i] = m[k + 1]
      BY <1>1, <1>5, <2>1
    <3>2. k + 1 \in 1..Len(m)
      <4> DEFINE n == Len(m)
      <4>1. n \in Nat /\ k \in Nat /\ k + 1 <= n
        BY <1>0, <2>1
      <4> HIDE DEF k, n
      <4>2. k + 1 \in 1..n
        BY <4>1
      <4> QED
        BY <4>2 DEF n
    <3> HIDE DEF k
    <3> QED
      BY <1>1, <3>1, <3>2
  \* The task before has reported, if there is one.
  <2>5. \A i \in 1..Len(m) : i = k => ~Unreported(m[i])'
    <3> SUFFICES ASSUME NEW i \in 1..Len(m), i = k PROVE ~Unreported(m[i])'
      OBVIOUS
    <3>1. CASE Start(th, s)
      <4>1. ~Began(s)
        BY <3>1 DEF Start, Began
      <4> QED
        BY <1>2, <4>1
    <3>2. CASE TellSequence(th, s)
      <4> DEFINE x == cur[th]
      <4>1. /\ Report(th) /\ x \in Task /\ x \in Members(s) /\ Unreported(x)
            /\ \A t \in Task : Unreported(t)' => t # x
        BY <1>t, <3>2, ReportUnique, ParentFacts DEF TellSequence
      <4>2. Touched(x)
        <5>1. done[x]
          BY <1>t, <4>1 DEF Hands, EndDone, Ends, Report
        <5> QED
          BY <5>1 DEF Touched
      <4>3. PICK j \in 1..Len(m) : m[j] = x
        BY <1>t, <4>1, GroupFacts DEF Members
      <4>4. j = k
        BY <1>1, <1>2, <4>1, <4>2, <4>3
      <4> QED
        BY <1>1, <4>1, <4>3, <4>4
    <3> QED
      BY <1>7, <3>1, <3>2
  <2>6. Began(s)'
    <3>1. CASE Began(s)
      BY <1>3, <3>1
    <3>2. CASE TellSequence(th, s)
      <4> DEFINE x == cur[th]
      <4>1. Report(th) /\ x \in Task /\ x \in Members(s)
        BY <1>t, <3>2, ReportUnique, ParentFacts DEF TellSequence
      <4>2. done[x]
        BY <1>t, <4>1 DEF Hands, EndDone, Ends, Report
      <4>3. Touched(x)
        BY <4>2 DEF Touched
      <4>4. PICK j \in 1..Len(m) : m[j] = x
        BY <1>t, <4>1, GroupFacts DEF Members
      <4>5. k # 0
        BY <1>1, <1>2, <4>3, <4>4
      <4> QED
        BY <1>2, <1>3, <4>5
    <3>3. CASE Start(th, s)
      <4>1. s \in Task /\ Runs(th, s)
        BY <3>3, Kinds DEF Start, Runs
      <4>2. grabbed[s] /\ \A th2 \in Thread \ {th} : ~Runs(th2, s)
        BY <1>t, <4>1 DEF Hands, RunGrabbed, RunOnce
      <4>3. grabbed'[s]
        BY <3>3, <4>1, <4>2 DEF Start
      <4>4. ~(cur'[th] = s /\ pc'[th] \in {"verify", "execute"})
        BY <3>3, <4>2 DEF Start, Neutral
      <4>5. \A th2 \in Thread \ {th} : cur'[th2] = cur[th2] /\ pc'[th2] = pc[th2]
        BY <3>3 DEF Start, Still
      <4> QED
        BY <4>2, <4>3, <4>4, <4>5 DEF Began, Runs
    <3> QED
      BY <1>7, <3>1, <3>2, <3>3
  <2> HIDE DEF k
  <2>7. Len(Tail(q)) <= Len(m) /\ \A i \in 1..Len(Tail(q)) : Tail(q)[i] = m[k + 1 + i]
    <3>1. ASSUME NEW i \in 1..Len(Tail(q)) PROVE Tail(q)[i] = m[k + 1 + i]
      <4>1. i \in 1..(Len(q) - 1) /\ i + 1 \in 1..Len(q) /\ k + (i + 1) = k + 1 + i
        <5> DEFINE n == Len(q)
        <5>1. n \in Nat /\ k \in Nat /\ i \in 1..(n - 1)
          BY <1>0, <2>1
        <5> HIDE DEF n
        <5>2. i \in 1..(n - 1) /\ i + 1 \in 1..n /\ k + (i + 1) = k + 1 + i
          BY <5>1
        <5> QED
          BY <5>2 DEF n
      <4>2. Tail(q)[i] = q[i + 1]
        BY <2>1, <4>1
      <4>3. q[i + 1] = m[k + (i + 1)]
        BY <1>2, <4>1
      <4> QED
        BY <4>1, <4>2, <4>3
    <3>2. Len(Tail(q)) <= Len(m)
      BY <1>0, <1>1, <2>1
    <3> QED
      BY <3>1, <3>2
  <2>8. \A i \in 1..Len(m) : Touched(m[i])' => i <= k + 1
    <3> DEFINE n == Len(m)
    <3>1. n \in Nat /\ k \in Nat
      BY <1>0
    <3>2. \A i \in 1..n : Touched(m[i])' => i <= k \/ i = k + 1
      BY <1>2, <2>4
    <3> HIDE DEF n, m
    <3>3. \A i \in 1..n : Touched(m[i])' => i <= k + 1
      BY <3>1, <3>2
    <3> QED
      BY <3>3 DEF n
  <2>9. \A i \in 1..Len(m) : i < k + 1 => ~Unreported(m[i])'
    <3> SUFFICES ASSUME NEW i \in 1..Len(m), i < k + 1, i # k PROVE ~Unreported(m[i])'
      BY <2>5
    <3>1. i < k
      <4>1. i \in Int /\ k \in Nat
        BY <1>0
      <4> QED
        BY <4>1
    <3> QED
      BY <1>1, <1>2, <1>3, <3>1
  <2> QED
    BY <2>2, <2>3, <2>6, <2>7, <2>8, <2>9 DEF SequenceTurns
<1> QED
  BY <1>6, <1>7

\* So do calls: a thread calls one group for a function it has in hand.
LEMMA CallTurnsStep ==
  ASSUME InTurn, Work, Turns, [Next]_vars
  PROVE  CallTurns'
<1>t. Types /\ Hands /\ Counts
  BY DEF Work
<1> SUFFICES ASSUME NEW u \in Unit, Calls[u] # NoTask, Touched(Calls[u])', u \notin Free
             PROVE  grabbed'[u]
  BY DEF CallTurns
<1> DEFINE c == Calls[u]
<1>1. c \in Parallel /\ c \in Task /\ c \in Called /\ u \in Task
  BY GroupsAssumption, Kinds DEF Called
<1>2. c \notin Root \cup ActivelyWaited /\ \A g \in Group : c \notin Members(g)
  BY <1>1, GroupsAssumption
<1>3. c \notin Free
  BY FreeFacts
<1>4. CASE Touched(c)
  BY <1>t, <1>1, <1>4, Progress DEF Turns, CallTurns
<1>5. CASE ~Touched(c)
  <2>1. PICK th \in Thread : HandsOut(th, c)
    BY <1>t, <1>1, <1>5, TouchKinds DEF Touches
  <2>2. ~(pc[th] = "join" /\ cur[th] = c)
    <3> SUFFICES ASSUME pc[th] = "join", cur[th] = c PROVE FALSE
      OBVIOUS
    <3>1. Started(c)
      BY <1>t, <1>1, JoinStarted, Kinds
    <3> QED
      BY <1>3, <1>5, <3>1 DEF Started, Touched
  <2>3. ~ \E s \in Sequence : queue[s] # <<>> /\ c = Head(queue[s])
    BY <1>t, <1>2, QueueHead, Kinds DEF Turns
  <2>4. ~ \E g \in Parallel : c \in Members(g)
    BY <1>2, Kinds
  <2>5. pc[th] = "execute" /\ cur[th] \in Unit /\ Calls[cur[th]] = c
    BY <1>2, <2>1, <2>2, <2>3, <2>4 DEF HandsOut
  <2>6. cur[th] = u
    BY <2>5, GroupsAssumption
  <2>7. grabbed[u]
    BY <1>t, <1>1, <2>5, <2>6 DEF Hands, RunGrabbed, Runs
  <2> QED
    BY <1>t, <1>1, <2>7, Progress
<1> QED
  BY <1>4, <1>5

LEMMA GroupTurnsStep ==
  ASSUME InTurn, Work, Turns, [Next]_vars
  PROVE  GroupTurns'
<1>t. Types /\ Hands /\ Counts
  BY DEF Work
<1> SUFFICES ASSUME NEW g \in Parallel, NEW t \in Task, t \in Members(g), Touched(t)'
             PROVE  Started(g)'
  BY DEF GroupTurns, Members
<1>1. g \in Group /\ g \in Task /\ g \notin Sequence
  BY Kinds
<1>2. Started(g)
  <2>1. CASE Touched(t)
    BY <2>1 DEF Turns, GroupTurns
  <2>2. CASE ~Touched(t)
    <3>1. t \in Free \/ Started(g)
      BY <1>1, <2>2, NewMember
    <3>2. t \in Free => g \in Free
      BY <1>1, FreeFacts
    <3> QED
      BY <3>1, <3>2 DEF Started
  <2> QED
    BY <2>1, <2>2
<1> QED
  BY <1>t, <1>1, <1>2, StartedStays

LEMMA LeaderTurnsStep ==
  ASSUME InTurn, Work, Turns, [Next]_vars
  PROVE  \A th \in Thread : LeaderTurns(th)'
<1>t. Types /\ Hands /\ Counts /\ ThreadTypes /\ \A th \in Thread : Place(th) /\ LeaderTurns(th)
  BY DEF Work, Types, Turns
<1>g. /\ \A g \in Task : Started(g) => Started(g)'
      /\ \A t \in Task : grabbed[t] => grabbed'[t]
  BY <1>t, StartedStays, Progress
<1>k. Parallel \subseteq Task
  BY Kinds
\* What a thread is at that does not move.
<1>1. ASSUME NEW th \in Thread, UNCHANGED <<pc[th], cur[th], outer[th], helping[th]>>
      PROVE  LeaderTurns(th)'
  <2>1. /\ helping[th] \in Parallel \cup {NoTask}
        /\ pc[th] \in {"spawn", "spawning", "first", "schedule", "scheduling"} => cur[th] \in Parallel
    BY <1>t DEF ThreadTypes, Place
  <2> QED
    BY <1>t, <1>g, <1>k, <1>1, <2>1 DEF LeaderTurns, Helps
<1>2. ASSUME NEW th \in Thread, Led(th) PROVE LeaderTurns(th)'
  <2>0. Types'
    BY <1>t, TypesStep
  <2>5. \A g \in Task : Helps(th, g)' => Started(g)'
    <3> SUFFICES ASSUME NEW g \in Task, Helps(th, g)' PROVE Started(g)'
      OBVIOUS
    <3>1. CASE Helps(th, g)
      BY <1>t, <1>g, <3>1 DEF LeaderTurns
    <3>2. CASE g \in ActivelyWaited
      BY <3>2, FreeFacts DEF Started
    <3>3. CASE cur[th] \in Unit /\ g = Calls[cur[th]] /\ adding'[th] = g
      <4>1. g \in Called
        BY <3>3, Kinds DEF Called
      <4>2. Touched(g)'
        BY <3>3 DEF Touched
      <4> QED
        BY <4>1, <4>2 DEF Started
    <3> QED
      BY <1>t, <1>2, <3>1, <3>2, <3>3, HelpKinds, Kinds
  <2>7. pc'[th] \in {"spawn", "spawning", "first"} => grabbed'[cur'[th]]
    <3> SUFFICES ASSUME pc'[th] \in {"spawn", "spawning", "first"} PROVE grabbed'[cur'[th]]
      OBVIOUS
    <3>1. pc[th] \in {"execute", "spawn", "spawning", "first"} /\ UNCHANGED cur[th]
      BY <1>2 DEF Led
    <3>2. cur[th] \in Task
      BY <1>t, <1>k, <3>1 DEF Place
    <3>3. grabbed[cur[th]]
      BY <1>t, <3>1, <3>2 DEF LeaderTurns, Hands, RunGrabbed, Runs
    <3> QED
      BY <1>g, <3>1, <3>2, <3>3
  <2>8. \A g \in Task : pc'[th] \in {"schedule", "scheduling"} /\ g = cur'[th] => Started(g)'
    <3> SUFFICES ASSUME NEW g \in Task, g = cur'[th], pc'[th] \in {"schedule", "scheduling"}
                 PROVE  Started(g)'
      OBVIOUS
    <3>1. CASE pc[th] \in {"schedule", "scheduling"} /\ UNCHANGED cur[th]
      <4>1. cur[th] \in Task /\ Started(cur[th])
        BY <1>t, <1>k, <3>1 DEF Place, LeaderTurns
      <4> QED
        BY <1>g, <3>1, <4>1
    <3>2. CASE pc[th] = "report" /\ Parent(cur[th]) = cur'[th]
      <4>1. cur[th] \in Task /\ done[cur[th]]
        BY <1>t, <3>2 DEF Place, Hands, EndDone, Ends
      <4>2. Touched(cur[th])
        BY <4>1 DEF Touched
      <4>4. cur'[th] \in Parallel
        BY <2>0 DEF Types, Place
      <4>5. cur[th] \in Members(cur'[th])
        BY <3>2, <4>4, ParentFacts, Kinds
      <4>6. Started(cur'[th])
        BY <4>1, <4>2, <4>4, <4>5 DEF Turns, GroupTurns
      <4> QED
        BY <1>g, <1>k, <4>4, <4>6
    <3> QED
      BY <1>2, <3>1, <3>2 DEF Led
  <2>9. (pc[th] \in {"schedule", "scheduling"} => cur[th] \in Task)'
    BY <2>0, <1>k DEF Types, Place
  <2> QED
    BY <2>5, <2>7, <2>8, <2>9 DEF LeaderTurns
<1>3. ASSUME NEW th \in Thread, Led(th), NEW th2 \in Thread, th2 # th PROVE LeaderTurns(th2)'
  BY <1>1, <1>3 DEF Led, Still
<1>4. CASE UNCHANGED vars
  <2>1. \A th \in Thread : UNCHANGED <<pc[th], cur[th], outer[th], helping[th]>>
    BY <1>4 DEF vars, callVars, helpVars
  <2> QED
    BY <1>1, <2>1
<1> QED
  BY <1>t, LedKinds, <1>2, <1>3, <1>4

LEMMA TurnsStep ==
  ASSUME InTurn, Work, Turns, [Next]_vars
  PROVE  Turns'
BY SequenceTurnsStep, CallTurnsStep, GroupTurnsStep, LeaderTurnsStep DEF Turns

LEMMA TurnsAlways == ASSUME InTurn PROVE Spec => [](Work /\ Turns)
<1>1. Init => Work /\ Turns
  BY TypesInit, HandsInit, CountsInit, TurnsInit DEF Work
<1>2. Work /\ Turns /\ [Next]_vars => (Work /\ Turns)'
  BY TypesStep, HandsStep, CountsStep, TurnsStep DEF Work, Counts
<1> QED
  BY <1>1, <1>2, PTL DEF Spec

\* No two threads are ever about to use the queue of a sequence.
THEOREM QueueExclusive == ASSUME InTurn PROVE Spec => []SequenceQueueExclusive
<1>1. Work /\ Turns => SequenceQueueExclusive
  <2> SUFFICES ASSUME Work, Turns, NEW s \in Sequence, NEW th1 \in Thread, NEW th2 \in Thread,
                      AtQueue(th1, s), AtQueue(th2, s)
               PROVE  th1 = th2
    BY DEF SequenceQueueExclusive
  <2>t. Types /\ Hands /\ Counts /\ s \in Group /\ s \in Task /\ SequenceTurns(s)
    BY Kinds DEF Work, Turns
  <2>m. /\ Len(members[s]) \in Nat /\ Popped(s) \in Int
        /\ \A i \in 1..Len(members[s]) : members[s][i] \in Task
    <3>1. Len(queue[s]) \in Nat
      BY <2>t, LenProperties DEF Types, GroupTypes
    <3> QED
      BY <2>t, <3>1, GroupFacts DEF Popped
  \* A thread that reports to s does so for the last task taken from its queue.
  <2>1. ASSUME NEW th \in Thread, pc[th] = "report", Parent(cur[th]) = s
        PROVE  /\ Popped(s) \in 1..Len(members[s]) /\ cur[th] = members[s][Popped(s)]
               /\ Ends(th, cur[th])
    <3>1. cur[th] \in Task /\ cur[th] \in Members(s) /\ Ends(th, cur[th])
      BY <2>t, <2>1, ParentFacts DEF Types, Place, Ends
    <3>2. Unreported(cur[th]) /\ done[cur[th]]
      BY <2>t, <2>1, <3>1 DEF Unreported, Hands, EndDone
    <3>3. PICK i \in 1..Len(members[s]) : members[s][i] = cur[th]
      BY <2>t, <3>1, GroupFacts DEF Members
    <3>4. i <= Popped(s) /\ ~(i < Popped(s))
      BY <2>t, <3>2, <3>3 DEF SequenceTurns, Touched
    <3>5. i = Popped(s)
      BY <2>m, <3>4
    <3> QED
      BY <3>1, <3>3, <3>5
  <2>2. ASSUME NEW th \in Thread, pc[th] = "execute", cur[th] = s PROVE Popped(s) = 0
    BY <2>t, <2>2 DEF SequenceTurns, Began
  <2>3. CASE pc[th1] = "execute" /\ cur[th1] = s /\ pc[th2] = "execute" /\ cur[th2] = s
    BY <2>t, <2>3 DEF Hands, RunOnce, Runs
  <2>4. CASE pc[th1] = "report" /\ Parent(cur[th1]) = s /\ pc[th2] = "report" /\ Parent(cur[th2]) = s
    BY <2>t, <2>m, <2>1, <2>4 DEF Hands, EndOnce
  <2> QED
    BY <2>1, <2>2, <2>3, <2>4 DEF AtQueue
<1> QED
  BY TurnsAlways, <1>1, PTL

-----------------------------------------------------------------------------
(* A function that calls a group ends after it.                               *)

\* A thread comes back to a function when the group it called is done.
CallerWaits(th) ==
  LET n == Len(outer[th])
  IN /\ pc[th] \in {"idle", "verify"} => outer[th] = <<>>
     /\ outer[th] # <<>> /\ pc[th] = "waiting" => cur[th] = Calls[outer[th][n].task]
     /\ outer[th] # <<>> /\ pc[th] \notin {"waiting", "crashed"} => helping[th] = Calls[outer[th][n].task]
     /\ \A k \in 1..(n - 1) : outer[th][k + 1].helping = Calls[outer[th][k].task]
     /\ pc[th] = "called" => notified[Calls[cur[th]]]

NotifiedDone == \A t \in Task : notified[t] => done[t]

CallerLast == \A u \in Unit : done[u] /\ Calls[u] # NoTask => notified[Calls[u]]

Callers == (\A th \in Thread : CallerWaits(th)) /\ NotifiedDone /\ CallerLast

LEMMA CallersInit == Init => Callers
<1> SUFFICES ASSUME Init PROVE Callers
  OBVIOUS
<1>1. ASSUME NEW th \in Thread PROVE CallerWaits(th)
  <2>1. outer[th] = <<>> /\ Len(outer[th]) = 0 /\ pc[th] = "idle"
    BY DEF Init
  <2> QED
    BY <2>1 DEF CallerWaits
<1>2. NotifiedDone /\ CallerLast
  BY Kinds DEF Init, NotifiedDone, CallerLast
<1> QED
  BY <1>1, <1>2 DEF Callers

\* How a step changes what a thread is to come back to.
SameCall(th) ==
  /\ UNCHANGED outer[th]
  /\ pc'[th] \in {"idle", "verify"} =>
       \/ pc[th] \in {"idle", "verify"} \/ outer[th] = <<>>
       \/ pc[th] = "return" /\ helping[th] = NoTask
  /\ pc'[th] = "waiting" =>
       \/ pc[th] = "waiting" /\ UNCHANGED cur[th]
       \/ pc[th] = "idle"
       \/ pc[th] = "help" /\ cur'[th] = helping[th]
  /\ pc'[th] \notin {"waiting", "crashed"} =>
       \/ pc[th] \notin {"waiting", "crashed"} /\ UNCHANGED helping[th]
       \/ pc[th] = "idle" \/ outer[th] = <<>>
  /\ pc'[th] = "called" => pc[th] = "called" /\ UNCHANGED cur[th]

OneMoreCall(th) ==
  /\ pc[th] = "execute" /\ cur[th] \in Unit /\ Calls[cur[th]] # NoTask
  /\ pc'[th] = "help" /\ helping'[th] = Calls[cur[th]]
  /\ \E o \in Suspended : /\ o.task = cur[th] /\ o.helping = helping[th]
                          /\ outer'[th] = Append(outer[th], o)

OneCallLess(th) ==
  /\ pc[th] = "waiting" /\ outer[th] # <<>> /\ notified[cur[th]]
  /\ pc'[th] = "called"
  /\ cur'[th] = outer[th][Len(outer[th])].task
  /\ helping'[th] = outer[th][Len(outer[th])].helping
  /\ outer'[th] = SubSeq(outer[th], 1, Len(outer[th]) - 1)

CallForm(th) ==
  /\ Still(th) /\ \A th2 \in Thread \ {th} : UNCHANGED helping[th2]
  /\ SameCall(th) \/ OneMoreCall(th) \/ OneCallLess(th)
  /\ \A t \in Task : /\ notified[t] => notified'[t]
                     /\ notified'[t] => notified[t] \/ (pc[th] = "notify" /\ t = cur[th])

LEMMA CallKinds ==
  ASSUME Types, [Next]_vars
  PROVE  (\E th \in Thread : CallForm(th)) \/ UNCHANGED vars
<1>t. TaskTypes /\ ThreadTypes
  BY DEF Types
<1> USE DEF At, Goto, On, Add, EnterParent, taskVars, groupVars, addVars, callVars, helpVars
<1>1. ASSUME NEW th \in Thread, TestTask(th) PROVE CallForm(th)
  BY <1>1, <1>t DEF TestTask, CallForm, SameCall, Still, ThreadTypes, TaskTypes
<1>2. ASSUME NEW th \in Thread, AskParent(th) PROVE CallForm(th)
  BY <1>2, <1>t DEF AskParent, CallForm, SameCall, Still, ThreadTypes, TaskTypes
<1>3. ASSUME NEW th \in Thread, PushTask(th) PROVE CallForm(th)
  BY <1>3, <1>t DEF PushTask, CallForm, SameCall, Still, ThreadTypes, TaskTypes
<1>4. ASSUME NEW th \in Thread, Verify(th) PROVE CallForm(th)
  BY <1>4, <1>t DEF Verify, CallForm, SameCall, Still, ThreadTypes, TaskTypes
<1>5. ASSUME NEW th \in Thread, ExecuteTask(th) PROVE CallForm(th)
  BY <1>5, <1>t DEF ExecuteTask, CallForm, SameCall, Still, ThreadTypes, TaskTypes
<1>6. ASSUME NEW th \in Thread, CallGroup(th) PROVE CallForm(th)
  <2>1. [task |-> cur[th], frames |-> frames[th], helping |-> helping[th], helpAt |-> helpAt[th]] \in Suspended
    BY <1>6, <1>t DEF CallGroup, ThreadTypes, Suspended
  <2> QED
    BY <1>6, <1>t, <2>1 DEF CallGroup, CallForm, OneMoreCall, Still, ThreadTypes
<1>7. ASSUME NEW th \in Thread, FinishCaller(th) PROVE CallForm(th)
  BY <1>7, <1>t DEF FinishCaller, CallForm, SameCall, Still, ThreadTypes, TaskTypes
<1>8. ASSUME NEW th \in Thread, ExecuteSequence(th) PROVE CallForm(th)
  BY <1>8, <1>t DEF ExecuteSequence, CallForm, SameCall, Still, ThreadTypes, TaskTypes
<1>9. ASSUME NEW th \in Thread, ExecuteParallel(th) PROVE CallForm(th)
  BY <1>9, <1>t DEF ExecuteParallel, CallForm, SameCall, Still, ThreadTypes, TaskTypes
<1>10. ASSUME NEW th \in Thread, FetchIndex(th) PROVE CallForm(th)
  <2>1. PICK label \in {"spawning", "scheduling", "first", "return"} : Fetched(th, label)
    BY <1>10, FetchKinds
  <2> QED
    BY <1>t, <2>1 DEF Fetched, CallForm, SameCall, Still, ThreadTypes
<1>11. ASSUME NEW th \in Thread, SpawnTask(th) PROVE CallForm(th)
  BY <1>11, <1>t DEF SpawnTask, CallForm, SameCall, Still, ThreadTypes, TaskTypes
<1>12. ASSUME NEW th \in Thread, GrabFirst(th) PROVE CallForm(th)
  BY <1>12, <1>t DEF GrabFirst, CallForm, SameCall, Still, ThreadTypes, TaskTypes
<1>13. ASSUME NEW th \in Thread, NotifyTask(th) PROVE CallForm(th)
  BY <1>13, <1>t DEF NotifyTask, CallForm, SameCall, Still, ThreadTypes, TaskTypes
<1>14. ASSUME NEW th \in Thread, ReportToNobody(th) PROVE CallForm(th)
  BY <1>14, <1>t DEF ReportToNobody, CallForm, SameCall, Still, ThreadTypes, TaskTypes
<1>15. ASSUME NEW th \in Thread, ReportToParallel(th) PROVE CallForm(th)
  BY <1>15, <1>t DEF ReportToParallel, CallForm, SameCall, Still, ThreadTypes, TaskTypes
<1>16. ASSUME NEW th \in Thread, ScheduleNext(th) PROVE CallForm(th)
  BY <1>16, <1>t DEF ScheduleNext, CallForm, SameCall, Still, ThreadTypes, TaskTypes
<1>17. ASSUME NEW th \in Thread, ReportToSequence(th) PROVE CallForm(th)
  BY <1>17, <1>t DEF ReportToSequence, CallForm, SameCall, Still, ThreadTypes, TaskTypes
<1>18. ASSUME NEW th \in Thread, JoinGroup(th) PROVE CallForm(th)
  BY <1>18, <1>t DEF JoinGroup, CallForm, SameCall, Still, ThreadTypes, TaskTypes
<1>19. ASSUME NEW th \in Thread, ResetParent(th) PROVE CallForm(th)
  BY <1>19, <1>t DEF ResetParent, CallForm, SameCall, Still, ThreadTypes, TaskTypes
<1>20. ASSUME NEW th \in Thread, Return(th) PROVE CallForm(th)
  BY <1>20, <1>t DEF Return, CallForm, SameCall, Still, ThreadTypes, TaskTypes
<1>21. ASSUME NEW th \in Thread, Help(th) PROVE CallForm(th)
  BY <1>21, <1>t DEF Help, CallForm, SameCall, Still, ThreadTypes, TaskTypes
<1>22. ASSUME NEW th \in Thread, HelpEnds(th) PROVE CallForm(th)
  BY <1>22, <1>t DEF HelpEnds, CallForm, SameCall, Still, ThreadTypes, TaskTypes
<1>23. ASSUME NEW th \in Thread, WaitReturns(th) PROVE CallForm(th)
  BY <1>23, <1>t DEF WaitReturns, CallForm, SameCall, Still, ThreadTypes, TaskTypes
<1>24. ASSUME NEW th \in Thread, CallReturns(th) PROVE CallForm(th)
  BY <1>24, <1>t DEF CallReturns, CallForm, OneCallLess, Still, ThreadTypes
<1>25. ASSUME NEW th \in Thread, NEW t \in Task, PopTask(th, t) PROVE CallForm(th)
  BY <1>25, <1>t DEF PopTask, CallForm, SameCall, Still, ThreadTypes, TaskTypes
<1>26. ASSUME NEW th \in Thread, NEW t \in Task, Submit(th, t) PROVE CallForm(th)
  BY <1>26, <1>t DEF Submit, CallForm, SameCall, Still, ThreadTypes, TaskTypes
<1>27. ASSUME NEW th \in Thread, NEW t \in Task, ActiveWaitTask(th, t) PROVE CallForm(th)
  BY <1>27, <1>t DEF ActiveWaitTask, CallForm, SameCall, Still, ThreadTypes, TaskTypes
<1>28. ASSUME NEW th \in Thread, NEW t \in Task, Wait(th, t) PROVE CallForm(th)
  BY <1>28, <1>t DEF Wait, CallForm, SameCall, Still, ThreadTypes, TaskTypes
<1>29. ASSUME NEW th \in Thread, NEW g \in Parallel, ActiveWaitGroup(th, g) PROVE CallForm(th)
  BY <1>29, <1>t DEF ActiveWaitGroup, CallForm, SameCall, Still, ThreadTypes, TaskTypes
<1> QED
  BY <1>1, <1>2, <1>3, <1>4, <1>5, <1>6, <1>7, <1>8, <1>9, <1>10, <1>11, <1>12, <1>13, <1>14, <1>15, <1>16, <1>17, <1>18, <1>19, <1>20, <1>21, <1>22, <1>23, <1>24, <1>25, <1>26, <1>27, <1>28, <1>29, Kinds DEF Next, Continue

\* Only the end of a function or of a group makes anything done.
LEMMA DoneKinds ==
  ASSUME Types, [Next]_vars
  PROVE  /\ \A t \in Task : done[t] => done'[t]
         /\ \A t \in Task : done'[t] => done[t] \/ \E th \in Thread : Finish(th) /\ cur[th] = t
<1>1. CASE UNCHANGED vars
  BY <1>1 DEF vars, taskVars
<1>2. ASSUME NEW th \in Thread, Form(th)
      PROVE  /\ \A t \in Task : done[t] => done'[t]
             /\ \A t \in Task : done'[t] => done[t] \/ (Finish(th) /\ cur[th] = t)
  <2>1. CASE Finish(th)
    BY <2>1 DEF Finish
  <2>2. CASE ~Finish(th)
    BY <1>2, <2>2 DEF Form, Wander, Keep, Drop, Tell, TellNobody, Leave, ComeBack, Take,
      TellParallel, TellSequence, Start, Report, Plain
  <2> QED
    BY <2>1, <2>2
<1> QED
  BY StepKinds, <1>1, <1>2

LEMMA CallersStep ==
  ASSUME Types, Hands, Callers, [Next]_vars
  PROVE  Callers'
<1>t. TaskTypes /\ ThreadTypes /\ \A th \in Thread : Place(th) /\ CallerWaits(th)
  BY DEF Types, Callers
<1>d. /\ \A t \in Task : done[t] => done'[t]
      /\ \A t \in Task : done'[t] => done[t] \/ \E th \in Thread : Finish(th) /\ cur[th] = t
  BY DoneKinds
<1>n. \A t \in Task : notified[t] => notified'[t]
  BY CallKinds DEF CallForm, vars, taskVars
<1>c. \A u \in Unit : Calls[u] # NoTask => Calls[u] \in Task
  BY GroupsAssumption, Kinds
\* A thread stands still, ...
<1>1. ASSUME NEW th \in Thread, UNCHANGED <<pc[th], cur[th], outer[th], helping[th]>>
      PROVE  CallerWaits(th)'
  <2>1. pc[th] = "called" => Calls[cur[th]] \in Task
    BY <1>t, <1>c DEF Place
  <2> QED
    BY <1>t, <1>n, <1>1, <2>1 DEF CallerWaits
\* ... moves within a call of activeWait or outside of all, ...
<1>2. ASSUME NEW th \in Thread, SameCall(th) PROVE CallerWaits(th)'
  <2> DEFINE n == Len(outer[th])
  <2>1. outer[th] # <<>> => Calls[outer[th][n].task] # NoTask
    <3> SUFFICES ASSUME outer[th] # <<>> PROVE Calls[outer[th][n].task] # NoTask
      OBVIOUS
    <3>1. outer[th] \in Seq(Suspended)
      BY <1>t DEF ThreadTypes
    <3>2. n \in 1..n /\ \A i \in 1..n : outer[th][i] \in Suspended
      BY <3>1, FrontFacts
    <3> QED
      BY <3>2 DEF Suspended
  <2>2. pc'[th] \in {"idle", "verify"} => outer'[th] = <<>>
    BY <1>t, <1>2, <2>1 DEF CallerWaits, SameCall
  <2>3. outer'[th] # <<>> /\ pc'[th] = "waiting" => cur'[th] = Calls[outer'[th][n].task]
    BY <1>t, <1>2 DEF CallerWaits, SameCall
  <2>4. outer'[th] # <<>> /\ pc'[th] \notin {"waiting", "crashed"} => helping'[th] = Calls[outer'[th][n].task]
    BY <1>t, <1>2 DEF CallerWaits, SameCall
  <2>5. pc'[th] = "called" => notified'[Calls[cur'[th]]]
    BY <1>t, <1>c, <1>n, <1>2 DEF CallerWaits, SameCall, Place
  <2> QED
    BY <1>t, <1>2, <2>2, <2>3, <2>4, <2>5 DEF CallerWaits, SameCall
\* ... calls, from a function that was called from the one before, ...
<1>3. ASSUME NEW th \in Thread, OneMoreCall(th) PROVE CallerWaits(th)'
  <2> DEFINE n == Len(outer[th])
  <2>1. outer[th] \in Seq(Suspended)
    BY <1>t DEF ThreadTypes
  <2>2. PICK o \in Suspended : o.task = cur[th] /\ o.helping = helping[th] /\ outer'[th] = Append(outer[th], o)
    BY <1>3 DEF OneMoreCall
  <2>3. /\ n \in Nat /\ Len(outer'[th]) = n + 1
        /\ \A i \in 1..n : outer'[th][i] = outer[th][i]
        /\ outer'[th][n + 1] = o
    BY <2>1, <2>2, AppendFacts, LenProperties
  <2>4. n # 0 => helping[th] = Calls[outer[th][n].task]
    BY <1>t, <1>3, <2>1, EmptySeq DEF CallerWaits, OneMoreCall
  <2>5. \A k \in 1..(n - 1) : outer[th][k + 1].helping = Calls[outer[th][k].task]
    BY <1>t DEF CallerWaits
  <2>6. \A k \in 1..n : outer'[th][k + 1].helping = Calls[outer'[th][k].task]
    <3> SUFFICES ASSUME NEW k \in 1..n PROVE outer'[th][k + 1].helping = Calls[outer'[th][k].task]
      OBVIOUS
    <3> HIDE DEF n
    <3>1. CASE k = n
      BY <2>2, <2>3, <2>4, <3>1
    <3>2. CASE k # n
      <4>1. k \in 1..(n - 1) /\ k + 1 \in 1..n
        BY <2>3, <3>2
      <4> QED
        BY <2>3, <2>5, <4>1
    <3> QED
      BY <3>1, <3>2
  <2>7. pc'[th] = "help" /\ helping'[th] = Calls[outer'[th][n + 1].task]
    BY <1>3, <2>2, <2>3 DEF OneMoreCall
  <2>8. Len(outer'[th]) - 1 = n
    BY <2>3
  <2> HIDE DEF n
  <2> QED
    BY <2>3, <2>6, <2>7, <2>8 DEF CallerWaits
\* ... and comes back.
<1>4. ASSUME NEW th \in Thread, OneCallLess(th) PROVE CallerWaits(th)'
  <2> DEFINE n == Len(outer[th])
             q == outer'[th]
  <2>1. outer[th] \in Seq(Suspended) /\ outer[th] # <<>>
    BY <1>t, <1>4 DEF ThreadTypes, OneCallLess
  <2>2. /\ n \in Nat \ {0}
        /\ \A i \in 1..n : outer[th][i] \in Suspended
        /\ Len(q) = n - 1
        /\ \A i \in 1..(n - 1) : q[i] = outer[th][i]
        /\ q \in Seq(Suspended)
    BY <1>4, <2>1, FrontFacts DEF OneCallLess
  <2>3. /\ cur[th] = Calls[outer[th][n].task]
        /\ \A k \in 1..(n - 1) : outer[th][k + 1].helping = Calls[outer[th][k].task]
    BY <1>t, <1>4 DEF CallerWaits, OneCallLess
  <2>4. notified'[Calls[cur'[th]]]
    <3>1. cur[th] \in Task /\ notified[cur[th]]
      BY <1>t, <1>4 DEF Place, OneCallLess
    <3> QED
      BY <1>4, <1>n, <2>3, <3>1 DEF OneCallLess
  <2>5. helping'[th] = outer[th][n].helping /\ pc'[th] = "called"
    BY <1>4 DEF OneCallLess
  <2>6. \A k \in 1..((n - 1) - 1) : q[k + 1].helping = Calls[q[k].task]
    <3> SUFFICES ASSUME NEW k \in 1..((n - 1) - 1) PROVE q[k + 1].helping = Calls[q[k].task]
      OBVIOUS
    <3> HIDE DEF n, q
    <3>1. k \in 1..(n - 1) /\ k + 1 \in 1..(n - 1)
      BY <2>2
    <3> QED
      BY <2>2, <2>3, <3>1
  <2>7. q # <<>> => helping'[th] = Calls[q[n - 1].task]
    <3> SUFFICES ASSUME q # <<>> PROVE helping'[th] = Calls[q[n - 1].task]
      OBVIOUS
    <3>1. Len(q) # 0
      BY <2>2, EmptySeq
    <3> HIDE DEF n, q
    <3>2. n - 1 \in 1..(n - 1) /\ (n - 1) + 1 = n
      BY <2>2, <3>1
    <3> QED
      BY <2>2, <2>3, <2>5, <3>2
  <2> HIDE DEF n
  <2> QED
    BY <2>2, <2>4, <2>5, <2>6, <2>7 DEF CallerWaits
<1>5. ASSUME NEW th \in Thread, CallForm(th)
      PROVE  (\A th2 \in Thread : CallerWaits(th2)') /\ NotifiedDone'
  <2>1. CallerWaits(th)'
    BY <1>2, <1>3, <1>4, <1>5 DEF CallForm
  <2>2. ASSUME NEW th2 \in Thread, th2 # th PROVE CallerWaits(th2)'
    BY <1>1, <1>5, <2>2 DEF CallForm, Still
  <2>3. NotifiedDone'
    <3>1. pc[th] = "notify" => done[cur[th]]
      BY <1>t DEF Place, Hands, EndDone, Ends
    <3> QED
      BY <1>d, <1>5, <3>1 DEF CallForm, Callers, NotifiedDone
  <2> QED
    BY <2>1, <2>2, <2>3
<1>6. CASE UNCHANGED vars
  <2>1. \A th \in Thread : UNCHANGED <<pc[th], cur[th], outer[th], helping[th]>>
    BY <1>6 DEF vars, callVars, helpVars
  <2> QED
    BY <1>1, <1>6, <2>1 DEF vars, taskVars, Callers, NotifiedDone, CallerLast
<1>7. CallerLast'
  <2> SUFFICES ASSUME NEW u \in Unit, done'[u], Calls[u] # NoTask PROVE notified'[Calls[u]]
    BY DEF CallerLast
  <2>1. u \in Task /\ Calls[u] \in Task
    BY <1>c, Kinds
  <2>2. CASE done[u]
    BY <1>n, <2>1, <2>2 DEF Callers, CallerLast
  <2>3. CASE ~done[u]
    <3>1. PICK th \in Thread : Finish(th) /\ cur[th] = u
      BY <1>d, <2>1, <2>3
    <3>2. pc[th] = "called"
      BY <3>1, Kinds DEF Finish
    <3> QED
      BY <1>t, <1>n, <2>1, <3>1, <3>2 DEF CallerWaits
  <2> QED
    BY <2>2, <2>3
<1> QED
  BY CallKinds, <1>5, <1>6, <1>7 DEF Callers

-----------------------------------------------------------------------------
(* What groups promise.                                                      *)

\* Whatever is on its way has all that comes before it done.
InOrder == \A t \in Unit : Touched(t) => \A b \in before[t] : done[b]

LEMMA TurnsInOrder ==
  ASSUME InTurn, Work, Turns
  PROVE  InOrder
<1> SUFFICES ASSUME NEW t \in Unit, Touched(t), NEW b \in before[t] PROVE done[b]
  BY DEF InOrder
<1>t. t \in Task
  BY Kinds
\* What t is a part of is on its way as well, or run by those who wait for it.
<1> DEFINE C == {x \in Task : Touched(x) \/ x \in Free}
<1>1. ASSUME NEW x \in C, NEW g \in Group, x \in Members(g) PROVE g \in C
  <2>1. CASE x \in Free
    BY <1>1, <2>1, FreeFacts
  <2>2. CASE Touched(x) /\ g \in Parallel
    <3>1. Started(g)
      BY <1>1, <2>2 DEF Turns, GroupTurns
    <3> QED
      BY <3>1, Kinds DEF Started, Touched
  <2>3. CASE Touched(x) /\ g \in Sequence
    <3>1. PICK i \in 1..Len(members[g]) : members[g][i] = x
      BY <1>1, GroupFacts DEF Members
    <3>2. i <= Popped(g) /\ (Began(g) \/ Popped(g) = 0)
      BY <2>3, <3>1 DEF Turns, SequenceTurns
    <3>3. Began(g)
      BY <3>1, <3>2
    <3> QED
      BY <3>3, Kinds DEF Began, Touched
  <2> QED
    BY <1>1, <2>1, <2>2, <2>3 DEF Group
<1>2. ASSUME NEW x \in C, NEW u \in Unit, Calls[u] = x, x # NoTask PROVE u \in C
  BY <1>2, FreeFacts, Kinds DEF Turns, CallTurns, Touched
<1>3. Line(t) \subseteq C
  <2>1. \A x \in C : Above(x) \subseteq C
    <3> HIDE DEF C
    <3> QED
      BY <1>1, <1>2 DEF Above
  <2>2. C \in SUBSET Task /\ t \in C
    BY <1>t
  <2> HIDE DEF C
  <2> QED
    BY <1>t, <2>1, <2>2, LineFacts
<1>s. PICK s \in Sequence :
         \E i, j \in DOMAIN members[s] : b = members[s][i] /\ i < j /\ members[s][j] \in Line(t)
  BY DEF before
<1>4. PICK i \in DOMAIN members[s], j \in DOMAIN members[s] :
        b = members[s][i] /\ i < j /\ members[s][j] \in Line(t)
  BY <1>s
<1>5. /\ s \in Group /\ Len(members[s]) \in Nat /\ DOMAIN members[s] = 1..Len(members[s])
      /\ members[s][j] \in Members(s) /\ Popped(s) \in Int
  <2>1. Len(queue[s]) \in Nat
    BY LenProperties DEF Work, Types, GroupTypes
  <2> QED
    BY <1>4, <2>1, GroupFacts, Kinds DEF Popped
<1>6. Touched(members[s][j])
  BY <1>3, <1>4, <1>5 DEF InTurn
<1>7. j <= Popped(s)
  BY <1>5, <1>6 DEF Turns, SequenceTurns
<1>8. i < Popped(s)
  BY <1>4, <1>5, <1>7
<1> QED
  BY <1>4, <1>5, <1>8 DEF Turns, SequenceTurns, Unreported

\* The steps of ForkJoin change one task.
LEMMA OneChange ==
  ASSUME NEW t \in Task, NEW v,
         \A x \in Task \ {t} : /\ done'[x] <=> done[x]
                               /\ x \in Unit /\ ~done[x] => (grabbed'[x] <=> grabbed[x]),
         v = IF done'[t] THEN "done" ELSE IF t \in Unit /\ grabbed'[t] THEN "running" ELSE "idle"
  PROVE  state' = [state EXCEPT ![t] = v]
BY DEF state

LEMMA NoChange ==
  ASSUME \A x \in Task : /\ done'[x] <=> done[x]
                         /\ x \in Unit /\ ~done[x] => (grabbed'[x] <=> grabbed[x])
  PROVE  state' = state
BY DEF state

\* A unit task that is taken starts, and nothing but a unit task does.
LEMMA TakenStarts ==
  ASSUME Types, Hands, InOrder', NEW t \in Task, ~grabbed[t],
         \A x \in Task : (done'[x] <=> done[x]) /\ (grabbed'[x] <=> grabbed[x] \/ x = t)
  PROVE  [Promise!Next]_state
<1>1. CASE t \in Unit
  <2>1. ~done[t] /\ ~done'[t] /\ grabbed'[t]
    BY <1>1 DEF Hands, UnitGrabbed
  <2>2. state[t] = "idle"
    BY <2>1 DEF state
  <2>3. \A b \in before[t] : state[b] = "done"
    <3> SUFFICES ASSUME NEW b \in before[t] PROVE state[b] = "done"
      OBVIOUS
    <3>1. b \in Task
      <4>1. PICK s \in Sequence : \E i \in DOMAIN members[s] : b = members[s][i]
        BY <1>1 DEF before
      <4> QED
        BY <4>1, GroupFacts, Kinds
    <3>2. done'[b]
      BY <1>1, <2>1 DEF InOrder, Touched
    <3> QED
      BY <3>1, <3>2 DEF state
  <2>4. state' = [state EXCEPT ![t] = "running"]
    BY <1>1, <2>1, OneChange
  <2>5. Promise!Start(t)
    BY <2>2, <2>3, <2>4 DEF Promise!Start
  <2> QED
    BY <1>1, <2>5 DEF Promise!Next
<1>2. CASE t \notin Unit
  BY <1>2, NoChange
<1> QED
  BY <1>1, <1>2

\* A function ends after what it called, a group after its tasks.
LEMMA FinishFinishes ==
  ASSUME Work, Callers, NEW th \in Thread, Finish(th)
  PROVE  [Promise!Next]_state
<1>t. Types /\ Hands /\ Counts /\ TaskTypes /\ Place(th) /\ CallerWaits(th)
  BY DEF Work, Types, Callers
<1> DEFINE t == cur[th]
<1>1. t \in Task /\ UNCHANGED grabbed /\ \A x \in Task : done'[x] <=> done[x] \/ x = t
  BY <1>t, Kinds DEF Finish, Place
<1>2. state' = [state EXCEPT ![t] = "done"]
  BY <1>1, OneChange
<1>3. CASE t \in Unit
  <2>1. grabbed[t] /\ ~done[t]
    BY <1>t, <1>1, <1>3, Kinds DEF Hands, RunGrabbed, Runs, Finish
  <2>2. state[t] = "running"
    BY <1>1, <1>3, <2>1 DEF state
  <2>3. ASSUME NEW g \in {Calls[t]} \ {NoTask} PROVE state[g] = "done"
    <3>1. g \in Task
      BY <1>3, GroupsAssumption, Kinds
    <3>2. pc[th] = "called"
      BY <1>3, Kinds DEF Finish
    <3>3. done[g]
      BY <1>t, <3>1, <3>2 DEF CallerWaits, Callers, NotifiedDone
    <3> QED
      BY <3>1, <3>3 DEF state
  <2>4. Promise!Finish(t)
    BY <1>2, <1>3, <2>2, <2>3 DEF Promise!Finish
  <2> QED
    BY <1>3, <2>4 DEF Promise!Next
<1>4. CASE t \in Group
  <2>1. pc[th] = "join"
    BY <1>4, Kinds DEF Finish
  <2>2. ~done[t]
    BY <1>t, <1>1, <2>1 DEF Hands, EndDone, Ends
  <2>3. state[t] = "idle"
    BY <1>1, <1>4, <2>2, Kinds DEF state
  <2>4. Left(t) = {}
    BY <1>t, <1>4, <2>1 DEF Counts, NothingLeft, Ends
  <2>5. \A x \in Members(t) : state[x] = "done"
    BY <1>4, <2>4, GroupFacts DEF Left, Unreported, state
  <2>6. Promise!Join(t)
    BY <1>2, <1>4, <2>3, <2>5 DEF Promise!Join
  <2> QED
    BY <1>4, <2>6 DEF Promise!Next
<1> QED
  BY <1>1, <1>3, <1>4 DEF Task

LEMMA StepImplements ==
  ASSUME Work, Turns, Callers, InOrder', [Next]_vars
  PROVE  [Promise!Next]_state
<1>t. Types /\ Hands
  BY DEF Work
<1>1. CASE UNCHANGED vars
  BY <1>1, NoChange DEF vars, taskVars
<1>2. ASSUME NEW th \in Thread, Form(th) PROVE [Promise!Next]_state
  <2>1. CASE Finish(th)
    BY <2>1, FinishFinishes
  <2>2. ASSUME NEW t \in Task, Take(th, t) PROVE [Promise!Next]_state
    BY <1>t, <2>2, TakenStarts DEF Take, Plain
  <2>3. ASSUME NEW s \in Sequence, Start(th, s) PROVE [Promise!Next]_state
    <3> DEFINE t == Head(queue[s])
    <3>1. t \in Task
      BY <1>t, <2>3, QueueHead DEF Turns, Start
    <3>2. UNCHANGED done /\ \A x \in Task : grabbed'[x] <=> grabbed[x] \/ x = t
      BY <2>3 DEF Start
    <3>3. CASE grabbed[t]
      BY <3>1, <3>2, <3>3, NoChange
    <3>4. CASE ~grabbed[t]
      BY <1>t, <3>1, <3>2, <3>4, TakenStarts
    <3> QED
      BY <3>3, <3>4
  <2>4. CASE \/ Wander(th) \/ Keep(th) \/ Drop(th) \/ Tell(th) \/ TellNobody(th)
             \/ Leave(th) \/ ComeBack(th)
             \/ \E g \in Parallel : TellParallel(th, g)
             \/ \E s \in Sequence : TellSequence(th, s)
    <3>1. UNCHANGED done
      BY <2>4 DEF Wander, Keep, Drop, Tell, TellNobody, Leave, ComeBack, TellParallel,
        TellSequence, Report, Plain
    <3>2. \A x \in Task : ~done[x] => (grabbed'[x] <=> grabbed[x])
      BY <2>4 DEF Wander, Keep, Drop, Tell, TellNobody, Leave, ComeBack, TellParallel,
        TellSequence, Report, Plain
    <3> QED
      BY <3>1, <3>2, NoChange
  <2> QED
    BY <1>2, <2>1, <2>2, <2>3, <2>4 DEF Form
<1> QED
  BY <1>t, StepKinds, <1>1, <1>2

LEMMA CallersAlways == ASSUME InTurn PROVE Spec => [](Work /\ Turns /\ Callers)
<1>1. Callers /\ Work /\ [Next]_vars => Callers'
  BY CallersStep DEF Work
<1> QED
  BY TurnsAlways, CallersInit, <1>1, PTL DEF Spec

\* Tasks are run once, a group is done after all of its tasks and once, a function that
\* waits for a group ends after it, and the tasks of a sequence are run in its order.
THEOREM GroupsKeepPromise == ASSUME InTurn PROVE Spec => ImplementsForkJoin
<1>1. Init => Promise!Init
  <2> SUFFICES ASSUME Init PROVE Promise!Init
    OBVIOUS
  <2>1. \A t \in Task : ~done[t] /\ ~grabbed[t]
    BY DEF Init
  <2> QED
    BY <2>1 DEF Promise!Init, Promise!Task, Task, state
<1>2. Work /\ Turns => InOrder
  BY TurnsInOrder
<1>3. Work /\ Turns /\ Callers /\ InOrder' /\ [Next]_vars => [Promise!Next]_state
  BY StepImplements
<1> QED
  BY CallersAlways, <1>1, <1>2, <1>3, PTL DEF Spec, ImplementsForkJoin, Promise!Spec

-----------------------------------------------------------------------------
(* A task of a group that nobody helps is handed out once.                   *)

\* What a thread takes out of its turn is not among these tasks.
Once ==
  {t \in Task : /\ Parent(t) # NoTask /\ t \notin Free
                /\ Parent(t) \notin ActivelyWaited \cup Called}

LEMMA OnceTasks ==
  /\ Once \subseteq Task
  /\ \A t \in Once : Parent(t) \in Group
BY ParentFacts DEF Once

\* Tasks that inherit their priority are some of them,
LEMMA InheritOnce == ASSUME NoRace PROVE Inherit \subseteq Once
<1> SUFFICES ASSUME NEW t \in Inherit PROVE t \in Once
  OBVIOUS
<1>1. t \in Task /\ Parent(t) \in Group /\ Parent(t) # NoTask /\ t \notin Free
  BY InheritTasks, ParentFacts DEF NoRace
<1>2. Parent(t) \notin ActivelyWaited \cup Called
  <2>1. t \in Members(Parent(t))
    BY <1>1, ParentFacts
  <2>2. ActivelyWaited \cap Group \subseteq Parallel
    BY GroupsAssumption, Kinds
  <2> QED
    BY <1>1, <2>1, <2>2 DEF NoRace
<1> QED
  BY <1>1, <1>2 DEF Once


AddedOnce ==
  \A t \in Once, th \in Thread : adding[th] = t =>
    /\ ~Queued(t)
    /\ \A th2 \in Thread : adding[th2] = t => th2 = th

\* A thread has fetched the index of a task of a parallel group: nobody else does,
FetchedOnce ==
  \A th \in Thread : pc[th] \in {"spawning", "scheduling"} =>
    /\ at[th] < nextIndex[cur[th]]
    /\ members[cur[th]][at[th] + 1] \in Once => ~Touched(members[cur[th]][at[th] + 1])
    /\ \A th2 \in Thread :
         pc[th2] \in {"spawning", "scheduling"} /\ cur[th2] = cur[th] /\ at[th2] = at[th] => th2 = th

\* nobody has fetched those after it, and the first task is run by who executes the group.
NotFetched ==
  \A g \in Parallel : \A i \in 1..Len(members[g]) : members[g][i] \in Once =>
    /\ i > nextIndex[g] => ~Touched(members[g][i])
    /\ i = 1 => \A th \in Thread : adding[th] # members[g][i]

HelpsAsked == \A th \in Thread, g \in Task : Helps(th, g) => g \in ActivelyWaited \cup Called

Fresh == AddedOnce /\ FetchedOnce /\ NotFetched /\ HelpsAsked

LEMMA FreshInit == Init => Fresh
<1> SUFFICES ASSUME Init PROVE Fresh
  OBVIOUS
<1>1. \A t \in Task : ~Touched(t) /\ \A th \in Thread : adding[th] # t
  BY Kinds DEF Init, Touched
<1>2. AddedOnce
  BY <1>1, OnceTasks DEF AddedOnce
<1>3. FetchedOnce /\ HelpsAsked
  BY Kinds DEF Init, FetchedOnce, HelpsAsked, Helps
<1>4. NotFetched
  BY <1>1, OnceTasks DEF NotFetched
<1> QED
  BY <1>2, <1>3, <1>4 DEF Fresh

\* What a group is made of has one place in it.
LEMMA OnePlace ==
  ASSUME NEW g1 \in Group, NEW g2 \in Group,
         NEW i \in 1..Len(members[g1]), NEW j \in 1..Len(members[g2]), members[g1][i] = members[g2][j]
  PROVE  g1 = g2 /\ i = j
BY GroupFacts, GroupsAssumption

\* Who hands out such a task.
LEMMA OnceHandedOut ==
  ASSUME InTurn, Work, Turns, HelpsAsked, NEW th \in Thread, NEW t \in Once, HandsOut(th, t)
  PROVE  \/ /\ pc[th] \in {"spawning", "scheduling"} /\ cur[th] \in Parallel
            /\ at[th] + 1 \in 2..Len(members[cur[th]]) /\ t = members[cur[th]][at[th] + 1]
         \/ /\ pc[th] = "first" /\ cur[th] \in Parallel
            /\ t = members[cur[th]][1]
         \/ pc[th] = "join" /\ grabbed[t]
         \/ ~Touched(t) /\ \E s \in Sequence : t \in Members(s)
<1>t. Types /\ Hands /\ Counts /\ Place(th) /\ ThreadTypes
  BY DEF Work, Types
<1>0. t \in Task /\ Parent(t) \in Group /\ t \in Members(Parent(t))
  BY OnceTasks, ParentFacts DEF Once
<1>1. t \notin Root /\ t \notin ActivelyWaited /\ t \notin Free /\ t \notin Called
  BY <1>0, FreeFacts, GroupsAssumption DEF InTurn, Once
<1>2. ~(pc[th] = "execute" /\ cur[th] \in Unit /\ Calls[cur[th]] = t)
  BY <1>0, <1>1, Kinds DEF Called
<1>3. ASSUME NEW g \in Parallel, t \in Members(g) PROVE ~(pc[th] = "help" /\ helping[th] = g)
  BY <1>3, ParentFacts, Kinds DEF HelpsAsked, Helps, Once
<1>4. CASE pc[th] \in {"spawning", "scheduling"} /\ cur[th] \in Parallel /\ t = members[cur[th]][at[th] + 1]
  <2>1. at[th] \in 1..(Len(members[cur[th]]) - 1) /\ Len(members[cur[th]]) \in Nat
    BY <1>t, <1>4, GroupFacts, Kinds DEF Place
  <2>2. at[th] + 1 \in 2..Len(members[cur[th]])
    BY <2>1
  <2> QED
    BY <1>4, <2>2
<1>5. CASE pc[th] = "join" /\ cur[th] = t
  <2>1. t \in Group
    BY <1>t, <1>5 DEF Place
  <2>2. grabbed[t]
    BY <1>t, <1>1, <1>5, <2>1, JoinStarted DEF Group, Started
  <2> QED
    BY <1>5, <2>2
<1>6. ASSUME NEW s \in Sequence, queue[s] # <<>>, t = Head(queue[s])
      PROVE  ~Touched(t) /\ t \in Members(s)
  <2>1. /\ Popped(s) \in Nat /\ Popped(s) + 1 <= Len(members[s]) /\ Len(members[s]) \in Nat
        /\ t = members[s][Popped(s) + 1] /\ t \in Members(s)
    BY <1>t, <1>6, QueueHead DEF Turns
  <2>2. Popped(s) + 1 \in 1..Len(members[s]) /\ ~(Popped(s) + 1 <= Popped(s))
    BY <2>1
  <2> QED
    BY <2>1, <2>2 DEF Turns, SequenceTurns
<1> QED
  BY <1>1, <1>2, <1>3, <1>4, <1>5, <1>6 DEF HandsOut

\* What is being added is handed out no more, and what is handed out to scheduler::add is
\* out for the first time.
LEMMA HandedOutOnce ==
  ASSUME InTurn, Work, Turns, Fresh, NEW th \in Thread, NEW t \in Once, HandsOut(th, t)
  PROVE  /\ \A th2 \in Thread : adding[th2] # t
         /\ pc[th] \notin {"first", "help", "join"} => ~Touched(t)
<1>1. CASE /\ pc[th] \in {"spawning", "scheduling"} /\ cur[th] \in Parallel
           /\ at[th] + 1 \in 2..Len(members[cur[th]]) /\ t = members[cur[th]][at[th] + 1]
  BY <1>1 DEF Fresh, FetchedOnce, Touched
<1>2. CASE pc[th] = "first" /\ cur[th] \in Parallel /\ t = members[cur[th]][1]
  <2>1. 1 \in 1..Len(members[cur[th]])
    BY <1>2, GroupFacts, Kinds
  <2> QED
    BY <1>2, <2>1 DEF Fresh, NotFetched
<1>3. CASE pc[th] = "join" /\ grabbed[t]
  BY <1>3 DEF Fresh, AddedOnce, Queued
<1>4. CASE ~Touched(t)
  BY <1>4 DEF Touched
<1> QED
  BY <1>1, <1>2, <1>3, <1>4, OnceHandedOut DEF Fresh

LEMMA AddedOnceStep ==
  ASSUME InTurn, Work, Turns, Fresh, NEW th \in Thread, Hand(th)
  PROVE  AddedOnce'
<1> SUFFICES ASSUME NEW t \in Once, NEW th1 \in Thread, adding'[th1] = t
             PROVE  ~Queued(t)' /\ \A th2 \in Thread : adding'[th2] = t => th2 = th1
  BY DEF AddedOnce, Queued
<1>0. t \in Task
  BY OnceTasks
<1>1. CASE adding[th1] = t
  <2>1. ~Queued(t) /\ \A th2 \in Thread : adding[th2] = t => th2 = th1
    BY <1>1 DEF Fresh, AddedOnce
  <2>2. ~HandsOut(th, t)
    BY <1>1, HandedOutOnce
  <2> QED
    BY <1>0, <2>1, <2>2 DEF Hand
<1>2. CASE adding[th1] # t
  <2>1. th1 = th /\ HandsOut(th, t) /\ ~Touched(t)
    BY <1>0, <1>2, HandedOutOnce DEF Hand
  <2>2. ~Queued(t) /\ \A th2 \in Thread : adding[th2] # t
    BY <2>1 DEF Touched, Queued
  <2> QED
    BY <1>0, <2>1, <2>2 DEF Hand
<1> QED
  BY <1>1, <1>2

\* Nobody but who has fetched it touches a task of a parallel group, but the first.
LEMMA TouchedByFetch ==
  ASSUME InTurn, Work, Turns, Fresh, NEW th \in Thread, Hand(th),
         NEW g \in Parallel, NEW i \in 2..Len(members[g]), members[g][i] \in Once,
         ~Touched(members[g][i]), Touched(members[g][i])'
  PROVE  /\ pc[th] \in {"spawning", "scheduling"} /\ cur[th] = g /\ at[th] + 1 = i
         /\ pc'[th] \notin {"spawning", "scheduling"}
<1> DEFINE t == members[g][i]
<1>0. t \in Task /\ g \in Group /\ i \in 1..Len(members[g]) /\ i # 1 /\ t \in Members(g)
  <2>1. Len(members[g]) \in Nat
    BY GroupFacts, Kinds
  <2>2. i \in 1..Len(members[g]) /\ i # 1
    BY <2>1
  <2> QED
    BY <2>2, GroupFacts, Kinds
<1>1. ~Queued(t) /\ \A th2 \in Thread : adding[th2] # t
  BY DEF Queued, Touched
<1>2. Queued(t)' \/ \E th2 \in Thread : adding'[th2] = t
  BY DEF Queued, Touched
<1>3. HandsOut(th, t)
  BY <1>0, <1>1, <1>2 DEF Hand
<1>4. pc'[th] \notin {"spawning", "scheduling"}
  <2> SUFFICES ASSUME pc'[th] \in {"spawning", "scheduling"} PROVE FALSE
    OBVIOUS
  <2>1. ~ \E label \in {"spawning", "scheduling", "first", "return"} : Fetched(th, label)
    BY <1>1, <1>2 DEF Fetched, taskVars, addVars, Queued
  <2> QED
    BY <1>0, <1>1, <1>2, <2>1 DEF Hand
<1>5. ASSUME cur[th] \in Parallel, t = members[cur[th]][1] PROVE FALSE
  <2>1. 1 \in 1..Len(members[cur[th]]) /\ cur[th] \in Group
    BY <1>5, GroupFacts, Kinds
  <2> QED
    BY <1>0, <1>5, <2>1, OnePlace
<1>6. ~grabbed[t]
  BY DEF Touched
<1>7. \A s \in Sequence : t \notin Members(s)
  BY <1>0, ParentFacts, Kinds
<1>8. /\ pc[th] \in {"spawning", "scheduling"} /\ cur[th] \in Parallel
      /\ at[th] + 1 \in 2..Len(members[cur[th]]) /\ t = members[cur[th]][at[th] + 1]
  BY <1>3, <1>5, <1>6, <1>7, OnceHandedOut DEF Fresh
<1>9. cur[th] = g /\ at[th] + 1 = i
  <2>1. cur[th] \in Group /\ Len(members[cur[th]]) \in Nat
    BY <1>8, GroupFacts, Kinds
  <2>2. at[th] + 1 \in 1..Len(members[cur[th]])
    BY <1>8, <2>1
  <2> QED
    BY <1>0, <1>8, <2>1, <2>2, OnePlace
<1> QED
  BY <1>4, <1>8, <1>9

LEMMA FetchedOnceStep ==
  ASSUME InTurn, Work, Turns, Fresh, NEW th \in Thread, Hand(th), Types'
  PROVE  FetchedOnce'
<1>t. /\ ThreadTypes /\ GroupTypes /\ ThreadTypes' /\ GroupTypes'
      /\ \A th1 \in Thread : Place(th1) /\ Place(th1)'
  BY DEF Work, Types
<1> SUFFICES ASSUME NEW th1 \in Thread, pc'[th1] \in {"spawning", "scheduling"},
                    NEW g, NEW i, g = cur'[th1], i = at'[th1]
             PROVE  /\ i < nextIndex'[g]
                    /\ members[g][i + 1] \in Once => ~Touched(members[g][i + 1])'
                    /\ \A th2 \in Thread :
                         /\ pc'[th2] \in {"spawning", "scheduling"} /\ cur'[th2] = g /\ at'[th2] = i
                         => th2 = th1
  BY DEF FetchedOnce, Touched
<1>0. /\ g \in Parallel /\ g \in Group /\ i \in Nat
      /\ i + 1 \in 2..Len(members[g]) /\ i + 1 \in 1..Len(members[g])
      /\ nextIndex[g] \in Nat
  <2>1. g \in Parallel /\ i \in 1..(Len(members[g]) - 1)
    BY <1>t DEF Place
  <2>2. g \in Group /\ Len(members[g]) \in Nat
    BY <2>1, GroupFacts, Kinds
  <2> QED
    BY <1>t, <2>1, <2>2 DEF GroupTypes
\* The index has just been fetched, ...
<1>1. ASSUME NEW label \in {"spawning", "scheduling", "first", "return"}, Fetched(th, label), th1 = th
      PROVE  /\ i < nextIndex'[g]
             /\ members[g][i + 1] \in Once => ~Touched(members[g][i + 1])'
             /\ \A th2 \in Thread :
                  /\ pc'[th2] \in {"spawning", "scheduling"} /\ cur'[th2] = g /\ at'[th2] = i
                  => th2 = th1
  <2>1. cur[th] = g /\ i = nextIndex[g] /\ nextIndex'[g] = i + 1
    BY <1>t, <1>0, <1>1 DEF Fetched, ThreadTypes, GroupTypes
  <2>2. members[g][i + 1] \in Once => ~Touched(members[g][i + 1])
    <3>1. i + 1 > nextIndex[g]
      BY <1>0, <2>1
    <3> QED
      BY <1>0, <3>1 DEF Fresh, NotFetched
  <2>3. \A t : Touched(t)' <=> Touched(t)
    BY <1>1 DEF Fetched, Touched, taskVars, addVars
  <2>4. ASSUME NEW th2 \in Thread, th2 # th, pc'[th2] \in {"spawning", "scheduling"},
               cur'[th2] = g, at'[th2] = i
        PROVE  FALSE
    <3>1. pc[th2] \in {"spawning", "scheduling"} /\ cur[th2] = g /\ at[th2] = i
      BY <2>4 DEF Hand
    <3>2. i < nextIndex[g]
      BY <3>1 DEF Fresh, FetchedOnce
    <3> QED
      BY <1>0, <2>1, <3>2
  <2> QED
    BY <1>0, <1>1, <2>1, <2>2, <2>3, <2>4
\* ... or before: by a thread that has not moved, or another one has moved.
<1>2. ASSUME UNCHANGED <<pc[th1], cur[th1], at[th1]>>
      PROVE  /\ i < nextIndex[g]
             /\ members[g][i + 1] \in Once => ~Touched(members[g][i + 1])
             /\ \A th2 \in Thread :
                  /\ pc[th2] \in {"spawning", "scheduling"} /\ cur[th2] = g /\ at[th2] = i
                  => th2 = th1
  BY <1>2 DEF Fresh, FetchedOnce
<1>3. ASSUME UNCHANGED <<pc[th1], cur[th1], at[th1]>>, members[g][i + 1] \in Once
      PROVE  ~Touched(members[g][i + 1])'
  <2> SUFFICES ASSUME Touched(members[g][i + 1])' PROVE FALSE
    OBVIOUS
  <2>1. /\ pc[th] \in {"spawning", "scheduling"} /\ cur[th] = g /\ at[th] + 1 = i + 1
        /\ pc'[th] \notin {"spawning", "scheduling"}
    BY <1>0, <1>2, <1>3, TouchedByFetch
  <2>2. at[th] = i
    <3>1. at[th] \in Nat
      BY <1>t DEF ThreadTypes
    <3> QED
      BY <1>0, <2>1, <3>1
  <2>3. th = th1
    BY <1>2, <1>3, <2>1, <2>2
  <2> QED
    BY <2>1, <2>3
<1>4. ASSUME NEW label \in {"spawning", "scheduling", "first", "return"}, Fetched(th, label), th1 # th
      PROVE  /\ i < nextIndex'[g]
             /\ \A th2 \in Thread :
                  /\ pc'[th2] \in {"spawning", "scheduling"} /\ cur'[th2] = g /\ at'[th2] = i
                  => th2 = th1
  <2>1. UNCHANGED <<pc[th1], cur[th1], at[th1]>>
    BY <1>4 DEF Hand
  <2>2. cur[th] \in Parallel /\ cur'[th] = cur[th]
    BY <1>t, <1>4 DEF Fetched, Place
  <2>3. /\ at'[th] = nextIndex[cur[th]]
        /\ nextIndex'[g] = IF cur[th] = g THEN nextIndex[g] + 1 ELSE nextIndex[g]
    BY <1>t, <1>0, <1>4, <2>2 DEF Fetched, ThreadTypes, GroupTypes
  <2>4. i < nextIndex[g]
    BY <1>2, <2>1
  <2>5. i < nextIndex'[g] /\ ~(cur'[th] = g /\ at'[th] = i)
    BY <1>0, <2>2, <2>3, <2>4
  <2> QED
    BY <1>2, <2>1, <2>5 DEF Hand
<1>5. CASE ~ \E label \in {"spawning", "scheduling", "first", "return"} : Fetched(th, label)
  <2>1. UNCHANGED nextIndex /\ UNCHANGED <<pc[th1], cur[th1], at[th1]>>
    BY <1>5 DEF Hand
  <2>2. ASSUME NEW th2 \in Thread, pc'[th2] \in {"spawning", "scheduling"}
        PROVE  UNCHANGED <<pc[th2], cur[th2], at[th2]>>
    BY <1>5, <2>2 DEF Hand
  <2> QED
    BY <1>2, <1>3, <2>1, <2>2
<1>6. th1 # th => UNCHANGED <<pc[th1], cur[th1], at[th1]>>
  BY DEF Hand
<1> QED
  BY <1>1, <1>3, <1>4, <1>5, <1>6

LEMMA NotFetchedStep ==
  ASSUME InTurn, Work, Turns, Fresh, NEW th \in Thread, Hand(th), Types'
  PROVE  NotFetched'
<1>t. ThreadTypes /\ GroupTypes /\ GroupTypes' /\ Place(th)
  BY DEF Work, Types
<1> SUFFICES ASSUME NEW g \in Parallel, NEW i \in 1..Len(members[g]), NEW t \in Once, t = members[g][i]
             PROVE  /\ i > nextIndex'[g] => ~Touched(t)'
                    /\ i = 1 => \A th1 \in Thread : adding'[th1] # t
  BY DEF NotFetched, Touched
<1>0. g \in Group /\ Len(members[g]) \in Nat /\ nextIndex[g] \in Nat \ {0} /\ t \in Members(g) /\ t \in Task
  BY <1>t, GroupFacts, Kinds DEF GroupTypes
<1>1. nextIndex'[g] \in Nat /\ nextIndex'[g] >= nextIndex[g]
  <2>1. CASE UNCHANGED nextIndex
    BY <1>0, <2>1
  <2>2. ASSUME NEW label \in {"spawning", "scheduling", "first", "return"}, Fetched(th, label)
        PROVE  nextIndex'[g] \in Nat /\ nextIndex'[g] >= nextIndex[g]
    BY <1>t, <1>0, <2>2 DEF Fetched, GroupTypes
  <2> QED
    BY <2>1, <2>2 DEF Hand
<1>2. ASSUME i > nextIndex'[g], Touched(t)' PROVE FALSE
  <2>1. i > nextIndex[g] /\ i \in 2..Len(members[g])
    BY <1>0, <1>1, <1>2
  <2>2. ~Touched(t)
    BY <2>1 DEF Fresh, NotFetched
  <2>3. pc[th] \in {"spawning", "scheduling"} /\ cur[th] = g /\ at[th] + 1 = i
    BY <1>2, <2>1, <2>2, TouchedByFetch
  <2>4. at[th] < nextIndex[g] /\ at[th] \in Nat
    BY <1>t, <2>3 DEF Fresh, FetchedOnce, ThreadTypes
  <2> QED
    BY <1>0, <2>1, <2>3, <2>4
<1>3. ASSUME i = 1, NEW th1 \in Thread, adding'[th1] = t PROVE FALSE
  <2>1. adding[th1] # t
    BY <1>3 DEF Fresh, NotFetched
  <2>2. HandsOut(th, t) /\ pc[th] \notin {"first", "help", "join"}
    BY <1>0, <1>3, <2>1 DEF Hand
  <2>3. \A s \in Sequence : t \notin Members(s)
    BY <1>0, ParentFacts, Kinds
  <2>4. /\ cur[th] \in Parallel /\ at[th] + 1 \in 2..Len(members[cur[th]])
        /\ t = members[cur[th]][at[th] + 1]
    BY <2>2, <2>3, OnceHandedOut DEF Fresh
  <2>5. cur[th] \in Group /\ Len(members[cur[th]]) \in Nat
    BY <2>4, GroupFacts, Kinds
  <2>6. at[th] + 1 \in 1..Len(members[cur[th]]) /\ at[th] + 1 # 1
    BY <2>4, <2>5
  <2> QED
    BY <1>0, <1>3, <2>4, <2>5, <2>6, OnePlace
<1> QED
  BY <1>2, <1>3

LEMMA FreshStep ==
  ASSUME InTurn, Work, Turns, Fresh, [Next]_vars
  PROVE  Fresh'
<1>t. Types /\ Hands /\ Types'
  BY TypesStep DEF Work
<1>1. HelpsAsked'
  <2> SUFFICES ASSUME NEW th \in Thread, NEW g \in Task, Helps(th, g)' PROVE g \in ActivelyWaited \cup Called
    BY DEF HelpsAsked, Helps
  <2>1. CASE Helps(th, g)
    BY <2>1 DEF Fresh, HelpsAsked
  <2>2. CASE ~Helps(th, g)
    <3>1. CASE Led(th)
      BY <1>t, <2>2, <3>1, HelpKinds, Kinds DEF Called
    <3>2. CASE ~Led(th)
      BY <1>t, <2>2, <3>2, LedKinds DEF Led, Still, Helps, vars, helpVars
    <3> QED
      BY <3>1, <3>2
  <2> QED
    BY <2>1, <2>2
<1>2. ASSUME NEW th \in Thread, Hand(th) PROVE AddedOnce' /\ FetchedOnce' /\ NotFetched'
  BY <1>t, <1>2, AddedOnceStep, FetchedOnceStep, NotFetchedStep
<1>3. CASE UNCHANGED vars
  BY <1>1, <1>3 DEF vars, taskVars, addVars, callVars, groupVars, Fresh, AddedOnce, FetchedOnce,
    NotFetched, Touched, Queued
<1> QED
  BY <1>t, <1>1, <1>2, <1>3, HandKinds DEF Fresh

-----------------------------------------------------------------------------
(* The parents the scheduler asks for a priority are there.                   *)

\* The tasks whose notifyParent a thread is in, or goes back to.
Held(th, t) ==
  \/ \E i \in DOMAIN frames[th] : frames[th][i] = t
  \/ \E k \in DOMAIN outer[th] : \E i \in DOMAIN outer[th][k].frames : outer[th][k].frames[i] = t

\* A parent is lost when notifyParent returns, and asked for on the way up from the task
\* that is added.
AsksAbove ==
  \A th \in Thread : asking[th] # NoTask =>
    /\ asking[th] \in Line(adding[th])
    /\ asking[th] = adding[th] \/ adding[th] \in Inherit

HeldDone == \A th \in Thread, t \in Task : Held(th, t) => done[t]

ParentLost == \A t \in Task : Parent(t) # NoTask /\ ~parentSet[t] => done[t]

Parents == AsksAbove /\ HeldDone /\ ParentLost

LEMMA ParentsInit == Init => Parents
<1> SUFFICES ASSUME Init PROVE Parents
  OBVIOUS
<1>1. AsksAbove /\ ParentLost
  BY Kinds DEF Init, AsksAbove, ParentLost
<1>2. HeldDone
  <2>1. \A th \in Thread : frames[th] = <<>> /\ outer[th] = <<>>
    BY DEF Init
  <2> QED
    BY <2>1 DEF HeldDone, Held
<1> QED
  BY <1>1, <1>2 DEF Parents

\* The steps that ask, that report, that lose a parent, and that fail a check.
Ask(th) ==
  /\ \A th2 \in Thread \ {th} : UNCHANGED <<asking[th2], adding[th2], frames[th2], outer[th2], pc[th2]>>
  /\ asking'[th] # NoTask =>
       /\ UNCHANGED adding[th]
       /\ \/ asking'[th] = asking[th]
          \/ asking'[th] = adding[th]
          \/ asking[th] \in Inherit /\ asking'[th] = Parent(asking[th])
  /\ \A t \in Task : Held(th, t)' => Held(th, t) \/ (pc[th] = "report" /\ t = cur[th])
  /\ \A t \in Task : ~parentSet'[t] => ~parentSet[t] \/ Held(th, t)
  /\ pc'[th] = "crashed" =>
       \/ pc[th] = "crashed"
       \/ asking[th] \in Inherit /\ ~parentSet[asking[th]]
       \/ pc[th] = "execute" /\ cur[th] \in Sequence /\ queue[cur[th]] = <<>>

LEMMA AskKinds ==
  ASSUME Types, [Next]_vars
  PROVE  (\E th \in Thread : Ask(th)) \/ UNCHANGED vars
<1>t. TaskTypes /\ GroupTypes /\ ThreadTypes /\ \A th \in Thread : Place(th)
  BY DEF Types
<1> USE DEF At, Goto, On, Add, taskVars, groupVars, addVars, callVars, helpVars
\* oneTaskDone on the parent.
<1>e. ASSUME NEW th \in Thread, EnterParent(th), cur[th] \in Task, UNCHANGED outer
      PROVE  /\ \A th2 \in Thread \ {th} : UNCHANGED frames[th2]
             /\ \A t \in Task : Held(th, t)' => Held(th, t) \/ t = cur[th]
  <2> DEFINE n == Len(frames[th])
  <2>1. frames[th] \in Seq(Task) /\ frames'[th] = Append(frames[th], cur[th])
    BY <1>t, <1>e DEF EnterParent, ThreadTypes
  <2>2. /\ n \in Nat /\ DOMAIN frames[th] = 1..n /\ DOMAIN frames'[th] = 1..(n + 1)
        /\ \A i \in 1..n : frames'[th][i] = frames[th][i]
        /\ frames'[th][n + 1] = cur[th]
    BY <1>e, <2>1, AppendFacts, LenProperties
  <2> HIDE DEF n
  <2>3. \A i \in DOMAIN frames'[th] : \/ i \in DOMAIN frames[th] /\ frames'[th][i] = frames[th][i]
                                      \/ frames'[th][i] = cur[th]
    BY <2>2
  <2> QED
    BY <1>t, <1>e, <2>3 DEF Held, EnterParent, ThreadTypes
<1>1. ASSUME NEW th \in Thread, TestTask(th) PROVE Ask(th)
  BY <1>1, <1>t DEF TestTask, Ask, Held, Place, ThreadTypes, TaskTypes
<1>2. ASSUME NEW th \in Thread, AskParent(th) PROVE Ask(th)
  BY <1>2, <1>t DEF AskParent, Ask, Held, Place, ThreadTypes, TaskTypes
<1>3. ASSUME NEW th \in Thread, PushTask(th) PROVE Ask(th)
  BY <1>3, <1>t DEF PushTask, Ask, Held, Place, ThreadTypes, TaskTypes
<1>4. ASSUME NEW th \in Thread, Verify(th) PROVE Ask(th)
  BY <1>4, <1>t DEF Verify, Ask, Held, Place, ThreadTypes, TaskTypes
<1>5. ASSUME NEW th \in Thread, ExecuteTask(th) PROVE Ask(th)
  BY <1>5, <1>t DEF ExecuteTask, Ask, Held, Place, ThreadTypes, TaskTypes
<1>6. ASSUME NEW th \in Thread, FinishCaller(th) PROVE Ask(th)
  BY <1>6, <1>t DEF FinishCaller, Ask, Held, Place, ThreadTypes, TaskTypes
<1>7. ASSUME NEW th \in Thread, ExecuteSequence(th) PROVE Ask(th)
  BY <1>7, <1>t DEF ExecuteSequence, Ask, Held, Place, ThreadTypes, TaskTypes
<1>8. ASSUME NEW th \in Thread, ExecuteParallel(th) PROVE Ask(th)
  BY <1>8, <1>t DEF ExecuteParallel, Ask, Held, Place, ThreadTypes, TaskTypes
<1>9. ASSUME NEW th \in Thread, SpawnTask(th) PROVE Ask(th)
  BY <1>9, <1>t DEF SpawnTask, Ask, Held, Place, ThreadTypes, TaskTypes
<1>10. ASSUME NEW th \in Thread, GrabFirst(th) PROVE Ask(th)
  BY <1>10, <1>t DEF GrabFirst, Ask, Held, Place, ThreadTypes, TaskTypes
<1>11. ASSUME NEW th \in Thread, NotifyTask(th) PROVE Ask(th)
  BY <1>11, <1>t DEF NotifyTask, Ask, Held, Place, ThreadTypes, TaskTypes
<1>12. ASSUME NEW th \in Thread, ReportToNobody(th) PROVE Ask(th)
  BY <1>12, <1>t DEF ReportToNobody, Ask, Held, Place, ThreadTypes, TaskTypes
<1>13. ASSUME NEW th \in Thread, ScheduleNext(th) PROVE Ask(th)
  BY <1>13, <1>t DEF ScheduleNext, Ask, Held, Place, ThreadTypes, TaskTypes
<1>14. ASSUME NEW th \in Thread, JoinGroup(th) PROVE Ask(th)
  BY <1>14, <1>t DEF JoinGroup, Ask, Held, Place, ThreadTypes, TaskTypes
<1>15. ASSUME NEW th \in Thread, Return(th) PROVE Ask(th)
  BY <1>15, <1>t DEF Return, Ask, Held, Place, ThreadTypes, TaskTypes
<1>16. ASSUME NEW th \in Thread, Help(th) PROVE Ask(th)
  BY <1>16, <1>t DEF Help, Ask, Held, Place, ThreadTypes, TaskTypes
<1>17. ASSUME NEW th \in Thread, HelpEnds(th) PROVE Ask(th)
  BY <1>17, <1>t DEF HelpEnds, Ask, Held, Place, ThreadTypes, TaskTypes
<1>18. ASSUME NEW th \in Thread, WaitReturns(th) PROVE Ask(th)
  BY <1>18, <1>t DEF WaitReturns, Ask, Held, Place, ThreadTypes, TaskTypes
<1>19. ASSUME NEW th \in Thread, NEW t \in Task, PopTask(th, t) PROVE Ask(th)
  BY <1>19, <1>t DEF PopTask, Ask, Held, Place, ThreadTypes, TaskTypes
<1>20. ASSUME NEW th \in Thread, NEW t \in Task, Submit(th, t) PROVE Ask(th)
  BY <1>20, <1>t DEF Submit, Ask, Held, Place, ThreadTypes, TaskTypes
<1>21. ASSUME NEW th \in Thread, NEW t \in Task, ActiveWaitTask(th, t) PROVE Ask(th)
  BY <1>21, <1>t DEF ActiveWaitTask, Ask, Held, Place, ThreadTypes, TaskTypes
<1>22. ASSUME NEW th \in Thread, NEW t \in Task, Wait(th, t) PROVE Ask(th)
  BY <1>22, <1>t DEF Wait, Ask, Held, Place, ThreadTypes, TaskTypes
<1>23. ASSUME NEW th \in Thread, NEW g \in Parallel, ActiveWaitGroup(th, g) PROVE Ask(th)
  BY <1>23, <1>t DEF ActiveWaitGroup, Ask, Held, Place, ThreadTypes, TaskTypes
<1>24. ASSUME NEW th \in Thread, FetchIndex(th) PROVE Ask(th)
  <2>1. PICK label \in {"spawning", "scheduling", "first", "return"} : Fetched(th, label)
    BY <1>24, FetchKinds
  <2> QED
    BY <1>t, <2>1 DEF Fetched, Ask, Held, ThreadTypes
<1>25. ASSUME NEW th \in Thread, ReportToParallel(th) PROVE Ask(th)
  <2>1. cur[th] \in Task /\ UNCHANGED outer /\ EnterParent(th)
    BY <1>25, <1>t DEF ReportToParallel, Place
  <2>2. /\ \A th2 \in Thread \ {th} : UNCHANGED frames[th2]
        /\ \A t \in Task : Held(th, t)' => Held(th, t) \/ t = cur[th]
    BY <1>e, <2>1
  <2> QED
    BY <1>25, <1>t, <2>2 DEF ReportToParallel, Ask, Place, ThreadTypes
<1>26. ASSUME NEW th \in Thread, ReportToSequence(th) PROVE Ask(th)
  <2>1. cur[th] \in Task /\ UNCHANGED outer /\ EnterParent(th)
    BY <1>26, <1>t DEF ReportToSequence, Place
  <2>2. /\ \A th2 \in Thread \ {th} : UNCHANGED frames[th2]
        /\ \A t \in Task : Held(th, t)' => Held(th, t) \/ t = cur[th]
    BY <1>e, <2>1
  <2> QED
    BY <1>26, <1>t, <2>2 DEF ReportToSequence, Ask, Place, ThreadTypes
<1>27. ASSUME NEW th \in Thread, ResetParent(th) PROVE Ask(th)
  <2> DEFINE n == Len(frames[th])
  <2>1. frames[th] \in Seq(Task) /\ frames[th] # <<>>
    BY <1>27, <1>t DEF ResetParent, ThreadTypes
  <2>2. frames'[th] = SubSeq(frames[th], 1, n - 1)
    BY <1>27, <1>t DEF ResetParent, ThreadTypes
  <2>3. /\ n \in Nat \ {0} /\ DOMAIN frames[th] = 1..n /\ DOMAIN frames'[th] = 1..(n - 1)
        /\ \A i \in 1..(n - 1) : frames'[th][i] = frames[th][i]
    BY <2>1, <2>2, FrontFacts
  <2>4. parentSet' = [parentSet EXCEPT ![frames[th][n]] = FALSE]
    BY <1>27 DEF ResetParent
  <2> HIDE DEF n
  <2>5. /\ n \in DOMAIN frames[th]
        /\ \A i \in DOMAIN frames'[th] : i \in DOMAIN frames[th] /\ frames'[th][i] = frames[th][i]
    BY <2>3
  <2>6. \A t \in Task : Held(th, t)' => Held(th, t)
    BY <1>27, <2>5 DEF ResetParent, Held
  <2>7. \A t \in Task : ~parentSet'[t] => ~parentSet[t] \/ Held(th, t)
    BY <1>t, <2>4, <2>5 DEF Held, TaskTypes
  <2> QED
    BY <1>27, <1>t, <2>6, <2>7 DEF ResetParent, Ask, Place, ThreadTypes
<1>28. ASSUME NEW th \in Thread, CallGroup(th) PROVE Ask(th)
  <2> DEFINE n == Len(outer[th])
             o == [task |-> cur[th], frames |-> frames[th], helping |-> helping[th], helpAt |-> helpAt[th]]
  <2>1. outer[th] \in Seq(Suspended) /\ o \in Suspended
    BY <1>28, <1>t DEF CallGroup, ThreadTypes, Suspended
  <2>2. outer'[th] = Append(outer[th], o) /\ frames'[th] = <<>>
    BY <1>28, <1>t DEF CallGroup, ThreadTypes
  <2>3. o.frames = frames[th]
    OBVIOUS
  <2> HIDE DEF o
  <2>4. /\ n \in Nat /\ DOMAIN outer[th] = 1..n /\ DOMAIN outer'[th] = 1..(n + 1)
        /\ \A i \in 1..n : outer'[th][i] = outer[th][i]
        /\ outer'[th][n + 1] = o
    BY <2>1, <2>2, AppendFacts, LenProperties
  <2> HIDE DEF n
  <2>5. \A i \in DOMAIN outer'[th] : \/ i \in DOMAIN outer[th] /\ outer'[th][i] = outer[th][i]
                                     \/ outer'[th][i] = o
    BY <2>4
  <2>6. \A t \in Task : Held(th, t)' => Held(th, t)
    BY <2>2, <2>3, <2>5 DEF Held
  <2> QED
    BY <1>28, <1>t, <2>6 DEF CallGroup, Ask, Place, ThreadTypes
<1>29. ASSUME NEW th \in Thread, CallReturns(th) PROVE Ask(th)
  <2> DEFINE n == Len(outer[th])
  <2>1. outer[th] \in Seq(Suspended) /\ outer[th] # <<>>
    BY <1>29, <1>t DEF CallReturns, ThreadTypes
  <2>2. outer'[th] = SubSeq(outer[th], 1, n - 1) /\ frames'[th] = outer[th][n].frames
    BY <1>29, <1>t DEF CallReturns, ThreadTypes
  <2>3. /\ n \in Nat \ {0} /\ DOMAIN outer[th] = 1..n /\ DOMAIN outer'[th] = 1..(n - 1)
        /\ \A i \in 1..(n - 1) : outer'[th][i] = outer[th][i]
    BY <2>1, <2>2, FrontFacts
  <2> HIDE DEF n
  <2>4. /\ n \in DOMAIN outer[th]
        /\ \A i \in DOMAIN outer'[th] : i \in DOMAIN outer[th] /\ outer'[th][i] = outer[th][i]
    BY <2>3
  <2>5. \A t \in Task : Held(th, t)' => Held(th, t)
    BY <2>2, <2>4 DEF Held
  <2> QED
    BY <1>29, <1>t, <2>5 DEF CallReturns, Ask, Place, ThreadTypes
<1> QED
  BY <1>1, <1>2, <1>3, <1>4, <1>5, <1>6, <1>7, <1>8, <1>9, <1>10, <1>11, <1>12, <1>13, <1>14, <1>15, <1>16, <1>17, <1>18, <1>19, <1>20, <1>21, <1>22, <1>23, <1>24, <1>25, <1>26, <1>27, <1>28, <1>29, Kinds DEF Next, Continue

LEMMA ParentsStep ==
  ASSUME Types, Hands, Parents, [Next]_vars
  PROVE  Parents'
<1>t. ThreadTypes /\ \A th \in Thread : Place(th)
  BY DEF Types
<1>d. \A t \in Task : done[t] => done'[t]
  BY DoneKinds
<1>1. ASSUME NEW th \in Thread, Ask(th) PROVE Parents'
  <2>1. AsksAbove'
    <3> SUFFICES ASSUME NEW th1 \in Thread, asking'[th1] # NoTask
                 PROVE  /\ asking'[th1] \in Line(adding'[th1])
                        /\ asking'[th1] = adding'[th1] \/ adding'[th1] \in Inherit
      BY DEF AsksAbove, Line
    <3>1. CASE UNCHANGED <<asking[th1], adding[th1]>>
      BY <3>1 DEF Parents, AsksAbove
    <3>2. CASE th1 = th /\ asking'[th] = adding[th]
      <4>1. adding'[th] = adding[th] /\ adding[th] \in Task
        BY <1>1, <1>t, <3>2 DEF Ask, ThreadTypes
      <4>2. adding[th] \in Line(adding[th])
        BY <4>1, LineFacts
      <4> QED
        BY <3>2, <4>1, <4>2
    <3>3. CASE th1 = th /\ asking[th] \in Inherit /\ asking'[th] = Parent(asking[th])
      <4>1. asking[th] \in Task /\ asking[th] # NoTask /\ Parent(asking[th]) \in Above(asking[th])
        BY <3>3, InheritTasks, ParentFacts, Kinds DEF Above
      <4>2. adding'[th] = adding[th] /\ adding[th] \in Task
        BY <1>1, <1>t, <3>3, <4>1 DEF Ask, ThreadTypes, Place
      <4>3. asking[th] \in Line(adding[th]) /\ adding[th] \in Inherit
        BY <3>3, <4>1 DEF Parents, AsksAbove
      <4>4. Parent(asking[th]) \in Line(adding[th])
        BY <4>1, <4>2, <4>3, LineFacts
      <4> QED
        BY <3>3, <4>2, <4>3, <4>4
    <3> QED
      BY <1>1, <3>1, <3>2, <3>3 DEF Ask
  <2>2. HeldDone'
    <3> SUFFICES ASSUME NEW th1 \in Thread, NEW t \in Task, Held(th1, t)' PROVE done'[t]
      BY DEF HeldDone, Held
    <3>1. Held(th1, t) \/ (pc[th] = "report" /\ t = cur[th])
      BY <1>1 DEF Ask, Held
    <3>2. pc[th] = "report" /\ t = cur[th] => done[t]
      BY DEF Hands, EndDone, Ends
    <3> QED
      BY <1>d, <3>1, <3>2 DEF Parents, HeldDone
  <2>3. ParentLost'
    BY <1>1, <1>d DEF Ask, Parents, ParentLost, HeldDone
  <2> QED
    BY <2>1, <2>2, <2>3 DEF Parents
<1>2. CASE UNCHANGED vars
  BY <1>2 DEF vars, taskVars, addVars, helpVars, Parents, AsksAbove, HeldDone, Held, ParentLost
<1> QED
  BY AskKinds, <1>1, <1>2

\* What a task that is not done is a part of is not done.
LEMMA AboveNotDone ==
  ASSUME Work, Callers, NEW t \in Task, ~done[t]
  PROVE  \A x \in Line(t) : ~done[x]
<1> DEFINE C == {x \in Task : ~done[x]}
<1>1. ASSUME NEW x \in C, NEW g \in Group, x \in Members(g) PROVE ~done[g]
  BY <1>1 DEF Work, Counts, NothingLeft, Left, Unreported
<1>2. ASSUME NEW x \in C, NEW u \in Unit, Calls[u] = x, x # NoTask PROVE ~done[u]
  <2>1. x \in Task /\ ~done[x]
    BY <1>2
  <2>2. notified[x] => done[x]
    BY <2>1 DEF Callers, NotifiedDone
  <2>3. done[u] => notified[x]
    BY <1>2 DEF Callers, CallerLast
  <2> QED
    BY <2>1, <2>2, <2>3
<1>3. \A x \in C : Above(x) \subseteq C
  BY <1>1, <1>2, Kinds DEF Above
<1>4. C \in SUBSET Task /\ t \in C
  OBVIOUS
<1>5. Line(t) \subseteq C
  <2> HIDE DEF C
  <2> QED
    BY <1>3, <1>4, LineFacts
<1> QED
  BY <1>5

LEMMA NoCheckFailsStep ==
  ASSUME NoRace, Work, Turns, Callers, Fresh, Parents, NoCheckFails, [Next]_vars
  PROVE  NoCheckFails'
<1>t. Types /\ Hands /\ ThreadTypes /\ \A th \in Thread : Place(th) /\ pc[th] # "crashed"
  BY DEF Work, Types, NoCheckFails, Crashed
<1>1. ASSUME NEW th \in Thread, asking[th] \in Inherit, ~parentSet[asking[th]] PROVE FALSE
  <2> DEFINE x == asking[th]
             t == adding[th]
  <2>1. x \in Task /\ x # NoTask /\ Parent(x) # NoTask
    BY <1>1, InheritTasks, ParentFacts, Kinds
  <2>2. done[x]
    BY <1>1, <2>1 DEF Parents, ParentLost
  <2>3. x \in Line(t) /\ t \in Inherit /\ t \in Task
    BY <1>1, <2>1, InheritTasks DEF Parents, AsksAbove
  <2>4. ~done[t]
    BY <2>3, InheritOnce DEF Fresh, AddedOnce, Queued
  <2> QED
    BY <2>2, <2>3, <2>4, AboveNotDone
<1>2. ASSUME NEW th \in Thread, NEW s \in Sequence, pc[th] = "execute", cur[th] = s, queue[s] = <<>>
      PROVE  FALSE
  <2>1. ~Began(s)
    BY <1>2 DEF Began
  <2>2. Len(members[s]) \in Nat \ {0} /\ Len(queue[s]) = 0
    BY <1>2, GroupFacts, Kinds
  <2>3. Len(members[s]) - 0 = 0
    BY <2>1, <2>2 DEF Turns, SequenceTurns, Popped
  <2> QED
    BY <2>2, <2>3
<1>3. ASSUME NEW th \in Thread, Ask(th) PROVE \A th1 \in Thread : pc'[th1] # "crashed"
  BY <1>t, <1>1, <1>2, <1>3 DEF Ask
<1>4. CASE UNCHANGED vars
  BY <1>t, <1>4 DEF vars, NoCheckFails, Crashed
<1> QED
  BY <1>t, <1>3, <1>4, AskKinds DEF NoCheckFails, Crashed

\* The code's own checks hold: no empty sequence is executed, and a priority is inherited
\* from a parent that is there.
THEOREM ChecksHold == ASSUME NoRace PROVE Spec => []NoCheckFails
<1>0. InTurn
  BY DEF NoRace
<1>1. Spec => [](Work /\ Turns /\ Callers)
  BY <1>0, CallersAlways
<1>2. Init => Fresh /\ Parents /\ NoCheckFails
  BY FreshInit, ParentsInit DEF Init, NoCheckFails, Crashed
<1>3. Work /\ Turns /\ Callers /\ Fresh /\ Parents /\ NoCheckFails /\ [Next]_vars
        => (Fresh /\ Parents /\ NoCheckFails)'
  BY <1>0, FreshStep, ParentsStep, NoCheckFailsStep DEF Work
<1> QED
  BY <1>1, <1>2, <1>3, PTL DEF Spec

-----------------------------------------------------------------------------
(* A group that nobody helps.                                                 *)

Own == {g \in Group : g \notin Free \cup Called}

LEMMA OwnFacts ==
  ASSUME NEW g \in Own
  PROVE  g \in Group /\ g \in Task /\ Members(g) \subseteq Once
<1>1. g \in Group /\ g \in Task /\ g \notin Free \cup Called
  BY Kinds DEF Own
<1>2. ASSUME NEW t \in Members(g) PROVE t \in Once
  <2>1. t \in Task /\ Parent(t) = g /\ g # NoTask
    BY <1>1, GroupFacts, ParentFacts
  <2>2. t \notin Free /\ g \notin ActivelyWaited
    BY <1>1, FreeFacts
  <2> QED
    BY <1>1, <2>1, <2>2 DEF Once
<1> QED
  BY <1>1, <1>2

\* th executes the group g, and has not come to its first task.
Leads(th, g) == pc[th] \in {"spawn", "spawning", "first"} /\ cur[th] = g

\* th has reported t, and looks for a task to put in its place.
Replaces(th, t) ==
  /\ pc[th] \in {"schedule", "scheduling"}
  /\ frames[th] # <<>> /\ frames[th][Len(frames[th])] = t

NothingTouched == \A t \in Task : Touched(t)' => Touched(t)

\* One more task is added, and another one only if the maximum allows.
Spawns(th) ==
  maxTasks[cur[th]] > 0 =>
    /\ scheduled'[th] = scheduled[th] + 1
    /\ pc'[th] = "spawn" => scheduled'[th] < maxTasks[cur[th]] - 1

\* How a thread comes to the loops of a group and gets on in them.
Moves(th) ==
  /\ \A th2 \in Thread \ {th} : UNCHANGED <<pc[th2], cur[th2], scheduled[th2], frames[th2]>>
  /\ pc'[th] \in {"spawn", "spawning", "first"} =>
       /\ UNCHANGED cur[th]
       /\ \/ pc[th] = "execute" /\ pc'[th] = "spawn" /\ scheduled'[th] = 0
          \/ pc[th] \in {"spawn", "spawning", "first"} /\ UNCHANGED <<pc[th], scheduled[th]>>
          \/ pc[th] = "spawn" /\ UNCHANGED scheduled[th]
          \/ pc[th] = "spawning" /\ pc'[th] = "spawn" /\ UNCHANGED scheduled[th] /\ NothingTouched
          \/ pc[th] = "spawning" /\ pc'[th] # "spawning" /\ Spawns(th)
  /\ pc'[th] \in {"schedule", "scheduling"} =>
       \/ pc[th] \in {"schedule", "scheduling"} /\ UNCHANGED <<cur[th], frames[th]>>
       \/ /\ pc[th] = "report" /\ Parent(cur[th]) = cur'[th]
          /\ frames'[th] = Append(frames[th], cur[th])
  /\ \/ pc[th] = "first" /\ pc'[th] = "first"
     \/ pc[th] = "scheduling" /\ pc'[th] = "schedule"
     => NothingTouched

LEMMA MoveKinds ==
  ASSUME Types, NEW th \in Thread, Acts(th)
  PROVE  Moves(th)
<1>t. TaskTypes /\ GroupTypes /\ ThreadTypes /\ Place(th)
  BY DEF Types
<1> USE DEF At, Goto, On, Add, EnterParent, taskVars, groupVars, addVars, callVars, helpVars
<1>1. ASSUME TestTask(th) PROVE Moves(th)
  <2>1. NothingTouched
    BY <1>1, <1>t, Kinds DEF TestTask, ThreadTypes, NothingTouched, Touched
  <2> QED
    BY <1>1, <1>t, <2>1 DEF TestTask, Moves, ThreadTypes
<1>2. ASSUME AskParent(th) PROVE Moves(th)
  BY <1>2, <1>t, InheritTasks, Kinds DEF AskParent, Moves, ThreadTypes, Place, Neutral, NothingTouched, Touched
<1>3. ASSUME PushTask(th) PROVE Moves(th)
  BY <1>3, <1>t, Kinds DEF PushTask, Moves, ThreadTypes, TaskTypes, Place, Neutral, NothingTouched, Touched
<1>4. ASSUME Verify(th) PROVE Moves(th)
  BY <1>4, <1>t DEF Verify, Moves, ThreadTypes
<1>5. ASSUME ExecuteTask(th) PROVE Moves(th)
  BY <1>5, <1>t DEF ExecuteTask, Moves, ThreadTypes
<1>6. ASSUME CallGroup(th) PROVE Moves(th)
  BY <1>6, <1>t DEF CallGroup, Moves, ThreadTypes
<1>7. ASSUME FinishCaller(th) PROVE Moves(th)
  BY <1>7, <1>t DEF FinishCaller, Moves, ThreadTypes
<1>8. ASSUME ExecuteSequence(th) PROVE Moves(th)
  BY <1>8, <1>t DEF ExecuteSequence, Moves, ThreadTypes
<1>9. ASSUME ExecuteParallel(th) PROVE Moves(th)
  BY <1>9, <1>t DEF ExecuteParallel, Moves, ThreadTypes
<1>10. ASSUME FetchIndex(th) PROVE Moves(th)
  <2>1. PICK label \in {"spawning", "scheduling", "first", "return"} : Fetched(th, label)
    BY <1>10, FetchKinds
  <2> QED
    BY <1>t, <2>1 DEF Fetched, Moves, ThreadTypes
<1>11. ASSUME SpawnTask(th) PROVE Moves(th)
  <2>1. cur[th] \in Parallel /\ maxTasks[cur[th]] \in Nat /\ scheduled[th] \in Nat
    BY <1>11, <1>t, GroupsAssumption DEF SpawnTask, Place, ThreadTypes
  <2> DEFINE x == members[cur[th]][at[th] + 1]
  <2>2. CASE grabbed[x] \/ done[x]
    BY <1>11, <1>t, <2>2 DEF SpawnTask, Moves, ThreadTypes, NothingTouched, Touched
  <2>3. CASE ~(grabbed[x] \/ done[x])
    <3>1. Spawns(th)
      BY <1>11, <1>t, <2>1, <2>3 DEF SpawnTask, Spawns, ThreadTypes
    <3>2. pc'[th] # "spawning" /\ UNCHANGED cur[th]
      BY <1>11, <1>t, <2>3 DEF SpawnTask, ThreadTypes
    <3> QED
      BY <1>11, <1>t, <2>3, <3>1, <3>2 DEF SpawnTask, Moves, ThreadTypes
  <2> QED
    BY <2>2, <2>3
<1>12. ASSUME GrabFirst(th) PROVE Moves(th)
  BY <1>12, <1>t DEF GrabFirst, Moves, ThreadTypes
<1>13. ASSUME NotifyTask(th) PROVE Moves(th)
  BY <1>13, <1>t DEF NotifyTask, Moves, ThreadTypes
<1>14. ASSUME ReportToNobody(th) PROVE Moves(th)
  BY <1>14, <1>t DEF ReportToNobody, Moves, ThreadTypes
<1>15. ASSUME ReportToParallel(th) PROVE Moves(th)
  BY <1>15, <1>t DEF ReportToParallel, Moves, ThreadTypes
<1>16. ASSUME ScheduleNext(th) PROVE Moves(th)
  BY <1>16, <1>t DEF ScheduleNext, Moves, ThreadTypes, NothingTouched, Touched
<1>17. ASSUME ReportToSequence(th) PROVE Moves(th)
  BY <1>17, <1>t DEF ReportToSequence, Moves, ThreadTypes
<1>18. ASSUME JoinGroup(th) PROVE Moves(th)
  BY <1>18, <1>t DEF JoinGroup, Moves, ThreadTypes
<1>19. ASSUME ResetParent(th) PROVE Moves(th)
  BY <1>19, <1>t DEF ResetParent, Moves, ThreadTypes
<1>20. ASSUME Return(th) PROVE Moves(th)
  BY <1>20, <1>t DEF Return, Moves, ThreadTypes
<1>21. ASSUME Help(th) PROVE Moves(th)
  BY <1>21, <1>t DEF Help, Moves, ThreadTypes
<1>22. ASSUME HelpEnds(th) PROVE Moves(th)
  BY <1>22, <1>t DEF HelpEnds, Moves, ThreadTypes
<1>23. ASSUME WaitReturns(th) PROVE Moves(th)
  BY <1>23, <1>t DEF WaitReturns, Moves, ThreadTypes
<1>24. ASSUME CallReturns(th) PROVE Moves(th)
  BY <1>24, <1>t DEF CallReturns, Moves, ThreadTypes
<1>25. ASSUME NEW t \in Task, PopTask(th, t) PROVE Moves(th)
  BY <1>25, <1>t DEF PopTask, Moves, ThreadTypes
<1>26. ASSUME NEW t \in Task, Submit(th, t) PROVE Moves(th)
  BY <1>26, <1>t DEF Submit, Moves, ThreadTypes
<1>27. ASSUME NEW t \in Task, ActiveWaitTask(th, t) PROVE Moves(th)
  BY <1>27, <1>t DEF ActiveWaitTask, Moves, ThreadTypes
<1>28. ASSUME NEW t \in Task, Wait(th, t) PROVE Moves(th)
  BY <1>28, <1>t DEF Wait, Moves, ThreadTypes
<1>29. ASSUME NEW g \in Parallel, ActiveWaitGroup(th, g) PROVE Moves(th)
  BY <1>29, <1>t DEF ActiveWaitGroup, Moves, ThreadTypes
<1> QED
  BY <1>1, <1>2, <1>3, <1>4, <1>5, <1>6, <1>7, <1>8, <1>9, <1>10, <1>11, <1>12, <1>13, <1>14, <1>15, <1>16, <1>17, <1>18, <1>19, <1>20, <1>21, <1>22, <1>23, <1>24, <1>25, <1>26, <1>27, <1>28, <1>29 DEF Acts, Continue

\* One thread at a time executes a group,
Leaders ==
  \A th \in Thread, g \in Parallel : Leads(th, g) =>
    Began(g) /\ \A th2 \in Thread : Leads(th2, g) => th2 = th

\* and one puts a task in the place of another.
Followers ==
  \A th \in Thread : pc[th] \in {"schedule", "scheduling"} =>
    \E t \in Members(cur[th]) :
      /\ Replaces(th, t) /\ ~Unreported(t)
      /\ \A th2 \in Thread : Replaces(th2, t) => th2 = th

\* The tasks wait for their group.
NotBegun == \A g \in Own \cap Parallel, t \in Task : t \in Members(g) /\ Touched(t) => Began(g)

Leading == Leaders /\ Followers /\ NotBegun

LEMMA LeadersStep ==
  ASSUME Types, Hands, Leaders, [Next]_vars, NEW th \in Thread, Moves(th)
  PROVE  Leaders'
<1>t. Types /\ \A g \in Parallel : g \in Task
  BY Kinds
<1>1. ASSUME NEW g \in Parallel, Leads(th, g)' PROVE Leads(th, g) \/ (pc[th] = "execute" /\ cur[th] = g)
  BY <1>1 DEF Leads, Moves
<1>2. ASSUME NEW th1 \in Thread, NEW g \in Parallel, th1 # th PROVE Leads(th1, g)' <=> Leads(th1, g)
  BY <1>2 DEF Leads, Moves
<1>3. ASSUME NEW th1 \in Thread, NEW g \in Parallel, Leads(th1, g)' PROVE Began(g)'
  <2>1. CASE Leads(th1, g)
    BY <1>t, <2>1, Progress DEF Leaders
  <2>2. CASE ~Leads(th1, g)
    <3>1. th1 = th /\ pc[th] = "execute" /\ cur[th] = g
      BY <1>1, <1>2, <1>3, <2>2
    <3>2. grabbed[g] /\ \A th2 \in Thread \ {th} : ~(cur[th2] = g /\ pc[th2] \in {"verify", "execute"})
      BY <1>t, <3>1 DEF Hands, RunGrabbed, RunOnce, Runs
    <3>3. grabbed'[g]
      BY <1>t, <3>2, Progress
    <3>4. pc'[th] \notin {"verify", "execute"}
      BY <1>3, <3>1 DEF Leads
    <3> QED
      BY <3>2, <3>3, <3>4 DEF Began, Moves
  <2> QED
    BY <2>1, <2>2
<1>4. ASSUME NEW th1 \in Thread, NEW th2 \in Thread, NEW g \in Parallel, Leads(th1, g)', Leads(th2, g)', th1 # th2
      PROVE  FALSE
  <2>1. CASE Leads(th1, g) /\ Leads(th2, g)
    BY <1>4, <2>1 DEF Leaders
  <2>2. CASE Leads(th1, g) /\ ~Leads(th2, g)
    BY <1>1, <1>2, <1>4, <2>2 DEF Leaders, Began
  <2>3. CASE ~Leads(th1, g) /\ Leads(th2, g)
    BY <1>1, <1>2, <1>4, <2>3 DEF Leaders, Began
  <2> QED
    BY <1>1, <1>2, <1>4, <2>1, <2>2, <2>3
<1> QED
  BY <1>3, <1>4 DEF Leaders, Leads

\* What a thread replaces it has replaced before, or it is about to report it.
LEMMA ReplaceKinds ==
  ASSUME Types, NEW th \in Thread, Moves(th), NEW th1 \in Thread, NEW t \in Task, Replaces(th1, t)'
  PROVE  \/ Replaces(th1, t) /\ UNCHANGED cur[th1]
         \/ th1 = th /\ pc[th] = "report" /\ cur[th] = t /\ Parent(t) = cur'[th]
<1>1. CASE th1 # th
  BY <1>1 DEF Moves, Replaces
<1>2. CASE pc[th] \in {"schedule", "scheduling"} /\ UNCHANGED <<cur[th], frames[th]>>
  BY <1>1, <1>2 DEF Replaces
<1>3. CASE pc[th] = "report" /\ Parent(cur[th]) = cur'[th] /\ frames'[th] = Append(frames[th], cur[th])
  <2>1. frames[th] \in Seq(Task) /\ cur[th] \in Task
    BY <1>3 DEF Types, ThreadTypes, Place
  <2>2. frames'[th][Len(frames'[th])] = cur[th]
    BY <1>3, <2>1
  <2> QED
    BY <1>1, <1>3, <2>2 DEF Replaces
<1> QED
  BY <1>1, <1>2, <1>3 DEF Moves, Replaces

LEMMA FollowersStep ==
  ASSUME Types, Hands, Types', Followers, [Next]_vars, NEW th \in Thread, Moves(th)
  PROVE  Followers'
<1>t. ThreadTypes /\ ThreadTypes' /\ \A th1 \in Thread : Place(th1) /\ Place(th1)'
  BY DEF Types
\* Who looks for a task in the place of t is alone,
<1>1. ASSUME NEW th1 \in Thread, NEW th2 \in Thread, NEW t \in Task, Replaces(th1, t)', Replaces(th2, t)'
      PROVE  th1 = th2
  <2>1. ASSUME NEW th3 \in Thread, Replaces(th3, t)
        PROVE  ~Unreported(t) /\ \A th4 \in Thread : Replaces(th4, t) => th4 = th3
    BY <2>1 DEF Followers, Replaces
  <2>2. pc[th] = "report" /\ cur[th] = t => Unreported(t)
    BY DEF Unreported
  <2> QED
    BY <1>1, <2>1, <2>2, ReplaceKinds
\* and it is one of the group's.
<1>2. ASSUME NEW th1 \in Thread, pc'[th1] \in {"schedule", "scheduling"}
      PROVE  \E t \in Members(cur'[th1]) : Replaces(th1, t)' /\ ~Unreported(t)'
  <2>0. cur'[th1] \in Group
    BY <1>t, <1>2, Kinds DEF Place
  <2>1. CASE pc[th1] \in {"schedule", "scheduling"} /\ UNCHANGED <<cur[th1], frames[th1]>>
    <3>1. PICK t \in Members(cur[th1]) : Replaces(th1, t) /\ ~Unreported(t)
      BY <2>1 DEF Followers
    <3>2. t \in Task
      BY <2>0, <2>1, GroupFacts
    <3>3. ~Unreported(t)'
      BY <3>1, <3>2, Progress
    <3>4. Replaces(th1, t)'
      BY <1>2, <2>1, <3>1 DEF Replaces
    <3> QED
      BY <2>1, <3>3, <3>4
  <2>2. CASE th1 = th /\ pc[th] = "report" /\ Parent(cur[th]) = cur'[th] /\ frames'[th] = Append(frames[th], cur[th])
    <3>0. PICK t \in Task : t = cur[th]
      BY <1>t, <2>2 DEF Place
    <3>1. t \in Members(cur'[th]) /\ frames[th] \in Seq(Task)
      BY <1>t, <2>0, <2>2, <3>0, ParentFacts DEF ThreadTypes
    <3>2. frames'[th][Len(frames'[th])] = t /\ frames'[th] # <<>>
      BY <2>2, <3>0, <3>1, AppendFacts
    <3>3. Replaces(th, t)'
      BY <1>2, <2>2, <3>2 DEF Replaces
    <3>4. done[t] /\ done'[t]
      <4>1. done[t]
        BY <2>2, <3>0 DEF Hands, EndDone, Ends
      <4> QED
        BY <4>1, DoneKinds
    <3>5. \A th2 \in Thread : ~(cur'[th2] = t /\ pc'[th2] \in {"notify", "report"})
      <4>1. \A th2 \in Thread \ {th} : ~(cur[th2] = t /\ pc[th2] \in {"notify", "report"})
        BY <2>2, <3>0 DEF Hands, EndOnce, Ends
      <4> QED
        BY <1>2, <2>2, <4>1 DEF Moves
    <3>6. ~Unreported(t)'
      BY <3>4, <3>5 DEF Unreported
    <3> QED
      BY <2>2, <3>1, <3>3, <3>6
  <2>3. th1 # th => UNCHANGED <<pc[th1], cur[th1], frames[th1]>>
    BY DEF Moves
  <2> QED
    BY <1>2, <2>1, <2>2, <2>3 DEF Moves
<1>3. ASSUME NEW th1 \in Thread, pc'[th1] \in {"schedule", "scheduling"}
      PROVE  Members(cur'[th1]) \subseteq Task
  BY <1>t, <1>3, GroupFacts, Kinds DEF Place
<1> SUFFICES ASSUME NEW th1 \in Thread, pc'[th1] \in {"schedule", "scheduling"},
                    NEW g, g = cur'[th1]
             PROVE  \E t \in Members(g) :
                      /\ Replaces(th1, t)' /\ ~Unreported(t)'
                      /\ \A th2 \in Thread : Replaces(th2, t)' => th2 = th1
  BY DEF Followers, Replaces, Unreported
<1>4. PICK t \in Members(g) : Replaces(th1, t)' /\ ~Unreported(t)'
  BY <1>2
<1>5. t \in Task
  BY <1>3
<1> QED
  BY <1>1, <1>4, <1>5

\* Who touches a task of such a group: who executes the group, or follows.
LEMMA TouchedInGroup ==
  ASSUME InTurn, Work, Turns, Fresh, NEW th \in Thread, Hand(th),
         NEW g \in Own \cap Parallel, NEW x \in Members(g), ~Touched(x), Touched(x)'
  PROVE  /\ cur[th] = g
         /\ \/ pc[th] = "first" /\ x = members[g][1]
            \/ /\ pc[th] \in {"spawning", "scheduling"} /\ x # members[g][1]
               /\ x = members[g][at[th] + 1] /\ pc'[th] \notin {"spawning", "scheduling"}
<1>t. g \in Parallel /\ g \in Group /\ x \in Once /\ x \in Task /\ 1 \in 1..Len(members[g])
  BY OwnFacts, GroupFacts
<1>1. PICK i \in 1..Len(members[g]) : x = members[g][i]
  BY <1>t, GroupFacts DEF Members
<1>2. Len(members[g]) \in Nat
  BY <1>t, GroupFacts
<1>3. CASE i \in 2..Len(members[g])
  <2>1. x # members[g][1]
    <3>1. i # 1
      BY <1>2, <1>3
    <3> QED
      BY <1>t, <1>1, <3>1, OnePlace
  <2> QED
    BY <1>t, <1>1, <1>3, <2>1, TouchedByFetch
<1>4. CASE i = 1
  <2>1. HandsOut(th, x)
    BY <1>t DEF Hand, Queued, Touched
  <2>2. \A s \in Sequence : x \notin Members(s)
    BY <1>t, ParentFacts, Kinds
  <2>3. ASSUME cur[th] \in Parallel, at[th] + 1 \in 2..Len(members[cur[th]]), x = members[cur[th]][at[th] + 1]
        PROVE  FALSE
    <3>1. cur[th] \in Group /\ Len(members[cur[th]]) \in Nat
      BY <2>3, GroupFacts, Kinds
    <3>2. at[th] + 1 \in 1..Len(members[cur[th]]) /\ at[th] + 1 # 1
      BY <2>3, <3>1
    <3> QED
      BY <1>t, <1>1, <1>4, <2>3, <3>1, <3>2, OnePlace
  <2>4. pc[th] = "first" /\ cur[th] \in Parallel /\ x = members[cur[th]][1]
    BY <1>t, <2>1, <2>2, <2>3, OnceHandedOut DEF Fresh, Touched
  <2>5. cur[th] \in Group /\ 1 \in 1..Len(members[cur[th]])
    BY <2>4, GroupFacts, Kinds
  <2> QED
    BY <1>t, <1>1, <1>4, <2>4, <2>5, OnePlace
<1> QED
  BY <1>2, <1>3, <1>4

LEMMA NotBegunStep ==
  ASSUME InTurn, Work, Turns, Fresh, Leaders, Followers, NotBegun, [Next]_vars,
         NEW th \in Thread, Hand(th)
  PROVE  NotBegun'
<1> SUFFICES ASSUME NEW g \in Own \cap Parallel, NEW x \in Task, x \in Members(g), Touched(x)' PROVE Began(g)'
  BY DEF NotBegun, Touched
<1>t. Types /\ Hands /\ g \in Parallel /\ g \in Task /\ Members(g) \subseteq Task
  BY OwnFacts, GroupFacts DEF Work
<1>1. Began(g)
  <2>1. CASE Touched(x)
    BY <2>1 DEF NotBegun
  <2>2. CASE ~Touched(x) /\ pc[th] \in {"first", "spawning"}
    BY <1>t, <2>2, TouchedInGroup DEF Leaders, Leads
  <2>3. CASE ~Touched(x) /\ pc[th] = "scheduling"
    <3>1. cur[th] = g
      BY <2>3, TouchedInGroup
    <3>2. PICK t \in Members(g) : ~Unreported(t)
      BY <2>3, <3>1 DEF Followers
    <3>3. Touched(t)
      BY <3>2 DEF Unreported, Touched
    <3> QED
      BY <1>t, <3>3 DEF NotBegun
  <2> QED
    BY <2>1, <2>2, <2>3, TouchedInGroup
<1> QED
  BY <1>t, <1>1, Progress

LEMMA LeadingInit == Init => Leading
<1> SUFFICES ASSUME Init PROVE Leading
  OBVIOUS
<1>1. \A th \in Thread : pc[th] = "idle"
  BY DEF Init
<1>2. Leaders /\ Followers
  BY <1>1 DEF Leaders, Followers, Leads
<1>3. NotBegun
  BY Kinds DEF Init, Touched, NotBegun
<1> QED
  BY <1>2, <1>3 DEF Leading

LEMMA LeadingStep ==
  ASSUME InTurn, Work, Turns, Fresh, Leading, [Next]_vars
  PROVE  Leading'
<1>t. Types /\ Hands /\ Types'
  BY TypesStep DEF Work
<1>1. ASSUME NEW th \in Thread, Acts(th), Hand(th) PROVE Leading'
  <2>1. Moves(th)
    BY <1>t, <1>1, MoveKinds
  <2>2. Leaders' /\ Followers'
    BY <1>t, <2>1, LeadersStep, FollowersStep DEF Leading
  <2>3. NotBegun'
    BY <1>1, <2>1, NotBegunStep DEF Leading
  <2> QED
    BY <2>2, <2>3 DEF Leading
<1>2. CASE UNCHANGED vars
  <2>1. UNCHANGED <<pending, grabbed, done, adding, pc, cur, frames>>
    BY <1>2 DEF vars, taskVars, addVars, callVars
  <2>2. Leaders'
    BY <2>1 DEF Leading, Leaders, Leads, Began
  <2>3. Followers'
    BY <2>1 DEF Leading, Followers, Replaces, Unreported
  <2>4. NotBegun'
    BY <2>1 DEF Leading, NotBegun, Began, Touched
  <2> QED
    BY <2>2, <2>3, <2>4 DEF Leading
<1> QED
  BY <1>t, <1>1, <1>2, HandKinds

LEMMA LeadingAlways ==
  ASSUME InTurn
  PROVE  Spec => [](Work /\ Turns /\ Fresh /\ Leading)
<1>1. Spec => [](Work /\ Turns)
  BY TurnsAlways
<1>2. Init => Fresh /\ Leading
  BY FreshInit, LeadingInit
<1>3. Work /\ Turns /\ Fresh /\ Leading /\ [Next]_vars => (Fresh /\ Leading)'
  BY FreshStep, LeadingStep
<1> QED
  BY <1>1, <1>2, <1>3, PTL DEF Spec

-----------------------------------------------------------------------------
(* The maximum of a group that nobody helps.                                  *)

Capped == {g \in Parallel : maxTasks[g] > 0}

LEMMA CappedFacts ==
  ASSUME MaxKept, NEW g \in Capped
  PROVE  /\ InTurn /\ g \in Own \cap Parallel
         /\ g \in Parallel /\ g \in Group /\ maxTasks[g] \in Nat /\ maxTasks[g] > 1
         /\ members[g][1] \in Members(g) /\ 1 \in 1..Len(members[g])
<1>1. g \in Parallel /\ g \in Group /\ maxTasks[g] \in Nat /\ maxTasks[g] > 1 /\ g \notin Free \cup Called
  BY GroupsAssumption, Kinds DEF Capped, MaxKept
<1>2. 1 \in 1..Len(members[g])
  BY <1>1, GroupFacts
<1> QED
  BY <1>1, <1>2, GroupFacts DEF Own, MaxKept

\* The first task waits until the others are added.
FirstLast == \A th \in Thread, g \in Capped : Leads(th, g) => ~Touched(members[g][1])

LEMMA FirstLastStep ==
  ASSUME MaxKept, Work, Turns, Fresh, Leaders, FirstLast, NotBegun, [Next]_vars,
         NEW th \in Thread, Hand(th), Moves(th)
  PROVE  FirstLast'
<1> SUFFICES ASSUME NEW th1 \in Thread, NEW g \in Capped, Leads(th1, g)', Touched(members[g][1])'
             PROVE  FALSE
  BY DEF FirstLast, Touched, Leads
<1>t. InTurn /\ g \in Own \cap Parallel /\ g \in Parallel /\ g \in Group /\ members[g][1] \in Members(g) /\ members[g][1] \in Task
  BY CappedFacts, GroupFacts
<1>1. CASE Leads(th1, g)
  <2>1. ~Touched(members[g][1])
    BY <1>1 DEF FirstLast
  <2>2. cur[th] = g /\ pc[th] = "first"
    BY <1>t, <2>1, TouchedInGroup
  <2>3. th = th1
    BY <1>t, <1>1, <2>2 DEF Leaders, Leads
  <2>4. pc'[th] = "first"
    BY <2>2, <2>3 DEF Moves, Leads
  <2> QED
    BY <1>t, <2>1, <2>2, <2>4 DEF Moves, NothingTouched
<1>2. CASE ~Leads(th1, g)
  <2>1. th1 = th /\ pc[th] = "execute" /\ cur[th] = g
    BY <1>2 DEF Leads, Moves
  <2>2. ~Touched(members[g][1])
    BY <1>t, <2>1 DEF NotBegun, Began
  <2> QED
    BY <1>t, <2>1, <2>2, TouchedInGroup
<1> QED
  BY <1>1, <1>2

\* The tasks that take a place in the group: queued, run, or about to be replaced.
Slots(g) == {t \in Members(g) : Touched(t) /\ (Unreported(t) \/ \E th \in Thread : Replaces(th, t))}

\* Who executes a group counts the places it has filled, and keeps one for the first task.
Slotted ==
  \A g \in Capped :
    /\ Cardinality(Slots(g)) <= maxTasks[g]
    /\ \A th \in Thread : Leads(th, g) =>
         /\ pc[th] = "first" => Cardinality(Slots(g)) <= maxTasks[g] - 1
         /\ pc[th] # "first" =>
              scheduled[th] < maxTasks[g] - 1 /\ Cardinality(Slots(g)) <= scheduled[th]

\* A place is taken by a task that is touched, and given up for good.
LEMMA SlotStays ==
  ASSUME Types, [Next]_vars, Hands, NEW th \in Thread, Moves(th), NEW g \in Group,
         NEW x \in Slots(g)', Touched(x)
  PROVE  x \in Slots(g)
<1>1. x \in Members(g) /\ x \in Task /\ (Unreported(x)' \/ \E th1 \in Thread : Replaces(th1, x)')
  BY GroupFacts DEF Slots
<1>2. CASE Unreported(x)'
  BY <1>1, <1>2, Progress DEF Slots
<1>3. ASSUME NEW th1 \in Thread, Replaces(th1, x)' PROVE x \in Slots(g)
  <2>1. CASE Replaces(th1, x)
    BY <1>1, <2>1 DEF Slots
  <2>2. CASE pc[th] = "report" /\ cur[th] = x
    BY <1>1, <2>2 DEF Slots, Unreported
  <2> QED
    BY <1>1, <1>3, <2>1, <2>2, ReplaceKinds
<1> QED
  BY <1>1, <1>2, <1>3

\* Steps that touch no task of the group fill no place of it; those that touch one fill
\* one place, and give one up if they are a follower's.
LEMMA SlotsStep ==
  ASSUME MaxKept, Work, Turns, Fresh, Followers, [Next]_vars,
         NEW th \in Thread, Hand(th), Moves(th), NEW g \in Capped
  PROVE  /\ Cardinality(Slots(g)) \in Nat /\ Cardinality(Slots(g))' \in Nat
         /\ \/ Cardinality(Slots(g))' <= Cardinality(Slots(g))
            \/ /\ Cardinality(Slots(g))' <= Cardinality(Slots(g)) + 1
               /\ \E x \in Members(g) : ~Touched(x) /\ Touched(x)'
               /\ cur[th] = g /\ pc[th] \in {"first", "spawning"}
<1>t. /\ InTurn /\ g \in Own \cap Parallel
      /\ Types /\ Hands /\ g \in Parallel /\ g \in Group /\ IsFiniteSet(Members(g)) /\ Members(g) \subseteq Task
  BY CappedFacts, GroupFacts DEF Work
<1> DEFINE A == Slots(g)
           B == Slots(g)'
<1>1. A \subseteq Members(g) /\ B \subseteq Members(g)
  BY DEF Slots
<1>2. IsFiniteSet(A) /\ IsFiniteSet(B) /\ Cardinality(A) \in Nat /\ Cardinality(B) \in Nat
  BY <1>t, <1>1, FS_Subset, FS_CardinalityType
<1>3. \A x \in B : Touched(x) => x \in A
  BY <1>t, SlotStays
<1>4. \A x \in B : Touched(x)'
  BY DEF Slots
<1>5. CASE \A x \in Members(g) : Touched(x)' => Touched(x)
  <2>1. B \subseteq A
    BY <1>1, <1>3, <1>4, <1>5
  <2>2. Cardinality(B) <= Cardinality(A)
    BY <1>2, <2>1, FS_Subset
  <2> QED
    BY <1>2, <2>2
<1>6. ASSUME NEW x \in Members(g), ~Touched(x), Touched(x)'
      PROVE  \/ Cardinality(B) <= Cardinality(A)
             \/ /\ Cardinality(B) <= Cardinality(A) + 1
                /\ cur[th] = g /\ pc[th] \in {"first", "spawning"}
  <2>1. \A y \in Members(g) : ~Touched(y) /\ Touched(y)' => y = x
    BY <1>t, <1>6, TouchedInGroup
  <2>2. B \subseteq A \cup {x}
    BY <1>1, <1>3, <1>4, <2>1
  <2>3. x \notin A
    BY <1>6 DEF Slots
  <2>4. CASE pc[th] \in {"first", "spawning"}
    <3>1. Cardinality(A \cup {x}) = Cardinality(A) + 1 /\ IsFiniteSet(A \cup {x})
      BY <1>2, <2>3, FS_AddElement
    <3>2. Cardinality(B) <= Cardinality(A) + 1
      BY <2>2, <3>1, FS_Subset
    <3> QED
      BY <1>t, <1>6, <2>4, <3>2, TouchedInGroup
  <2>5. CASE pc[th] = "scheduling"
    <3>1. cur[th] = g /\ pc'[th] \notin {"spawning", "scheduling"}
      BY <1>t, <1>6, <2>5, TouchedInGroup
    <3>2. PICK t \in Members(g) : /\ Replaces(th, t) /\ ~Unreported(t)
                                  /\ \A th2 \in Thread : Replaces(th2, t) => th2 = th
      BY <2>5, <3>1 DEF Followers
    <3>3. t \in Task /\ Touched(t)
      BY <1>t, <3>2 DEF Unreported, Touched
    <3>4. t \in A /\ t # x
      BY <1>6, <3>2, <3>3 DEF Slots
    <3>5. pc'[th] # "schedule"
      BY <1>t, <1>6, <2>5 DEF Moves, NothingTouched
    <3>6. t \notin B
      <4>1. ~Unreported(t)'
        BY <1>t, <3>2, <3>3, Progress
      <4>2. ASSUME NEW th1 \in Thread, Replaces(th1, t)' PROVE FALSE
        <5>1. th1 # th
          BY <3>1, <3>5, <4>2 DEF Replaces
        <5>2. Replaces(th1, t)
          BY <1>t, <3>3, <4>2, <5>1, ReplaceKinds
        <5> QED
          BY <3>2, <5>1, <5>2
      <4> QED
        BY <4>1, <4>2 DEF Slots
    <3>7. B \subseteq (A \ {t}) \cup {x}
      BY <2>2, <3>6
    <3>8. IsFiniteSet(A \ {t}) /\ Cardinality(A \ {t}) = Cardinality(A) - 1
      BY <1>2, <3>4, FS_RemoveElement
    <3>9. IsFiniteSet((A \ {t}) \cup {x}) /\ Cardinality((A \ {t}) \cup {x}) = Cardinality(A) - 1 + 1
      BY <2>3, <3>8, FS_AddElement
    <3>10. Cardinality(B) <= Cardinality((A \ {t}) \cup {x})
      BY <3>7, <3>9, FS_Subset
    <3> QED
      BY <1>2, <3>9, <3>10
  <2> QED
    BY <1>t, <1>6, <2>4, <2>5, TouchedInGroup
<1> QED
  BY <1>2, <1>5, <1>6

LEMMA SlottedStep ==
  ASSUME MaxKept, Work, Turns, Fresh, Leaders, Followers, NotBegun, Slotted, [Next]_vars, Types',
         NEW th \in Thread, Hand(th), Moves(th)
  PROVE  Slotted'
<1> SUFFICES ASSUME NEW g \in Capped
             PROVE  /\ Cardinality(Slots(g))' <= maxTasks[g]
                    /\ \A th1 \in Thread : Leads(th1, g)' =>
                         /\ pc'[th1] = "first" => Cardinality(Slots(g))' <= maxTasks[g] - 1
                         /\ pc'[th1] # "first" =>
                              /\ scheduled'[th1] < maxTasks[g] - 1
                              /\ Cardinality(Slots(g))' <= scheduled'[th1]
  BY DEF Slotted, Leads
<1>t. /\ InTurn /\ g \in Own \cap Parallel
      /\ g \in Parallel /\ g \in Group /\ Types /\ Hands
      /\ \A th1 \in Thread : scheduled[th1] \in Nat /\ scheduled'[th1] \in Nat
  BY CappedFacts DEF Work, Types, ThreadTypes
<1> DEFINE m == maxTasks[g]
           n == Cardinality(Slots(g))
           k == Cardinality(Slots(g))'
<1>m. m \in Nat /\ m > 1 /\ maxTasks[g] > 0
  BY CappedFacts DEF Capped
<1>1. /\ n \in Nat /\ k \in Nat
      /\ k <= n \/ (k <= n + 1 /\ cur[th] = g /\ pc[th] \in {"first", "spawning"}
                    /\ \E x \in Members(g) : ~Touched(x) /\ Touched(x)')
  BY SlotsStep
<1>2. /\ n <= m
      /\ \A th1 \in Thread : Leads(th1, g) =>
           /\ pc[th1] = "first" => n <= m - 1
           /\ pc[th1] # "first" => scheduled[th1] < m - 1 /\ n <= scheduled[th1]
  BY DEF Slotted
<1>3. cur[th] = g /\ pc[th] \in {"first", "spawning"} => Leads(th, g)
  BY DEF Leads
<1>4. (\E x \in Members(g) : ~Touched(x) /\ Touched(x)') => ~NothingTouched
  BY <1>t, GroupFacts DEF NothingTouched
<1>5. ~Began(g) => n = 0
  <2>1. ~Began(g) => Slots(g) = {}
    BY <1>t, GroupFacts DEF NotBegun, Slots
  <2> QED
    BY <2>1, FS_EmptySet
<1> HIDE DEF m, n, k
<1>6. k <= m
  BY <1>t, <1>m, <1>1, <1>2, <1>3
<1>7. ASSUME NEW th1 \in Thread, Leads(th1, g)'
      PROVE  /\ pc'[th1] = "first" => k <= m - 1
             /\ pc'[th1] # "first" => scheduled'[th1] < m - 1 /\ k <= scheduled'[th1]
  <2>1. CASE th1 # th
    <3>1. Leads(th1, g) /\ pc'[th1] = pc[th1] /\ scheduled'[th1] = scheduled[th1]
      BY <1>7, <2>1 DEF Moves, Leads
    <3>2. ~Leads(th, g)
      BY <1>t, <2>1, <3>1 DEF Leaders
    <3>3. k <= n
      BY <1>1, <1>3, <3>2
    <3> QED
      BY <1>t, <1>m, <1>1, <1>2, <3>1, <3>3
  <2>2. CASE th1 = th /\ ~Leads(th, g)
    <3>1. pc[th] = "execute" /\ cur[th] = g /\ pc'[th] = "spawn" /\ scheduled'[th] = 0
      BY <1>7, <2>2 DEF Moves, Leads
    <3>2. n = 0
      BY <1>5, <3>1 DEF Began
    <3>3. k <= n
      BY <1>1, <3>1
    <3> QED
      BY <1>m, <1>1, <2>2, <3>1, <3>2, <3>3
  <2>3. CASE th1 = th /\ Leads(th, g) /\ pc'[th] = pc[th] /\ scheduled'[th] = scheduled[th]
    <3>1. k <= n \/ pc[th] # "spawning"
      <4> SUFFICES ASSUME pc[th] = "spawning", ~(k <= n) PROVE FALSE
        OBVIOUS
      <4>1. PICK x \in Members(g) : ~Touched(x) /\ Touched(x)'
        BY <1>1
      <4> QED
        BY <1>t, <2>3, <4>1, TouchedInGroup
    <3>2. k <= n \/ pc[th] # "first"
      BY <1>1, <1>4, <2>3 DEF Moves
    <3>3. k <= n
      BY <1>1, <3>1, <3>2
    <3> QED
      BY <1>t, <1>m, <1>1, <1>2, <2>3, <3>3
  <2>4. CASE th1 = th /\ Leads(th, g) /\ pc[th] = "spawn" /\ scheduled'[th] = scheduled[th]
    <3>1. k <= n
      BY <1>1, <2>4
    <3> QED
      BY <1>t, <1>m, <1>1, <1>2, <2>4, <3>1
  <2>5. CASE /\ th1 = th /\ Leads(th, g) /\ pc[th] = "spawning" /\ pc'[th] = "spawn"
             /\ scheduled'[th] = scheduled[th] /\ NothingTouched
    <3>1. k <= n
      BY <1>1, <1>4, <2>5
    <3> QED
      BY <1>t, <1>m, <1>1, <1>2, <2>5, <3>1
  <2>6. CASE /\ th1 = th /\ Leads(th, g) /\ pc[th] = "spawning" /\ pc'[th] # "spawning"
             /\ Spawns(th)
    <3>1. scheduled'[th] = scheduled[th] + 1 /\ (pc'[th] = "spawn" => scheduled'[th] < m - 1)
      BY <1>m, <2>6 DEF Spawns, Leads, m
    <3>2. pc'[th] = "first" \/ pc'[th] = "spawn"
      BY <1>7, <2>6 DEF Leads
    <3>3. k <= scheduled[th] + 1 /\ scheduled[th] + 1 <= m - 1
      BY <1>t, <1>m, <1>1, <1>2, <2>6
    <3> QED
      BY <1>t, <1>m, <1>1, <2>6, <3>1, <3>2, <3>3
  <2> QED
    BY <1>7, <2>1, <2>2, <2>3, <2>4, <2>5, <2>6 DEF Moves, Leads
<1> QED
  BY <1>6, <1>7 DEF m, k

Room == FirstLast /\ Slotted

LEMMA RoomInit == ASSUME MaxKept PROVE Init => Room
<1> SUFFICES ASSUME Init PROVE Room
  OBVIOUS
<1>1. \A th \in Thread : pc[th] = "idle"
  BY DEF Init
<1>2. \A t \in Task : ~Touched(t)
  BY Kinds DEF Init, Touched
<1>3. Slotted
  <2> SUFFICES ASSUME NEW g \in Capped PROVE Cardinality(Slots(g)) <= maxTasks[g]
    BY <1>1 DEF Slotted, Leads
  <2>1. maxTasks[g] \in Nat /\ g \in Group
    BY CappedFacts
  <2>2. Slots(g) = {}
    BY <1>2, <2>1, GroupFacts DEF Slots
  <2> QED
    BY <2>1, <2>2, FS_EmptySet
<1> QED
  BY <1>1, <1>3 DEF Room, FirstLast, Leads

LEMMA RoomStep ==
  ASSUME MaxKept, Work, Turns, Fresh, Leading, Room, [Next]_vars
  PROVE  Room'
<1>t. Types /\ Hands /\ Types'
  BY TypesStep DEF Work
<1>1. ASSUME NEW th \in Thread, Acts(th), Hand(th) PROVE Room'
  <2>1. Moves(th)
    BY <1>t, <1>1, MoveKinds
  <2>2. FirstLast'
    BY <1>1, <2>1, FirstLastStep DEF Room, Leading
  <2>3. Slotted'
    BY <1>t, <1>1, <2>1, SlottedStep DEF Room, Leading
  <2> QED
    BY <2>2, <2>3 DEF Room
<1>2. CASE UNCHANGED vars
  <2>1. UNCHANGED <<pending, grabbed, done, adding, pc, cur, scheduled, frames>>
    BY <1>2 DEF vars, taskVars, addVars, callVars
  <2>2. FirstLast'
    BY <2>1 DEF Room, FirstLast, Leads, Touched
  <2>3. ASSUME NEW g \in Capped PROVE Slots(g)' = Slots(g)
    BY <2>1 DEF Slots, Touched, Unreported, Replaces
  <2>4. Slotted'
    BY <2>1, <2>3 DEF Room, Slotted, Leads
  <2> QED
    BY <2>2, <2>4 DEF Room
<1> QED
  BY <1>t, <1>1, <1>2, HandKinds

\* A group that nobody helps runs no more of its tasks at a time than its maximum.
THEOREM MaximumHolds == ASSUME MaxKept PROVE Spec => []AtMostMaxTasks
<1>0. InTurn
  BY DEF MaxKept
<1>1. Spec => [](Work /\ Turns /\ Fresh /\ Leading)
  BY <1>0, LeadingAlways
<1>2. Init => Room
  BY RoomInit
<1>3. Work /\ Turns /\ Fresh /\ Leading /\ Room /\ [Next]_vars => Room'
  BY RoomStep
<1>4. Room => AtMostMaxTasks
  <2> SUFFICES ASSUME Room, NEW g \in Parallel, maxTasks[g] > 0
               PROVE  Cardinality(Running(g)) <= maxTasks[g]
    BY DEF AtMostMaxTasks
  <2>1. g \in Capped /\ g \in Group /\ maxTasks[g] \in Nat
    BY CappedFacts DEF Capped
  <2>2. Running(g) \subseteq Slots(g) /\ Slots(g) \subseteq Members(g)
    BY DEF Running, Slots, Touched, Unreported
  <2>3. IsFiniteSet(Slots(g)) /\ IsFiniteSet(Running(g))
    BY <2>1, <2>2, GroupFacts, FS_Subset
  <2>4. Cardinality(Running(g)) <= Cardinality(Slots(g)) /\ Cardinality(Slots(g)) <= maxTasks[g]
    BY <2>1, <2>2, <2>3, FS_Subset DEF Room, Slotted
  <2>5. Cardinality(Running(g)) \in Nat /\ Cardinality(Slots(g)) \in Nat
    BY <2>3, FS_CardinalityType
  <2> QED
    BY <2>1, <2>4, <2>5
<1> QED
  BY <1>1, <1>2, <1>3, <1>4, PTL DEF Spec

-----------------------------------------------------------------------------
(* The hooks of the contexts.                                                 *)

\* A context hears of the task that a thread executes, or notifies the end of.
Sounds(th) ==
  /\ hooks' = IF pc[th] = "execute" THEN [hooks EXCEPT ![cur[th]] = Append(@, "pre")]
              ELSE IF pc[th] = "notify" THEN [hooks EXCEPT ![cur[th]] = Append(@, "post")]
              ELSE hooks
  /\ notified' = IF pc[th] = "notify" THEN [notified EXCEPT ![cur[th]] = TRUE] ELSE notified

LEMMA SoundKinds ==
  ASSUME Types, NEW th \in Thread, Acts(th)
  PROVE  Sounds(th)
<1>t. Place(th)
  BY DEF Types
<1> USE DEF At, Goto, On, Hook, Add, EnterParent, taskVars, groupVars, addVars, callVars, helpVars
<1>1. ASSUME TestTask(th) PROVE Sounds(th)
  BY <1>1, <1>t, Kinds DEF TestTask, Sounds, Place, Neutral
<1>2. ASSUME AskParent(th) PROVE Sounds(th)
  BY <1>2, <1>t, InheritTasks, Kinds DEF AskParent, Sounds, Place, Neutral
<1>3. ASSUME PushTask(th) PROVE Sounds(th)
  BY <1>3, <1>t, Kinds DEF PushTask, Sounds, Place, Neutral
<1>4. ASSUME Verify(th) PROVE Sounds(th)
  BY <1>4 DEF Verify, Sounds
<1>5. ASSUME ExecuteTask(th) PROVE Sounds(th)
  BY <1>5 DEF ExecuteTask, Sounds
<1>6. ASSUME CallGroup(th) PROVE Sounds(th)
  BY <1>6 DEF CallGroup, Sounds
<1>7. ASSUME FinishCaller(th) PROVE Sounds(th)
  BY <1>7 DEF FinishCaller, Sounds
<1>8. ASSUME ExecuteSequence(th) PROVE Sounds(th)
  BY <1>8 DEF ExecuteSequence, Sounds
<1>9. ASSUME ExecuteParallel(th) PROVE Sounds(th)
  BY <1>9 DEF ExecuteParallel, Sounds
<1>10. ASSUME FetchIndex(th) PROVE Sounds(th)
  <2>1. PICK label \in {"spawning", "scheduling", "first", "return"} : Fetched(th, label)
    BY <1>10, FetchKinds
  <2> QED
    BY <2>1 DEF Fetched, Sounds
<1>11. ASSUME SpawnTask(th) PROVE Sounds(th)
  BY <1>11 DEF SpawnTask, Sounds
<1>12. ASSUME GrabFirst(th) PROVE Sounds(th)
  BY <1>12 DEF GrabFirst, Sounds
<1>13. ASSUME NotifyTask(th) PROVE Sounds(th)
  BY <1>13 DEF NotifyTask, Sounds
<1>14. ASSUME ReportToNobody(th) PROVE Sounds(th)
  BY <1>14 DEF ReportToNobody, Sounds
<1>15. ASSUME ReportToParallel(th) PROVE Sounds(th)
  BY <1>15 DEF ReportToParallel, Sounds
<1>16. ASSUME ScheduleNext(th) PROVE Sounds(th)
  BY <1>16 DEF ScheduleNext, Sounds
<1>17. ASSUME ReportToSequence(th) PROVE Sounds(th)
  BY <1>17 DEF ReportToSequence, Sounds
<1>18. ASSUME JoinGroup(th) PROVE Sounds(th)
  BY <1>18 DEF JoinGroup, Sounds
<1>19. ASSUME ResetParent(th) PROVE Sounds(th)
  BY <1>19 DEF ResetParent, Sounds
<1>20. ASSUME Return(th) PROVE Sounds(th)
  BY <1>20 DEF Return, Sounds
<1>21. ASSUME Help(th) PROVE Sounds(th)
  BY <1>21 DEF Help, Sounds
<1>22. ASSUME HelpEnds(th) PROVE Sounds(th)
  BY <1>22 DEF HelpEnds, Sounds
<1>23. ASSUME WaitReturns(th) PROVE Sounds(th)
  BY <1>23 DEF WaitReturns, Sounds
<1>24. ASSUME CallReturns(th) PROVE Sounds(th)
  BY <1>24 DEF CallReturns, Sounds
<1>25. ASSUME NEW t \in Task, PopTask(th, t) PROVE Sounds(th)
  BY <1>25 DEF PopTask, Sounds
<1>26. ASSUME NEW t \in Task, Submit(th, t) PROVE Sounds(th)
  BY <1>26 DEF Submit, Sounds
<1>27. ASSUME NEW t \in Task, ActiveWaitTask(th, t) PROVE Sounds(th)
  BY <1>27 DEF ActiveWaitTask, Sounds
<1>28. ASSUME NEW t \in Task, Wait(th, t) PROVE Sounds(th)
  BY <1>28 DEF Wait, Sounds
<1>29. ASSUME NEW g \in Parallel, ActiveWaitGroup(th, g) PROVE Sounds(th)
  BY <1>29 DEF ActiveWaitGroup, Sounds
<1> QED
  BY <1>1, <1>2, <1>3, <1>4, <1>5, <1>6, <1>7, <1>8, <1>9, <1>10, <1>11, <1>12, <1>13, <1>14, <1>15, <1>16, <1>17, <1>18, <1>19, <1>20, <1>21, <1>22, <1>23, <1>24, <1>25, <1>26, <1>27, <1>28, <1>29 DEF Acts, Continue

Opened(t) == hooks[t] # <<>> /\ hooks[t][1] = "pre"

LEMMA HeardMore ==
  ASSUME Types, NEW th \in Thread, Sounds(th), NEW t \in Task
  PROVE  /\ Heard(t, "pre")' <=> Heard(t, "pre") \/ (pc[th] = "execute" /\ cur[th] = t)
         /\ Heard(t, "post")' <=> Heard(t, "post") \/ (pc[th] = "notify" /\ cur[th] = t)
         /\ notified'[t] <=> notified[t] \/ (pc[th] = "notify" /\ cur[th] = t)
         /\ Opened(t) => Opened(t)'
         /\ hooks[t] = <<>> /\ pc[th] = "execute" /\ cur[th] = t => Opened(t)'
<1>t. hooks \in [Task -> Seq({"pre", "post"})] /\ notified \in [Task -> BOOLEAN]
  BY DEF Types, TaskTypes, HookTypes
<1>1. ASSUME NEW h \in {"pre", "post"}, hooks'[t] = Append(hooks[t], h)
      PROVE  /\ \A x \in {"pre", "post"} : Heard(t, x)' <=> Heard(t, x) \/ x = h
             /\ Opened(t) => Opened(t)'
             /\ hooks[t] = <<>> /\ h = "pre" => Opened(t)'
  <2> DEFINE n == Len(hooks[t])
  <2>1. /\ n \in Nat /\ DOMAIN hooks[t] = 1..n /\ DOMAIN hooks'[t] = 1..(n + 1)
        /\ \A i \in 1..n : hooks'[t][i] = hooks[t][i]
        /\ hooks'[t][n + 1] = h
        /\ hooks'[t] # <<>>
        /\ hooks[t] # <<>> => n > 0
        /\ hooks[t] = <<>> => n = 0
    BY <1>t, <1>1, AppendFacts, LenProperties, EmptySeq
  <2> HIDE DEF n
  <2>2. ASSUME NEW x \in {"pre", "post"} PROVE Heard(t, x)' <=> Heard(t, x) \/ x = h
    BY <2>1 DEF Heard
  <2>3. Opened(t) => Opened(t)'
    BY <2>1 DEF Opened
  <2>4. hooks[t] = <<>> /\ h = "pre" => Opened(t)'
    BY <2>1 DEF Opened
  <2> QED
    BY <2>2, <2>3, <2>4
<1>2. CASE pc[th] = "execute" /\ cur[th] = t
  <2>1. hooks'[t] = Append(hooks[t], "pre") /\ UNCHANGED notified
    BY <1>t, <1>2 DEF Sounds
  <2> QED
    BY <1>1, <1>2, <2>1
<1>3. CASE pc[th] = "notify" /\ cur[th] = t
  <2>1. hooks'[t] = Append(hooks[t], "post") /\ notified'[t]
    BY <1>t, <1>3 DEF Sounds
  <2> QED
    BY <1>1, <1>3, <2>1
<1>4. CASE ~(pc[th] \in {"execute", "notify"} /\ cur[th] = t)
  <2>1. UNCHANGED <<hooks[t], notified[t]>>
    BY <1>t, <1>4 DEF Sounds
  <2> QED
    BY <1>4, <2>1 DEF Heard, Opened
<1> QED
  BY <1>2, <1>3, <1>4

\* What has heard of its execution is past it, and what has heard of its end is notified;
PreBegan == \A t \in Task : Heard(t, "pre") => Began(t)

PostNotified == \A t \in Task : Heard(t, "post") <=> notified[t]

\* the end of a task is notified, once.
Notifying ==
  /\ \A th \in Thread, t \in Task : cur[th] = t /\ pc[th] = "notify" => ~notified[t]
  /\ \A t \in Task :
       done[t] => notified[t] \/ \E th \in Thread : cur[th] = t /\ pc[th] = "notify"

HeardOnce == \A t \in Task : \A i, j \in DOMAIN hooks[t] : hooks[t][i] = hooks[t][j] => i = j

\* A function that has been called, and a group that has begun in its turn, have heard of it.
Busy(t) == done[t] \/ \E th \in Thread : InCall(th, t) \/ (cur[th] = t /\ pc[th] = "called")

UnitOpened == \A t \in Unit : Busy(t) => Opened(t)

OwnOpened == \A g \in Own : Began(g) => Opened(g)

Heeded == PreBegan /\ PostNotified /\ Notifying /\ HeardOnce /\ UnitOpened /\ OwnOpened

LEMMA HeededInit == Init => Heeded
<1> SUFFICES ASSUME Init PROVE Heeded
  OBVIOUS
<1>1. /\ \A t \in Task : hooks[t] = <<>> /\ ~grabbed[t] /\ ~done[t] /\ ~notified[t]
      /\ \A th \in Thread : pc[th] = "idle" /\ outer[th] = <<>>
  BY DEF Init
<1>2. PreBegan /\ PostNotified /\ HeardOnce
  BY <1>1 DEF PreBegan, PostNotified, HeardOnce, Heard
<1>3. Notifying
  BY <1>1 DEF Notifying
<1>4. UnitOpened
  BY <1>1, Kinds DEF UnitOpened, Busy, InCall
<1>5. OwnOpened
  BY <1>1, OwnFacts DEF OwnOpened, Began
<1> QED
  BY <1>2, <1>3, <1>4, <1>5 DEF Heeded

\* Once a task is executed, it is executed no more.
LEMMA LeavesExecute ==
  ASSUME Types, Hands, NEW th \in Thread, Form(th), [Next]_vars, NEW t \in Task,
         cur[th] = t, pc[th] = "execute"
  PROVE  Began(t)'
<1>1. grabbed[t] /\ grabbed'[t]
  <2>1. grabbed[t]
    BY DEF Hands, RunGrabbed, Runs
  <2> QED
    BY <2>1, Progress
<1>2. \A th2 \in Thread \ {th} : ~(cur[th2] = t /\ pc[th2] \in {"verify", "execute"})
  BY DEF Hands, RunOnce, Runs
<1>3. Still(th)
  BY DEF Form, Wander, Keep, Drop, Finish, Tell, TellNobody, Leave, ComeBack, Take, TellParallel,
    TellSequence, Start, Plain, Report
<1>4. ~(cur'[th] = t /\ pc'[th] \in {"verify", "execute"})
  BY <1>1 DEF Form, Wander, Keep, Drop, Finish, Tell, TellNobody, Leave, ComeBack, Take, TellParallel,
    TellSequence, Start, Report, Neutral
<1> QED
  BY <1>1, <1>2, <1>3, <1>4 DEF Began, Still

\* It has heard of nothing before.
LEMMA FirstHook ==
  ASSUME Types, Callers, Heeded, NEW th \in Thread, NEW t \in Task,
         cur[th] = t, pc[th] = "execute", ~done[t]
  PROVE  hooks[t] = <<>>
<1>1. ~Heard(t, "pre")
  BY DEF Heeded, PreBegan, Began
<1>2. ~Heard(t, "post")
  BY DEF Heeded, PostNotified, Callers, NotifiedDone
<1>3. hooks[t] \in Seq({"pre", "post"})
  BY DEF Types, HookTypes
<1>4. hooks[t] # <<>> => 1 \in DOMAIN hooks[t] /\ hooks[t][1] \in {"pre", "post"}
  BY <1>3, FrontFacts
<1> QED
  BY <1>1, <1>2, <1>4 DEF Heard

\* A group nobody helps begins before its tasks are touched, and before it is done.
LEMMA OwnBegins ==
  ASSUME Work, Turns, Leading, NEW g \in Own
  PROVE  /\ \A t \in Members(g) : Touched(t) => Began(g)
         /\ done[g] => Began(g)
<1>t. g \in Group /\ g \in Task
  BY OwnFacts
<1>1. ASSUME NEW t \in Members(g), Touched(t) PROVE Began(g)
  <2>1. t \in Task
    BY <1>t, GroupFacts
  <2>2. CASE g \in Parallel
    BY <1>1, <2>1, <2>2 DEF Leading, NotBegun
  <2>3. CASE g \in Sequence
    <3>1. PICK i \in 1..Len(members[g]) : members[g][i] = t
      BY <1>t, GroupFacts DEF Members
    <3>2. i <= Popped(g) /\ (Began(g) \/ Popped(g) = 0)
      BY <1>1, <2>3, <3>1 DEF Turns, SequenceTurns
    <3>3. i # 0 /\ ~(i <= 0)
      BY <1>t, GroupFacts
    <3> QED
      BY <3>2, <3>3
  <2> QED
    BY <1>t, <2>2, <2>3 DEF Group
<1>2. ASSUME done[g] PROVE Began(g)
  <2>1. PICK t \in Members(g) : TRUE
    BY <1>t, GroupFacts
  <2>2. done[t]
    BY <1>t, <1>2 DEF Work, Counts, NothingLeft, Left, Unreported
  <2> QED
    BY <1>1, <2>2 DEF Touched
<1> QED
  BY <1>1, <1>2

LEMMA HeedKinds ==
  ASSUME Types, NEW th \in Thread, Form(th), [Next]_vars
  PROVE  /\ Still(th)
         /\ pc[th] = "notify" => pc'[th] = "report"
         /\ pc'[th] = "notify" => Finish(th)
         /\ \A t : pc'[th] = "called" /\ cur'[th] = t => InCall(th, t)
         /\ \A t \in Task : done'[t] => done[t] \/ (Finish(th) /\ cur[th] = t)
         /\ \A t \in Task : InCall(th, t)' => InCall(th, t) \/ (pc[th] = "execute" /\ cur[th] = t)
<1>t. outer[th] \in Seq(Suspended)
  BY DEF Types, ThreadTypes
<1>1. Still(th)
  BY DEF Form, Wander, Keep, Drop, Finish, Tell, TellNobody, Leave, ComeBack, Take, TellParallel,
    TellSequence, Start, Plain, Report
<1>2. /\ pc[th] = "notify" => pc'[th] = "report"
      /\ pc'[th] = "notify" => Finish(th)
  BY DEF Form, Wander, Keep, Drop, Tell, TellNobody, Leave, ComeBack, Take, TellParallel,
    TellSequence, Start, Report, Neutral, Finish
<1>3. ASSUME NEW t, pc'[th] = "called", cur'[th] = t PROVE InCall(th, t)
  <2>1. ComeBack(th)
    BY <1>3 DEF Form, Wander, Keep, Drop, Tell, TellNobody, Leave, Take, TellParallel,
      TellSequence, Start, Report, Neutral, Finish
  <2>2. Len(outer[th]) \in DOMAIN outer[th]
    BY <1>t, <2>1, FrontFacts DEF ComeBack
  <2> QED
    BY <1>3, <2>1, <2>2 DEF ComeBack, InCall
<1>4. ASSUME NEW t \in Task, done'[t], ~done[t] PROVE Finish(th) /\ cur[th] = t
  <2>1. PICK th2 \in Thread : Finish(th2) /\ cur[th2] = t
    BY <1>4, DoneKinds
  <2>2. th2 = th
    BY <1>1, <2>1 DEF Finish, Still
  <2> QED
    BY <2>1, <2>2
<1>5. ASSUME NEW t \in Task, InCall(th, t)' PROVE InCall(th, t) \/ (pc[th] = "execute" /\ cur[th] = t)
  <2>1. CASE UNCHANGED outer[th]
    BY <1>5, <2>1 DEF InCall
  <2>2. CASE Leave(th)
    <3>1. PICK o \in Suspended : o.task = cur[th] /\ outer'[th] = Append(outer[th], o)
      BY <2>2 DEF Leave
    <3> DEFINE n == Len(outer[th])
    <3>2. /\ n \in Nat /\ DOMAIN outer[th] = 1..n /\ DOMAIN outer'[th] = 1..(n + 1)
          /\ \A i \in 1..n : outer'[th][i] = outer[th][i]
          /\ outer'[th][n + 1] = o
      BY <1>t, <3>1, AppendFacts, LenProperties
    <3> HIDE DEF n
    <3>3. \A i \in DOMAIN outer'[th] : \/ i \in DOMAIN outer[th] /\ outer'[th][i] = outer[th][i]
                                       \/ outer'[th][i] = o
      BY <3>2
    <3> QED
      BY <1>5, <2>2, <3>1, <3>3 DEF InCall, Leave
  <2>3. CASE ComeBack(th)
    <3> DEFINE n == Len(outer[th])
    <3>1. /\ n \in Nat \ {0} /\ DOMAIN outer[th] = 1..n /\ DOMAIN outer'[th] = 1..(n - 1)
          /\ \A i \in 1..(n - 1) : outer'[th][i] = outer[th][i]
      BY <1>t, <2>3, FrontFacts DEF ComeBack
    <3> HIDE DEF n
    <3>2. \A i \in DOMAIN outer'[th] : i \in DOMAIN outer[th] /\ outer'[th][i] = outer[th][i]
      BY <3>1
    <3> QED
      BY <1>5, <3>2 DEF InCall
  <2> QED
    BY <2>1, <2>2, <2>3 DEF Form, Wander, Keep, Drop, Finish, Tell, TellNobody, Take, TellParallel,
      TellSequence, Start, Plain, Report
<1> QED
  BY <1>1, <1>2, <1>3, <1>4, <1>5

LEMMA HeededStep ==
  ASSUME Work, Turns, Leading, Callers, Heeded, [Next]_vars, NEW th \in Thread, Acts(th)
  PROVE  Heeded'
<1>t. Types /\ Hands /\ Form(th) /\ Sounds(th) /\ Still(th)
  BY ActKinds, SoundKinds, HeedKinds DEF Work
<1>h. PreBegan /\ PostNotified /\ Notifying /\ HeardOnce /\ UnitOpened /\ OwnOpened
  BY DEF Heeded
<1>1. PreBegan'
  <2> SUFFICES ASSUME NEW t \in Task, Heard(t, "pre")' PROVE Began(t)'
    BY DEF PreBegan, Heard
  <2>1. CASE Heard(t, "pre")
    BY <1>t, <1>h, <2>1, Progress DEF PreBegan
  <2>2. CASE pc[th] = "execute" /\ cur[th] = t
    BY <1>t, <2>2, LeavesExecute
  <2> QED
    BY <1>t, <2>1, <2>2, HeardMore
<1>2. PostNotified'
  <2> SUFFICES ASSUME NEW t \in Task PROVE Heard(t, "post")' <=> notified'[t]
    BY DEF PostNotified, Heard
  <2> QED
    BY <1>t, <1>h, HeardMore DEF PostNotified
<1>3. Notifying'
  <2>1. ASSUME NEW th1 \in Thread, NEW t \in Task, cur'[th1] = t, pc'[th1] = "notify" PROVE ~notified'[t]
    <3>1. CASE th1 # th
      <4>1. cur[th1] = t /\ pc[th1] = "notify"
        BY <1>t, <2>1, <3>1 DEF Still
      <4>2. ~(cur[th] = t /\ pc[th] = "notify")
        BY <1>t, <3>1, <4>1 DEF Hands, EndOnce, Ends
      <4> QED
        BY <1>t, <1>h, <4>1, <4>2, HeardMore DEF Notifying
    <3>2. CASE th1 = th
      <4>1. Finish(th) /\ cur[th] = t
        BY <1>t, <2>1, <3>2, HeedKinds DEF Finish
      <4>2. ~done[t] /\ pc[th] # "notify"
        BY <1>t, <4>1, Kinds DEF Finish, Hands, RunGrabbed, Runs, EndDone, Ends
      <4> QED
        BY <1>t, <4>2, HeardMore DEF Callers, NotifiedDone
    <3> QED
      BY <3>1, <3>2
  <2>2. ASSUME NEW t \in Task, done'[t], ~notified'[t]
        PROVE  \E th1 \in Thread : cur'[th1] = t /\ pc'[th1] = "notify"
    <3>1. ~notified[t] /\ ~(pc[th] = "notify" /\ cur[th] = t)
      BY <1>t, <2>2, HeardMore
    <3>2. CASE done[t]
      <4>1. PICK th1 \in Thread : cur[th1] = t /\ pc[th1] = "notify"
        BY <1>h, <3>1, <3>2 DEF Notifying
      <4> QED
        BY <1>t, <3>1, <4>1 DEF Still
    <3>3. CASE ~done[t]
      BY <1>t, <2>2, <3>3, HeedKinds DEF Finish
    <3> QED
      BY <3>2, <3>3
  <2> QED
    BY <2>1, <2>2 DEF Notifying
<1>4. HeardOnce'
  <2> SUFFICES ASSUME NEW t \in Task
               PROVE  \A i, j \in DOMAIN hooks'[t] : hooks'[t][i] = hooks'[t][j] => i = j
    BY DEF HeardOnce
  <2>0. hooks[t] \in Seq({"pre", "post"}) /\ \A i, j \in DOMAIN hooks[t] : hooks[t][i] = hooks[t][j] => i = j
    BY <1>t, <1>h DEF Types, HookTypes, HeardOnce
  <2>1. ASSUME NEW h \in {"pre", "post"}, ~Heard(t, h), hooks'[t] = Append(hooks[t], h)
        PROVE  \A i, j \in DOMAIN hooks'[t] : hooks'[t][i] = hooks'[t][j] => i = j
    <3> DEFINE n == Len(hooks[t])
    <3>1. /\ n \in Nat /\ DOMAIN hooks[t] = 1..n /\ DOMAIN hooks'[t] = 1..(n + 1)
          /\ \A i \in 1..n : hooks'[t][i] = hooks[t][i]
          /\ hooks'[t][n + 1] = h
      BY <2>0, <2>1, AppendFacts, LenProperties
    <3> HIDE DEF n
    <3>2. \A i \in 1..n : hooks[t][i] # h
      BY <2>1, <3>1 DEF Heard
    <3>3. \A i \in 1..(n + 1) : i \in 1..n \/ i = n + 1
      BY <3>1
    <3> QED
      BY <2>0, <3>1, <3>2, <3>3
  <2>2. CASE pc[th] = "execute" /\ cur[th] = t
    <3>1. ~Heard(t, "pre")
      BY <1>h, <2>2 DEF PreBegan, Began
    <3>2. hooks'[t] = Append(hooks[t], "pre")
      BY <1>t, <2>2 DEF Sounds, Types, HookTypes
    <3> QED
      BY <2>1, <3>1, <3>2
  <2>3. CASE pc[th] = "notify" /\ cur[th] = t
    <3>1. ~Heard(t, "post")
      BY <1>h, <2>3 DEF Notifying, PostNotified
    <3>2. hooks'[t] = Append(hooks[t], "post")
      BY <1>t, <2>3 DEF Sounds, Types, HookTypes
    <3> QED
      BY <2>1, <3>1, <3>2
  <2>4. CASE ~(pc[th] \in {"execute", "notify"} /\ cur[th] = t)
    <3>1. hooks'[t] = hooks[t]
      BY <1>t, <2>4 DEF Sounds, Types, HookTypes
    <3> QED
      BY <2>0, <3>1
  <2> QED
    BY <2>2, <2>3, <2>4
<1>5. UnitOpened'
  <2> SUFFICES ASSUME NEW t \in Unit, Busy(t)' PROVE Opened(t)'
    BY DEF UnitOpened, Busy, Opened
  <2>0. t \in Task
    BY Kinds
  <2>1. CASE Busy(t)
    BY <1>t, <1>h, <2>0, <2>1, HeardMore DEF UnitOpened
  <2>2. CASE pc[th] = "execute" /\ cur[th] = t
    <3>1. ~done[t]
      BY <1>t, <2>0, <2>2 DEF Hands, RunGrabbed, Runs
    <3> QED
      BY <1>t, <2>0, <2>2, <3>1, FirstHook, HeardMore
  <2>3. ASSUME done'[t] PROVE Busy(t) \/ (pc[th] = "execute" /\ cur[th] = t)
    <3>1. done[t] \/ (Finish(th) /\ cur[th] = t)
      BY <1>t, <2>0, <2>3, HeedKinds
    <3> QED
      BY <3>1, Kinds DEF Finish, Busy
  <2>4. ASSUME NEW th1 \in Thread, InCall(th1, t)' PROVE Busy(t) \/ (pc[th] = "execute" /\ cur[th] = t)
    <3>1. CASE th1 # th
      BY <1>t, <2>4, <3>1, OthersHold DEF Busy
    <3>2. CASE th1 = th
      BY <1>t, <2>0, <2>4, <3>2, HeedKinds DEF Busy
    <3> QED
      BY <3>1, <3>2
  <2>5. ASSUME NEW th1 \in Thread, cur'[th1] = t, pc'[th1] = "called" PROVE Busy(t)
    <3>1. CASE th1 # th
      BY <1>t, <2>5, <3>1 DEF Busy, Still
    <3>2. CASE th1 = th
      BY <1>t, <2>0, <2>5, <3>2, HeedKinds DEF Busy
    <3> QED
      BY <3>1, <3>2
  <2> QED
    BY <2>1, <2>2, <2>3, <2>4, <2>5 DEF Busy
<1>6. OwnOpened'
  <2> SUFFICES ASSUME NEW g \in Own, Began(g)' PROVE Opened(g)'
    BY DEF OwnOpened, Began, Opened
  <2>0. g \in Task /\ g \in Group
    BY OwnFacts
  <2>1. CASE Began(g)
    BY <1>t, <1>h, <2>0, <2>1, HeardMore DEF OwnOpened
  <2>2. CASE ~Began(g)
    <3>1. ~done[g]
      BY <2>2, OwnBegins
    <3>2. grabbed'[g] /\ ~(cur'[th] = g /\ pc'[th] \in {"verify", "execute"})
      BY DEF Began
    <3>3. grabbed[g]
      BY <1>t, <2>0, <3>1, <3>2 DEF Form, Wander, Keep, Drop, Finish, Tell, TellNobody, Leave, ComeBack,
        Take, TellParallel, TellSequence, Start, Report
    <3>4. PICK th1 \in Thread : cur[th1] = g /\ pc[th1] \in {"verify", "execute"}
      BY <2>2, <3>3 DEF Began
    <3>5. th1 = th
      BY <1>t, <3>4 DEF Still, Began
    <3>6. pc[th] = "execute"
      BY <3>1, <3>2, <3>4, <3>5, <1>t DEF Form, Wander, Keep, Drop, Finish, Tell, TellNobody, Leave,
        ComeBack, Take, TellParallel, TellSequence, Start, Report, Neutral
    <3> QED
      BY <1>t, <2>0, <3>1, <3>4, <3>5, <3>6, FirstHook, HeardMore
  <2> QED
    BY <2>1, <2>2
<1> QED
  BY <1>1, <1>2, <1>3, <1>4, <1>5, <1>6 DEF Heeded

\* What the contexts hear of a tree nests as the tree does.
LEMMA HeededNests ==
  ASSUME Work, Turns, Leading, Callers, Heeded
  PROVE  HooksNest
<1>t. Types /\ Hands /\ NothingLeft /\ NotifiedDone /\ CallerLast
  BY DEF Work, Counts, Callers
<1>h. PreBegan /\ PostNotified /\ Notifying /\ HeardOnce /\ UnitOpened /\ OwnOpened
  BY DEF Heeded
<1>1. ASSUME NEW t \in Unit, Heard(t, "post")
      PROVE  hooks[t][1] = "pre" /\ (Calls[t] # NoTask => Heard(Calls[t], "post"))
  <2>1. t \in Task /\ notified[t] /\ done[t]
    BY <1>t, <1>h, <1>1, Kinds DEF PostNotified, NotifiedDone
  <2>2. Calls[t] # NoTask => Calls[t] \in Task
    BY GroupsAssumption, Kinds
  <2> QED
    BY <1>t, <1>h, <2>1, <2>2 DEF UnitOpened, Busy, Opened, CallerLast, PostNotified
<1>2. ASSUME NEW g \in Group, Heard(g, "post"), NEW t \in Members(g) PROVE Heard(t, "post")
  <2>1. t \in Task /\ g \in Task
    BY GroupFacts, Kinds
  <2>2. done[g]
    BY <1>t, <1>h, <1>2, <2>1 DEF PostNotified, NotifiedDone
  <2>3. ~Unreported(t)
    BY <1>t, <2>2 DEF NothingLeft, Left
  <2>4. notified[t]
    BY <1>h, <2>1, <2>3 DEF Unreported, Notifying
  <2> QED
    BY <1>h, <2>1, <2>4 DEF PostNotified
<1>3. ASSUME NEW g \in Group, ~Helped(g), NEW t \in Members(g), hooks[t] # <<>>
      PROVE  hooks[g] # <<>> /\ hooks[g][1] = "pre"
  <2>1. t \in Task /\ g \in Own
    BY <1>3, GroupFacts DEF Helped, Own
  <2>2. Heard(t, "pre") \/ Heard(t, "post")
    <3>1. hooks[t] \in Seq({"pre", "post"})
      BY <1>t, <2>1 DEF Types, HookTypes
    <3>2. 1 \in DOMAIN hooks[t] /\ hooks[t][1] \in {"pre", "post"}
      BY <1>3, <3>1, FrontFacts
    <3> QED
      BY <3>2 DEF Heard
  <2>3. Touched(t)
    BY <1>t, <1>h, <2>1, <2>2 DEF PreBegan, Began, PostNotified, NotifiedDone, Touched
  <2> QED
    BY <1>h, <2>1, <2>3, OwnBegins DEF OwnOpened, Opened
<1>4. \A t \in Task : \A i, j \in DOMAIN hooks[t] : hooks[t][i] = hooks[t][j] => i = j
  BY <1>h DEF HeardOnce
<1> QED
  BY <1>1, <1>2, <1>3, <1>4 DEF HooksNest

\* The hooks nest: a context hears once of the start of its task and once of its end, and
\* the calls to the contexts of a tree are nested as its tasks are.
THEOREM HooksHold == ASSUME InTurn PROVE Spec => []HooksNest
<1>1. Spec => [](Work /\ Turns /\ Fresh /\ Leading)
  BY LeadingAlways
<1>2. Spec => [](Work /\ Turns /\ Callers)
  BY CallersAlways
<1>3. Init => Heeded
  BY HeededInit
<1>4. Work /\ Turns /\ Leading /\ Callers /\ Heeded /\ [Next]_vars => Heeded'
  <2> SUFFICES ASSUME Work, Turns, Leading, Callers, Heeded, [Next]_vars PROVE Heeded'
    OBVIOUS
  <2>1. ASSUME NEW th \in Thread, Acts(th) PROVE Heeded'
    BY <2>1, HeededStep
  <2>2. CASE UNCHANGED vars
    <3>1. UNCHANGED <<grabbed, done, notified, hooks, pc, cur, outer>>
      BY <2>2 DEF vars, taskVars, callVars, helpVars
    <3>2. (PreBegan /\ PostNotified)' /\ Notifying' /\ HeardOnce'
      BY <3>1 DEF Heeded, PreBegan, PostNotified, Notifying, HeardOnce, Heard, Began
    <3>3. UnitOpened' /\ OwnOpened'
      BY <3>1 DEF Heeded, UnitOpened, OwnOpened, Busy, InCall, Opened, Began
    <3> QED
      BY <3>2, <3>3 DEF Heeded
  <2> QED
    BY <2>1, <2>2, HandKinds DEF Work
<1>5. Work /\ Turns /\ Leading /\ Callers /\ Heeded => HooksNest
  BY HeededNests
<1> QED
  BY <1>1, <1>2, <1>3, <1>4, <1>5, PTL DEF Spec
=============================================================================
