--------------------------- MODULE MCPartitioners ---------------------------
(* One parallel_for over a simple_partitioner or over an atomic_partitioner:  *)
(* the steps of ParallelFor that ask for a range are steps of the partitioner. *)
EXTENDS AtomicPartitioner, ParallelFor

VARIABLES
  batchIndex, calling,    \* SimplePartitioner
  partitioner             \* the one in use

Simple == INSTANCE SimplePartitioner

simpleVars == <<batchIndex, calling>>
atomicVars == <<sharedIndex, expected, pc>>
allVars == <<atomicVars, simpleVars, forVars, partitioner>>

MCInit == Init /\ Simple!Init /\ ForInit /\ partitioner \in {"simple", "atomic"}

AskSimple(b) ==
  /\ partitioner = "simple"
  /\ \/ Simple!GetNextRange(b) /\ Receive(b, given'[b] \ given[b])
     \/ Simple!GetNothing(b) /\ Leave(b)
  /\ UNCHANGED <<atomicVars, partitioner>>

AskAtomic(b) ==
  /\ partitioner = "atomic"
  /\ task[b] = "asking"
  /\ \/ Exchange(b) /\ Receive(b, given'[b] \ given[b])
     \/ LoadNothing(b) /\ Leave(b)
     \/ (Load(b) \/ ExchangeFails(b)) /\ UNCHANGED <<batchVars, callerVars>>
  /\ UNCHANGED <<simpleVars, partitioner>>

Untouched == UNCHANGED <<simpleVars, atomicVars, partitioner>>

Take(b)       == TakeTask(b) /\ Untouched
BatchTask(b)  == AskSimple(b) \/ AskAtomic(b) \/ (TaskStep(b) /\ Untouched)
Caller        == CallerStep /\ Untouched

MCNext == Caller \/ \E b \in Batch : Take(b) \/ BatchTask(b)

\* The caller goes on, and so does every thread that has taken a task.  That
\* workers take tasks is not assumed.
MCSpec ==
  /\ MCInit
  /\ [][MCNext]_allVars
  /\ WF_allVars(Caller)
  /\ \A b \in Batch : WF_allVars(BatchTask(b))
=============================================================================
