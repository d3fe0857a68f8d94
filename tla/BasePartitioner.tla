-------------------------- MODULE BasePartitioner --------------------------
(* base_partitioner.hpp: the range [FirstIndex, LastIndex[ a parallel_for is *)
(* over and the number of batches (tasks) that share it.  parallel_for calls *)
(* nothing when the range is empty (isValid), so here it is not.             *)
EXTENDS Integers

CONSTANTS FirstIndex, LastIndex, MaxBatches

ASSUME PartitionerAssumption ==
  /\ FirstIndex \in Int
  /\ LastIndex \in Int
  /\ FirstIndex < LastIndex
  /\ MaxBatches \in Nat \ {0}

elementCount == LastIndex - FirstIndex
batchCount   == IF elementCount < MaxBatches THEN elementCount ELSE MaxBatches

\* The tasks of make_parallel_for_task_group, one per batch.
Batch == 1..batchCount

VARIABLES
  given,      \* batch -> the indices getNextValidRange has handed it so far
  exhausted   \* the batches it has returned false to

\* The elements of the half-open interval [from, to[.
Interval(from, to) == from..(to - 1)
=============================================================================
