------------------------- MODULE SimplePartitioner -------------------------
(***************************************************************************)
(* simple_partitioner.hpp: the range is cut into batchCount ranges whose     *)
(* sizes differ by one at most, and each call to getNextValidRange takes the *)
(* next one with one atomic increment of batchIndex_.                        *)
(***************************************************************************)
EXTENDS BasePartitioner

VARIABLES
  batchIndex,   \* batchIndex_
  calling       \* the batches still in the loop on getNextValidRange

vars == <<batchIndex, calling, given, exhausted>>

nbElementsPerBatch ==
  IF elementCount >= MaxBatches THEN elementCount \div batchCount ELSE 1

remainder == IF elementCount >= MaxBatches THEN elementCount % batchCount ELSE 0

\* Mutant: one batch too many gets an extra element.
lastIndexOneMore(i) ==
  FirstIndex + (i + 1) * nbElementsPerBatch + (IF i <= remainder THEN i + 1 ELSE remainder)

lastIndexOfBatch(i) ==
  FirstIndex + (i + 1) * nbElementsPerBatch + (IF i < remainder THEN i + 1 ELSE remainder)

firstIndexOfBatch(i) == IF i > 0 THEN lastIndexOfBatch(i - 1) ELSE FirstIndex

Init ==
  /\ batchIndex = 0
  /\ calling = Batch
  /\ given = [b \in Batch |-> {}]
  /\ exhausted = {}

\* batchIndex_++, then the bounds computed from constants.
GetNextRange(b) ==
  /\ b \in calling
  /\ batchIndex < batchCount
  /\ given' = [given EXCEPT ![b] =
                 @ \cup Interval(firstIndexOfBatch(batchIndex), lastIndexOfBatch(batchIndex))]
  /\ batchIndex' = batchIndex + 1
  /\ UNCHANGED <<calling, exhausted>>

GetNothing(b) ==
  /\ b \in calling
  /\ batchIndex >= batchCount
  /\ batchIndex' = batchIndex + 1
  /\ calling' = calling \ {b}
  /\ exhausted' = exhausted \cup {b}
  /\ UNCHANGED given

BatchStep(b) == GetNextRange(b) \/ GetNothing(b)

Next == \E b \in Batch : BatchStep(b)

Spec == Init /\ [][Next]_vars

-----------------------------------------------------------------------------
TypeOK ==
  /\ batchIndex \in Nat
  /\ calling \subseteq Batch
  /\ given \in [Batch -> SUBSET Interval(FirstIndex, LastIndex)]
  /\ exhausted \subseteq Batch

AllGiven == UNION {given[b] : b \in Batch}

\* Where the next range starts: the end of the last one once all are taken.
Front == firstIndexOfBatch(IF batchIndex < batchCount THEN batchIndex ELSE batchCount)

\* What was handed out is exactly what batchIndex_ went over, to one batch each.
HandedOut ==
  /\ AllGiven = Interval(FirstIndex, Front)
  /\ \A b1, b2 \in Batch : b1 # b2 => given[b1] \cap given[b2] = {}
  /\ exhausted # {} => batchIndex >= batchCount

Promise == INSTANCE Partition WITH Index <- Interval(FirstIndex, LastIndex)

\* Every index goes to one batch, and getNextValidRange returns false only when
\* nothing is left.
ImplementsPartition == Promise!Spec
=============================================================================
