---------------------- MODULE SimplePartitionerProofs ----------------------
(***************************************************************************)
(* SimplePartitioner implements Partition for every range and every number  *)
(* of batches: the bounds its integer division computes neither overlap nor *)
(* leave a gap, and the last one is the end of the range.                   *)
(***************************************************************************)
EXTENDS SimplePartitioner, TLAPS

Inv == TypeOK /\ HandedOut

\* (i + 1) * q written as the solver needs it.
LEMMA OneMore == \A i, q \in Int : (i + 1) * q = i * q + q
OBVIOUS

\* Multiplication by a natural number keeps the order.
LEMMA TimesMonotone == \A i, j, q \in Nat : i <= j => i * q <= j * q
OBVIOUS

\* The batches are of at least one element each, and there are enough of them:
\* the quotient and the remainder account for every element.
LEMMA Sizes ==
  /\ elementCount \in Nat \ {0} /\ batchCount \in Nat \ {0}
  /\ nbElementsPerBatch \in Nat \ {0}
  /\ remainder \in Nat /\ remainder < batchCount
  /\ elementCount = batchCount * nbElementsPerBatch + remainder
<1>1. elementCount \in Nat \ {0} /\ batchCount \in Nat \ {0} /\ batchCount <= elementCount
  BY PartitionerAssumption DEF elementCount, batchCount
<1>2. \A n, d \in Nat \ {0} : d <= n =>
        /\ n \div d \in Nat \ {0}
        /\ n % d \in Nat /\ n % d < d
        /\ n = d * (n \div d) + (n % d)
  OBVIOUS
<1>3. CASE elementCount >= MaxBatches
  <2>1. nbElementsPerBatch = elementCount \div batchCount
    BY <1>3 DEF nbElementsPerBatch
  <2>2. remainder = elementCount % batchCount
    BY <1>3 DEF remainder
  <2> QED
    BY <1>1, <1>2, <2>1, <2>2
<1>4. CASE ~(elementCount >= MaxBatches)
  <2>1. nbElementsPerBatch = 1 /\ remainder = 0 /\ batchCount = elementCount
    BY <1>4, PartitionerAssumption, <1>1 DEF nbElementsPerBatch, remainder, batchCount
  <2> QED
    BY <1>1, <2>1
<1> QED
  BY <1>3, <1>4

\* Batch i is not empty and ends where batch i + 1 starts, within the range.
LEMMA Bounds ==
  ASSUME NEW i \in 0..(batchCount - 1)
  PROVE  /\ firstIndexOfBatch(i) \in FirstIndex..LastIndex
         /\ lastIndexOfBatch(i) \in FirstIndex..LastIndex
         /\ firstIndexOfBatch(i) < lastIndexOfBatch(i)
         /\ firstIndexOfBatch(i + 1) = lastIndexOfBatch(i)
         /\ i = batchCount - 1 => lastIndexOfBatch(i) = LastIndex
<1> DEFINE q == nbElementsPerBatch
           r == remainder
<1>1. /\ batchCount \in Nat \ {0} /\ q \in Nat \ {0} /\ r \in Nat /\ r < batchCount
      /\ LastIndex = FirstIndex + batchCount * q + r
      /\ FirstIndex \in Int /\ LastIndex \in Int
  BY Sizes, PartitionerAssumption DEF elementCount
<1>2. /\ i \in Nat /\ i + 1 <= batchCount
  BY <1>1
<1>3. /\ i * q \in Nat
      /\ (i + 1) * q = i * q + q
      /\ batchCount * q \in Nat
      /\ (i + 1) * q <= batchCount * q
  BY <1>1, <1>2, OneMore, TimesMonotone
<1>4. lastIndexOfBatch(i) = FirstIndex + (i * q + q) + (IF i < r THEN i + 1 ELSE r)
  BY <1>3 DEF lastIndexOfBatch
<1>5. firstIndexOfBatch(i) = FirstIndex + i * q + (IF i < r THEN i ELSE r)
  <2>1. CASE i > 0
    <3>1. (i - 1) + 1 = i
      BY <1>2
    <3>2. lastIndexOfBatch(i - 1) = FirstIndex + i * q + (IF i - 1 < r THEN i ELSE r)
      BY <3>1 DEF lastIndexOfBatch
    <3> QED
      BY <2>1, <3>2, <1>1, <1>2 DEF firstIndexOfBatch
  <2>2. CASE i = 0
    <3>1. i * q = 0
      BY <2>2, <1>1
    <3> QED
      BY <2>2, <3>1, <1>1 DEF firstIndexOfBatch
  <2> QED
    BY <2>1, <2>2, <1>2
<1>6. firstIndexOfBatch(i + 1) = lastIndexOfBatch(i)
  <2>1. (i + 1) - 1 = i /\ i + 1 > 0
    BY <1>2
  <2> QED
    BY <2>1 DEF firstIndexOfBatch
<1>7. i = batchCount - 1 => (i * q + q) = batchCount * q
  BY <1>1, <1>3
<1> HIDE DEF q, r
<1> QED
  BY <1>1, <1>2, <1>3, <1>4, <1>5, <1>6, <1>7

\* Front stays within the range, and reaches its end with the last batch.
LEMMA FrontFact ==
  ASSUME batchIndex \in Nat
  PROVE  /\ Front \in FirstIndex..LastIndex
         /\ batchIndex >= batchCount => Front = LastIndex
<1>1. batchCount \in Nat \ {0}
  BY Sizes
<1>2. CASE batchIndex < batchCount
  <2>1. batchIndex \in 0..(batchCount - 1) /\ Front = firstIndexOfBatch(batchIndex)
    BY <1>1, <1>2 DEF Front
  <2> QED
    BY <1>1, <1>2, <2>1, Bounds
<1>3. CASE ~(batchIndex < batchCount)
  <2>1. Front = firstIndexOfBatch(batchCount)
    BY <1>3 DEF Front
  <2>2. batchCount - 1 \in 0..(batchCount - 1) /\ (batchCount - 1) + 1 = batchCount
    BY <1>1
  <2>3. lastIndexOfBatch(batchCount - 1) = LastIndex
    BY <2>2, Bounds
  <2>4. firstIndexOfBatch((batchCount - 1) + 1) = lastIndexOfBatch(batchCount - 1)
    BY <2>2, Bounds
  <2>5. firstIndexOfBatch(batchCount) = LastIndex
    BY <2>2, <2>3, <2>4
  <2> QED
    BY <2>1, <2>5, PartitionerAssumption
<1> QED
  BY <1>2, <1>3

\* The invariant holds at the start.
LEMMA InvInit == Init => Inv
<1> SUFFICES ASSUME Init PROVE Inv
  OBVIOUS
<1>1. TypeOK
  BY DEF Init, TypeOK
<1>2. Front = FirstIndex
  BY Sizes DEF Init, Front, firstIndexOfBatch
<1>3. AllGiven = Interval(FirstIndex, Front)
  BY <1>2, PartitionerAssumption DEF Init, AllGiven, Interval
<1> QED
  BY <1>1, <1>3 DEF Init, Inv, HandedOut

\* A call that gets a range gets indices nobody had, up to the next front.
LEMMA NextRangeGives ==
  ASSUME Inv, NEW b \in Batch, GetNextRange(b)
  PROVE  LET S == Interval(firstIndexOfBatch(batchIndex), lastIndexOfBatch(batchIndex))
         IN /\ S # {} /\ S \subseteq Interval(FirstIndex, LastIndex)
            /\ S \cap AllGiven = {}
            /\ given' = [given EXCEPT ![b] = @ \cup S]
            /\ AllGiven' = Interval(FirstIndex, Front')
<1> DEFINE first == firstIndexOfBatch(batchIndex)
           last  == lastIndexOfBatch(batchIndex)
           S     == Interval(first, last)
<1>1. /\ batchIndex \in 0..(batchCount - 1)
      /\ batchIndex' = batchIndex + 1
      /\ given' = [given EXCEPT ![b] = @ \cup S]
      /\ batchCount \in Nat \ {0}
  BY Sizes DEF GetNextRange, Inv, TypeOK
<1>2. /\ first \in FirstIndex..LastIndex
      /\ last \in FirstIndex..LastIndex
      /\ first < last
      /\ firstIndexOfBatch(batchIndex + 1) = last
      /\ batchIndex = batchCount - 1 => last = LastIndex
  BY <1>1, Bounds
<1>3. Front = first
  BY <1>1 DEF Front
<1>4. Front' = last
  <2>1. CASE batchIndex + 1 < batchCount
    BY <1>1, <1>2, <2>1 DEF Front
  <2>2. CASE ~(batchIndex + 1 < batchCount)
    <3>1. batchCount = batchIndex + 1
      BY <1>1, <2>2
    <3> QED
      BY <1>1, <1>2, <3>1 DEF Front
  <2> QED
    BY <2>1, <2>2
<1> HIDE DEF first, last
<1>5. S # {} /\ S \subseteq Interval(FirstIndex, LastIndex)
  BY <1>2, PartitionerAssumption DEF Interval
<1>6. AllGiven = Interval(FirstIndex, first)
  BY <1>3 DEF Inv, HandedOut
<1>7. S \cap AllGiven = {}
  BY <1>2, <1>6, PartitionerAssumption DEF Interval
<1>8. AllGiven' = AllGiven \cup S
  BY <1>1 DEF AllGiven, Inv, TypeOK
<1>9. AllGiven' = Interval(FirstIndex, Front')
  BY <1>2, <1>4, <1>6, <1>8, PartitionerAssumption DEF Interval
<1> QED
  BY <1>1, <1>5, <1>7, <1>9 DEF first, last

\* Every step keeps the invariant.
LEMMA InvStep == Inv /\ [Next]_vars => Inv'
<1> SUFFICES ASSUME Inv, [Next]_vars PROVE Inv'
  OBVIOUS
<1> USE DEF Inv
<1>1. ASSUME NEW b \in Batch, GetNextRange(b) PROVE Inv'
  <2>1. PICK S :
          /\ S \subseteq Interval(FirstIndex, LastIndex)
          /\ S \cap AllGiven = {}
          /\ given' = [given EXCEPT ![b] = @ \cup S]
          /\ AllGiven' = Interval(FirstIndex, Front')
    BY <1>1, NextRangeGives
  <2>2. TypeOK'
    <3>1. given' \in [Batch -> SUBSET Interval(FirstIndex, LastIndex)]
      BY <2>1 DEF TypeOK
    <3>2. batchIndex' \in Nat /\ UNCHANGED <<calling, exhausted>>
      BY <1>1 DEF GetNextRange, TypeOK
    <3> QED
      BY <3>1, <3>2 DEF TypeOK
  <2>3. ASSUME NEW b1 \in Batch, NEW b2 \in Batch, b1 # b2
        PROVE  given'[b1] \cap given'[b2] = {}
    BY <2>1, <2>3 DEF TypeOK, HandedOut, AllGiven
  <2>4. exhausted' = {}
    BY <1>1, Sizes DEF GetNextRange, TypeOK, HandedOut
  <2> QED
    BY <2>1, <2>2, <2>3, <2>4 DEF HandedOut
<1>2. ASSUME NEW b \in Batch, GetNothing(b) PROVE Inv'
  <2>1. TypeOK' /\ AllGiven' = AllGiven /\ given' = given
    BY <1>2 DEF GetNothing, TypeOK, AllGiven
  <2>2. batchIndex' >= batchCount /\ Front' = Front
    BY <1>2, Sizes DEF GetNothing, TypeOK, Front
  <2> QED
    BY <2>1, <2>2 DEF HandedOut
<1>3. CASE UNCHANGED vars
  BY <1>3 DEF vars, TypeOK, HandedOut, AllGiven, Front
<1> QED
  BY <1>1, <1>2, <1>3 DEF Next, BatchStep

\* Every index that was handed out went to one batch, and they are the first
\* ones of the range: no two ranges overlap and none is skipped.
THEOREM RangesAreExclusive == Spec => []HandedOut
<1>1. Init => Inv
  BY InvInit
<1>2. Inv /\ [Next]_vars => Inv'
  BY InvStep
<1>3. Inv => HandedOut
  BY DEF Inv
<1> QED
  BY <1>1, <1>2, <1>3, PTL DEF Spec

\* Every step is one Partition allows.
LEMMA PromiseStep == Inv /\ [Next]_vars => [Promise!Next]_Promise!vars
<1> SUFFICES ASSUME Inv, [Next]_vars PROVE [Promise!Next]_Promise!vars
  OBVIOUS
<1>1. ASSUME NEW b \in Batch, GetNextRange(b)
      PROVE  \E S \in SUBSET Interval(FirstIndex, LastIndex) : Promise!Give(b, S)
  <2>1. PICK S \in SUBSET Interval(FirstIndex, LastIndex) :
          S # {} /\ S \cap AllGiven = {} /\ given' = [given EXCEPT ![b] = @ \cup S]
    BY <1>1, NextRangeGives
  <2>2. Promise!Give(b, S)
    BY <1>1, <2>1 DEF GetNextRange, AllGiven, Promise!Give, Promise!AllGiven
  <2> QED
    BY <2>2
<1>2. ASSUME NEW b \in Batch, GetNothing(b) PROVE Promise!Refuse(b)
  <2>1. Front = LastIndex
    BY <1>2, FrontFact DEF GetNothing, Inv, TypeOK
  <2>2. AllGiven = Interval(FirstIndex, LastIndex)
    BY <2>1 DEF Inv, HandedOut
  <2> QED
    BY <1>2, <2>2 DEF GetNothing, AllGiven, Promise!Refuse, Promise!AllGiven
<1>3. CASE UNCHANGED vars
  BY <1>3 DEF vars, Promise!vars
<1> QED
  BY <1>1, <1>2, <1>3 DEF Next, BatchStep, Promise!Next

\* The simple partitioner keeps the promise of Partition for every range and
\* every number of batches.
THEOREM SimpleImplementsPartition == Spec => ImplementsPartition
<1>1. Init => Promise!Init
  BY DEF Init, Promise!Init
<1>2. Inv /\ [Next]_vars => [Promise!Next]_Promise!vars
  BY PromiseStep
<1>3. Init => Inv
  BY InvInit
<1>4. Inv /\ [Next]_vars => Inv'
  BY InvStep
<1> QED
  BY <1>1, <1>2, <1>3, <1>4, PTL DEF Spec, ImplementsPartition, Promise!Spec
=============================================================================
