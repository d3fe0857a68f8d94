---------------------- MODULE AtomicPartitionerProofs ----------------------
(***************************************************************************)
(* For every range, number of batches and indices to grab: nothing is       *)
(* handed out twice when the range starts at 0 or more, and Partition is    *)
(* implemented when it starts at 0.  (The run AtomicPartitionerOffset shows  *)
(* why the second needs the stronger hypothesis.)                           *)
(***************************************************************************)
EXTENDS AtomicPartitioner, TLAPS

Inv == TypeOK /\ HandedOut

\* What a batch that read i may take: it never goes beyond the range when the
\* range starts at 0 or more, and it is nothing only at the end when at 0.
LEMMA CountFact ==
  ASSUME FirstIndex >= 0, NEW i \in FirstIndex..LastIndex
  PROVE  /\ count(i) \in Int
         /\ count(i) <= LastIndex - i
         /\ FirstIndex = 0 => (count(i) <= 0 <=> i = LastIndex)
BY PartitionerAssumption, GrabAssumption DEF count, elementCount

\* The invariant holds at the start.
LEMMA InvInit == FirstIndex >= 0 /\ Init => Inv
<1> SUFFICES ASSUME FirstIndex >= 0, Init PROVE Inv
  OBVIOUS
<1> USE PartitionerAssumption DEF Init
<1>1. TypeOK
  BY DEF TypeOK
<1>2. AllGiven = Interval(FirstIndex, sharedIndex)
  BY DEF AllGiven, Interval
<1> QED
  BY <1>1, <1>2 DEF Inv, HandedOut

\* A successful exchange hands out indices nobody had.
LEMMA ExchangeGives ==
  ASSUME FirstIndex >= 0, Inv, NEW b \in Batch, Exchange(b)
  PROVE  LET S == Interval(expected[b], sharedIndex')
         IN /\ S # {} /\ S \subseteq Interval(FirstIndex, LastIndex)
            /\ S \cap AllGiven = {}
            /\ given' = [given EXCEPT ![b] = @ \cup S]
            /\ AllGiven' = Interval(FirstIndex, sharedIndex')
            /\ sharedIndex' \in FirstIndex..LastIndex
<1> DEFINE S == Interval(expected[b], sharedIndex')
<1>1. /\ expected[b] = sharedIndex
      /\ sharedIndex \in FirstIndex..LastIndex
      /\ count(expected[b]) > 0
      /\ given' = [given EXCEPT ![b] = @ \cup S]
      /\ sharedIndex' = sharedIndex + count(sharedIndex)
  BY DEF Exchange, Inv, HandedOut
<1>2. count(sharedIndex) \in Int /\ count(sharedIndex) <= LastIndex - sharedIndex
  BY <1>1, CountFact
<1>3. sharedIndex' \in FirstIndex..LastIndex /\ sharedIndex < sharedIndex'
  BY <1>1, <1>2, PartitionerAssumption
<1>4. S # {} /\ S \subseteq Interval(FirstIndex, LastIndex)
  BY <1>1, <1>3, PartitionerAssumption DEF Interval
<1>5. AllGiven = Interval(FirstIndex, sharedIndex)
  BY DEF Inv, HandedOut
<1>6. S \cap AllGiven = {}
  BY <1>1, <1>3, <1>5, PartitionerAssumption DEF Interval
<1>7. AllGiven' = AllGiven \cup S
  BY <1>1 DEF AllGiven, Inv, TypeOK
<1>8. AllGiven' = Interval(FirstIndex, sharedIndex')
  BY <1>1, <1>3, <1>5, <1>7, PartitionerAssumption DEF Interval
<1> QED
  BY <1>1, <1>3, <1>4, <1>6, <1>8

\* Every step keeps it.
LEMMA InvStep == FirstIndex >= 0 /\ Inv /\ [Next]_vars => Inv'
<1> SUFFICES ASSUME FirstIndex >= 0, Inv, [Next]_vars PROVE Inv'
  OBVIOUS
<1> USE DEF Inv
<1>1. ASSUME NEW b \in Batch, Load(b) PROVE Inv'
  <2>1. TypeOK' /\ AllGiven' = AllGiven
    BY <1>1 DEF Load, TypeOK, AllGiven
  <2>2. \A c \in Batch : pc'[c] = "exchange" => count(expected'[c]) > 0
    BY <1>1 DEF Load, TypeOK, HandedOut
  <2> QED
    BY <1>1, <2>1, <2>2 DEF Load, HandedOut
<1>2. ASSUME NEW b \in Batch, LoadNothing(b) \/ ExchangeFails(b) PROVE Inv'
  <2>1. TypeOK' /\ AllGiven' = AllGiven
    BY <1>2 DEF LoadNothing, ExchangeFails, TypeOK, AllGiven
  <2>2. \A c \in Batch : pc'[c] = "exchange" => pc[c] = "exchange"
    BY <1>2 DEF LoadNothing, ExchangeFails, TypeOK
  <2> QED
    BY <1>2, <2>1, <2>2 DEF LoadNothing, ExchangeFails, HandedOut
<1>3. ASSUME NEW b \in Batch, Exchange(b) PROVE Inv'
  <2> DEFINE S == Interval(expected[b], sharedIndex')
  <2>1. /\ S \subseteq Interval(FirstIndex, LastIndex)
        /\ S \cap AllGiven = {}
        /\ given' = [given EXCEPT ![b] = @ \cup S]
        /\ AllGiven' = Interval(FirstIndex, sharedIndex')
        /\ sharedIndex' \in FirstIndex..LastIndex
    BY <1>3, ExchangeGives
  <2> HIDE DEF S
  <2>2. given' \in [Batch -> SUBSET Interval(FirstIndex, LastIndex)]
    BY <2>1 DEF TypeOK
  <2>3. TypeOK'
    BY <1>3, <2>1, <2>2, PartitionerAssumption DEF Exchange, TypeOK
  <2>4. ASSUME NEW b1 \in Batch, NEW b2 \in Batch, b1 # b2
        PROVE  given'[b1] \cap given'[b2] = {}
    BY <2>1, <2>4 DEF TypeOK, HandedOut, AllGiven
  <2>5. \A c \in Batch : pc'[c] = "exchange" => count(expected'[c]) > 0
    BY <1>3 DEF Exchange, TypeOK, HandedOut
  <2> QED
    BY <2>1, <2>3, <2>4, <2>5 DEF HandedOut
<1>4. CASE UNCHANGED vars
  BY <1>4 DEF vars, TypeOK, HandedOut, AllGiven
<1> QED
  BY <1>1, <1>2, <1>3, <1>4 DEF Next, BatchStep

\* What was handed out is exactly what sharedIndex_ went over, to one batch each.
THEOREM RangesAreExclusive ==
  ASSUME FirstIndex >= 0 PROVE Spec => [](TypeOK /\ HandedOut)
<1>1. Init => Inv
  BY InvInit
<1>2. Inv /\ [Next]_vars => Inv'
  BY InvStep
<1>3. Inv <=> TypeOK /\ HandedOut
  BY DEF Inv
<1> QED
  BY <1>1, <1>2, <1>3, PTL DEF Spec

\* Every step is one Partition allows, or changes nothing it sees.
LEMMA PromiseStep ==
  FirstIndex = 0 /\ Inv /\ [Next]_vars => [Promise!Next]_Promise!vars
<1> SUFFICES ASSUME FirstIndex = 0, Inv, [Next]_vars PROVE [Promise!Next]_Promise!vars
  OBVIOUS
<1>1. ASSUME NEW b \in Batch, Load(b) \/ ExchangeFails(b) PROVE UNCHANGED Promise!vars
  BY <1>1 DEF Load, ExchangeFails, Promise!vars
<1>2. ASSUME NEW b \in Batch, LoadNothing(b) PROVE Promise!Refuse(b)
  <2>1. sharedIndex = LastIndex
    BY <1>2, CountFact DEF LoadNothing, Inv, HandedOut
  <2>2. AllGiven = Interval(FirstIndex, LastIndex)
    BY <2>1 DEF Inv, HandedOut
  <2> QED
    BY <1>2, <2>2 DEF LoadNothing, AllGiven, Promise!Refuse, Promise!AllGiven
<1>3. ASSUME NEW b \in Batch, Exchange(b)
      PROVE  \E S \in SUBSET Interval(FirstIndex, LastIndex) : Promise!Give(b, S)
  <2>1. PICK S \in SUBSET Interval(FirstIndex, LastIndex) :
          S # {} /\ S \cap AllGiven = {} /\ given' = [given EXCEPT ![b] = @ \cup S]
    BY <1>3, ExchangeGives
  <2>2. Promise!Give(b, S)
    BY <1>3, <2>1 DEF Exchange, AllGiven, Promise!Give, Promise!AllGiven
  <2> QED
    BY <2>2
<1>4. CASE UNCHANGED vars
  BY <1>4 DEF vars, Promise!vars
<1> QED
  BY <1>1, <1>2, <1>3, <1>4 DEF Next, BatchStep, Promise!Next

\* The atomic partitioner keeps the promise of Partition when the range starts
\* at 0: "returned to one and only one thread" (atomic_partitioner.hpp:40).
THEOREM AtomicImplementsPartition ==
  ASSUME FirstIndex = 0 PROVE Spec => ImplementsPartition
<1>1. Init => Promise!Init
  BY DEF Init, Promise!Init
<1>2. Inv /\ [Next]_vars => [Promise!Next]_Promise!vars
  BY PromiseStep
<1>3. Inv <=> TypeOK /\ HandedOut
  BY DEF Inv
<1>4. Spec => [](TypeOK /\ HandedOut)
  BY RangesAreExclusive
<1> QED
  BY <1>1, <1>2, <1>3, <1>4, PTL DEF Spec, ImplementsPartition, Promise!Spec
=============================================================================
