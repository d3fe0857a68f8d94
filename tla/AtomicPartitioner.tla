------------------------- MODULE AtomicPartitioner -------------------------
(***************************************************************************)
(* atomic_partitioner.hpp: the batches of a parallel_for race to advance    *)
(* sharedIndex_ with a load and a compare-exchange until nothing is left.   *)
(***************************************************************************)
EXTENDS BasePartitioner

CONSTANT IndicesToGrab

ASSUME GrabAssumption == IndicesToGrab \in Nat \ {0}

VARIABLES
  sharedIndex,   \* sharedIndex_
  expected,      \* batch -> expectedIndex, its copy of sharedIndex_
  pc             \* batch -> where it is in getNextValidRange

vars == <<sharedIndex, expected, pc, given, exhausted>>

Init ==
  /\ sharedIndex = FirstIndex
  /\ expected = [b \in Batch |-> FirstIndex]
  /\ pc = [b \in Batch |-> "load"]
  /\ given = [b \in Batch |-> {}]
  /\ exhausted = {}

\* How many indices a batch that read index i may take.
count(i) == IF elementCount - i < IndicesToGrab THEN elementCount - i ELSE IndicesToGrab

Load(b) ==
  /\ pc[b] = "load"
  /\ count(sharedIndex) > 0
  /\ expected' = [expected EXCEPT ![b] = sharedIndex]
  /\ pc' = [pc EXCEPT ![b] = "exchange"]
  /\ UNCHANGED <<sharedIndex, given, exhausted>>

\* Mutant: a batch gives up when there is less than it asks for.
LoadTooLittle(b) ==
  /\ pc[b] = "load"
  /\ count(sharedIndex) < IndicesToGrab
  /\ exhausted' = exhausted \cup {b}
  /\ pc' = [pc EXCEPT ![b] = "done"]
  /\ UNCHANGED <<sharedIndex, expected, given>>

LoadNothing(b) ==
  /\ pc[b] = "load"
  /\ count(sharedIndex) <= 0
  /\ exhausted' = exhausted \cup {b}
  /\ pc' = [pc EXCEPT ![b] = "done"]
  /\ UNCHANGED <<sharedIndex, expected, given>>

\* compare_exchange_strong succeeds: the batch works on its range, comes back.
Exchange(b) ==
  /\ pc[b] = "exchange"
  /\ sharedIndex = expected[b]
  /\ sharedIndex' = expected[b] + count(expected[b])
  /\ given' = [given EXCEPT ![b] = @ \cup Interval(expected[b], sharedIndex')]
  /\ pc' = [pc EXCEPT ![b] = "load"]
  /\ UNCHANGED <<expected, exhausted>>

\* Mutant: a batch that failed tries again without reading again.
ExchangeFailsForEver(b) ==
  /\ pc[b] = "exchange"
  /\ sharedIndex # expected[b]
  /\ pc' = [pc EXCEPT ![b] = "exchange"]
  /\ UNCHANGED <<sharedIndex, expected, given, exhausted>>

\* Another batch was faster: read again.
ExchangeFails(b) ==
  /\ pc[b] = "exchange"
  /\ sharedIndex # expected[b]
  /\ pc' = [pc EXCEPT ![b] = "load"]
  /\ UNCHANGED <<sharedIndex, expected, given, exhausted>>

BatchStep(b) == Load(b) \/ LoadNothing(b) \/ Exchange(b) \/ ExchangeFails(b)

Next == \E b \in Batch : BatchStep(b)

Spec == Init /\ [][Next]_vars

-----------------------------------------------------------------------------
TypeOK ==
  /\ sharedIndex \in Int
  /\ expected \in [Batch -> Int]
  /\ pc \in [Batch -> {"load", "exchange", "done"}]
  /\ given \in [Batch -> SUBSET Interval(FirstIndex, LastIndex)]
  /\ exhausted \subseteq Batch

AllGiven == UNION {given[b] : b \in Batch}

\* What was handed out is exactly what sharedIndex_ went over, to one batch each,
\* and a batch about to exchange read an index not beyond the shared one.
HandedOut ==
  /\ sharedIndex \in FirstIndex..LastIndex
  /\ AllGiven = Interval(FirstIndex, sharedIndex)
  /\ \A b1, b2 \in Batch : b1 # b2 => given[b1] \cap given[b2] = {}
  /\ \A b \in Batch : pc[b] = "exchange" => count(expected[b]) > 0

Promise == INSTANCE Partition WITH Index <- Interval(FirstIndex, LastIndex)

\* Every index goes to one batch, and getNextValidRange returns false only when
\* nothing is left.
ImplementsPartition == Promise!Spec

\* atomic_partitioner.hpp:38-39: getNextValidRange "sets a range of indices for
\* the caller to work on and returns true", and "if no more indices are available
\* returns false".
FalseMeansNoMore == exhausted # {} => AllGiven = Interval(FirstIndex, LastIndex)
=============================================================================
