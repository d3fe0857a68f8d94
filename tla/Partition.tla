----------------------------- MODULE Partition -----------------------------
(***************************************************************************)
(* What a partitioner promises to the batches that share it: it hands every *)
(* index of the range to one batch only, nothing else to anyone, and tells  *)
(* a batch that nothing is left only when every index was handed out.       *)
(***************************************************************************)
CONSTANTS Batch, Index

VARIABLES
  given,      \* batch -> the indices it was handed so far
  exhausted   \* the batches that were told that nothing is left

vars == <<given, exhausted>>

AllGiven == UNION {given[b] : b \in Batch}

Init == given = [b \in Batch |-> {}] /\ exhausted = {}

Give(b, S) ==
  /\ S # {}
  /\ S \cap AllGiven = {}
  /\ given' = [given EXCEPT ![b] = @ \cup S]
  /\ UNCHANGED exhausted

Refuse(b) ==
  /\ AllGiven = Index
  /\ exhausted' = exhausted \cup {b}
  /\ UNCHANGED given

Next == \E b \in Batch : Refuse(b) \/ \E S \in SUBSET Index : Give(b, S)

Spec == Init /\ [][Next]_vars
=============================================================================
