---------------------------- MODULE MCScheduler ----------------------------
(* Small instances of Scheduler: two workers, the first one able to work on *)
(* both priorities and the second one on the lower priority only.           *)
EXTENDS Scheduler, TLC

CONSTANTS c1, c2, u1, u2, g

MCworkerPrio == [w \in 1..WorkerCount |-> IF w = 1 THEN {0, 1} ELSE {1}]
MCpriority   == [t \in Task |-> IF t \in {u2, g} THEN 0 ELSE 1]

\* Each task is added once, or u1 twice: the same handle is then queued twice.
AddOnce == [t \in Task |-> 1]
AddDup  == [t \in Task |-> IF t = u1 THEN 2 ELSE 1]

Symmetry == Permutations(Client)
=============================================================================
