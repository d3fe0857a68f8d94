---------------------------- MODULE MCTaskGroups ----------------------------
(* Small trees of tasks for TaskGroups. *)
EXTENDS TaskGroups, TLC

CONSTANTS a, b, c, d, e, f, h, P, Q, R, S, w1, w2, c1, c2

\* (a | ((b | d | e) -> c)), where c makes (f | h) and waits for it: a fork in a sequence
\* in a fork, and a fork in a task.
Deep ==
  [g \in {P, Q, R, S} |-> CASE g = P -> <<a, S>>
                          [] g = S -> <<Q, c>>
                          [] g = Q -> <<b, d, e>>
                          [] g = R -> <<f, h>>]
CalledByC == [t \in Unit |-> IF t = c THEN R ELSE NoTask]

\* (a -> b), where a makes (c | d | e) and waits for it.
Nested == [g \in {S, Q} |-> IF g = S THEN <<a, b>> ELSE <<c, d, e>>]
CalledByA == [t \in Unit |-> IF t = a THEN Q ELSE NoTask]

\* (a | b).
ShortFork == [g \in {P} |-> <<a, b>>]

\* (a -> b).
Chain == [g \in {S} |-> <<a, b>>]

NoCalls == [t \in Unit |-> NoTask]

NoMax  == [g \in Parallel |-> 0]
MaxTwo == [g \in Parallel |-> 2]
MaxTwoInside == [g \in Parallel |-> IF g = Q THEN 2 ELSE 0]

Symmetry == Permutations(Worker) \cup Permutations(Client)
=============================================================================
