---------------------------- MODULE MCEventWorkers ----------------------------
(* Instances of EventWorkers for TLC. *)
EXTENDS EventWorkers, TLC

CONSTANTS u1, d1, d2, p1, p2, w1, w2

\* Partitions, workers and destinations are interchangeable.
Interchangeable == Permutations({p1, p2}) \cup Permutations({w1, w2})
                     \cup Permutations({d1, d2})
=============================================================================
