-------------------------- MODULE MCTransferIntake --------------------------
(* Instances of TransferIntake for TLC. *)
EXTENDS TransferIntake, TLC

CONSTANTS u1, u2, k1, p1, p2, r1, r2, r3

\* Requests, initiators and replicas are interchangeable.
Interchangeable == Permutations({r1, r2, r3}) \cup Permutations({u1, u2})
                     \cup Permutations({p1, p2})
=============================================================================
