---------------------------- MODULE MCLoginGuards ----------------------------
(* Instances of LoginGuards for TLC. *)
EXTENDS LoginGuards, TLC

CONSTANTS u1, u2, p1, k1, k2, r1, r2, r3

\* Requests and keys are interchangeable.
Interchangeable == Permutations({r1, r2, r3}) \cup Permutations({k1, k2})
=============================================================================
