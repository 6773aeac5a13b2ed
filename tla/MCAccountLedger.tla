--------------------------- MODULE MCAccountLedger ---------------------------
(* Instances of AccountLedger for TLC. *)
EXTENDS AccountLedger, TLC

CONSTANTS a1, a2, r1, r2, r3, k1, k2

\* Requests and keys are interchangeable: no action and no property orders or
\* names them.
Interchangeable == Permutations({r1, r2, r3}) \cup Permutations({k1, k2})
=============================================================================
