-------------------------- MODULE MCRefreshSessions --------------------------
(* Instances of RefreshSessions for TLC. *)
EXTENDS RefreshSessions, TLC

CONSTANTS d1, d2, s1, s2, r1, r2, r3, r4

\* Session ids, requests and key domains are interchangeable.
Interchangeable == Permutations({s1, s2}) \cup Permutations({r1, r2, r3, r4})
                     \cup Permutations({d1, d2})
=============================================================================
