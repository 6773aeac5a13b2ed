--------------------------- MODULE MCBrowserSession ---------------------------
(* An instance of BrowserSession for TLC. *)
EXTENDS BrowserSession, TLC

CONSTANTS c1, c2, s1, s2

\* Calls, and logins, are interchangeable.
Interchangeable == Permutations({c1, c2}) \cup Permutations({s1, s2})
=============================================================================
