------------------------------- MODULE Ledger -------------------------------
(***************************************************************************)
(* What the account service promises about its rows, with no request,      *)
(* session, lock or marker in sight: accounts open empty, money moves in   *)
(* indivisible steps on active accounts, never below zero nor past the     *)
(* column's width, and every movement takes the version up by one.         *)
(* AccountLedger is shown to implement this module.                        *)
(***************************************************************************)
EXTENDS Integers

CONSTANTS Account, Amount, MaxBalance

VARIABLES status, balance, version

ledgerVars == <<status, balance, version>>

Init == /\ status  = [a \in Account |-> "absent"]
        /\ balance = [a \in Account |-> 0]
        /\ version = [a \in Account |-> 0]

Open(a) == /\ status[a] = "absent"
           /\ status' = [status EXCEPT ![a] = "active"]
           /\ UNCHANGED <<balance, version>>

Freeze(a) == /\ status[a] = "active"
             /\ status' = [status EXCEPT ![a] = "frozen"]
             /\ UNCHANGED <<balance, version>>

\* A movement sees the current balance and the current status, in one step.
Move(a, delta) == /\ status[a] = "active"
                  /\ balance[a] + delta \in 0 .. MaxBalance
                  /\ balance' = [balance EXCEPT ![a] = @ + delta]
                  /\ version' = [version EXCEPT ![a] = @ + 1]
                  /\ UNCHANGED status

Next == \E a \in Account :
           \/ Open(a)
           \/ Freeze(a)
           \/ \E m \in Amount : Move(a, m) \/ Move(a, -m)

Spec == Init /\ [][Next]_ledgerVars
=============================================================================
