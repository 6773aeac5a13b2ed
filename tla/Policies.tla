------------------------------- MODULE Policies -------------------------------
(***************************************************************************)
(* What is decided without state: the three Rego packages (k8s/policies),  *)
(* the inputs two services send the first of them, the step-up gate and    *)
(* the risk score of a transfer, the check digits of an IBAN.  Amounts are *)
(* in paisa.  No service asks the other two packages.                      *)
(***************************************************************************)
EXTENDS Integers, Sequences

CONSTANTS
  Subject,
  Threshold,  \* settings.step_up_threshold_pkr, in paisa
  Absent      \* a field of an input that is not there

Rupees(n) == n * 100

\* The deployed threshold is the policy's own amount; a lower one is stricter.
ASSUME PoliciesAssumption == /\ Threshold \in Nat /\ Threshold <= Rupees(10000)
                             /\ Absent \notin Subject

Role == {"customer", "teller", "soar", "fraud-officer", "branch-manager",
         "compliance", "security-admin", "admin"}

\* What jwt_dependency hands on.
Claims == [sub : Subject, roles : SUBSET Role, mfa : BOOLEAN]

-----------------------------------------------------------------------------
(* securebank.authz *)

IsCustomer(q) == "customer" \in q.claims.roles

Allow(q) ==
  \/ /\ IsCustomer(q)
     /\ \/ q.action = "read" /\ q.type = "account" /\ q.owner = q.claims.sub
        \/ q.action = "create" /\ q.type = "account"
        \/ q.action \in {"credit", "debit"}
        \/ q.action = "transfer" /\ q.amount > 0 /\ q.amount <= Rupees(10000)
        \/ q.action = "transfer" /\ q.amount > Rupees(10000) /\ q.claims.mfa
  \/ "admin" \in q.claims.roles /\ q.action = "read"

\* What the services ask.
Query(c, action, type, owner, amount) ==
  [claims |-> c, action |-> action, type |-> type, owner |-> owner, amount |-> amount]

CreateQuery(c)           == Query(c, "create", "account", Absent, 0)
ReadQuery(c, owner)      == Query(c, "read", "account", owner, 0)
MutateQuery(c, op)       == Query(c, op, "account", Absent, 0)
TransferQuery(c, amount) == Query(c, "transfer", Absent, Absent, amount)

-----------------------------------------------------------------------------
(* The transfer handler *)

StepUpRequired(amount, threshold) == amount >= threshold

\* What is past the gate of the handler's first lines.
GatePasses(c, amount) == StepUpRequired(amount, Threshold) => c.mfa

\* fast_score, in tenths.
FastScore(amount, first, hour) ==
  LET points == (IF amount >= Rupees(10000) THEN 3 ELSE 0)
              + (IF amount >= Rupees(100000) THEN 4 ELSE 0)
              + (IF first THEN 2 ELSE 0)
              + (IF hour >= 0 /\ hour < 5 THEN 1 ELSE 0)
  IN  IF points < 10 THEN points ELSE 10

-----------------------------------------------------------------------------
(* securebank.bell_lapadula *)

levels == <<"unclassified", "restricted", "confidential", "secret">>

\* A name that is no level counts as the lowest.
LevelValue(name) ==
  IF \E i \in 1 .. 4 : levels[i] = name
  THEN (CHOOSE i \in 1 .. 4 : levels[i] = name) - 1
  ELSE 0

AllowRead(clearance, classification) ==
  LevelValue(clearance) >= LevelValue(classification)

AllowWrite(clearance, classification) ==
  LevelValue(clearance) <= LevelValue(classification)

-----------------------------------------------------------------------------
(* securebank.clark_wilson *)

allowed_tps == {"transfer_funds", "freeze_account", "unfreeze_account",
                "open_account", "close_account", "rotate_jwt_keys"}

tp_roles ==
  [transfer_funds   |-> {"customer", "teller"},
   freeze_account   |-> {"soar", "fraud-officer"},
   unfreeze_account |-> {"branch-manager", "compliance"},
   open_account     |-> {"customer", "teller"},
   close_account    |-> {"customer", "compliance"},
   rotate_jwt_keys  |-> {"soar", "security-admin"}]

TpInput == [tp : STRING, role : Role, sub : Subject, owner : Subject, amount : Int,
            approver : Subject \cup {Absent}, approver_role : Role \cup {Absent}]

Whitelisted(i)   == i.tp \in allowed_tps
RoleMayRun(i)    == Whitelisted(i) /\ i.role \in tp_roles[i.tp]

\* The account is the subject's own; only to freeze it, it must not be.
TpSpecificCheck(i) ==
  \/ i.tp \in {"transfer_funds", "open_account", "close_account"} /\ i.owner = i.sub
  \/ i.tp = "freeze_account" /\ i.owner # i.sub
  \/ i.tp \in {"unfreeze_account", "rotate_jwt_keys"}

\* A million rupees and more needs a second person.  An approver that is not
\* there makes the rule undefined, not true.
SeparationOfDutyOk(i) ==
  i.tp = "transfer_funds" /\ i.amount >= Rupees(1000000) =>
    i.approver \notin {i.sub, Absent} /\ i.approver_role \in {"branch-manager", "compliance"}

AllowTp(i) == /\ Whitelisted(i) /\ RoleMayRun(i)
              /\ TpSpecificCheck(i) /\ SeparationOfDutyOk(i)

\* The else-chain, as the name of the first rule that holds.
DenyReason(i) == IF ~Whitelisted(i) THEN "not whitelisted"
                 ELSE IF ~RoleMayRun(i) THEN "not authorized"
                 ELSE IF ~TpSpecificCheck(i) THEN "ownership"
                 ELSE IF ~SeparationOfDutyOk(i) THEN "separation of duty"
                 ELSE ""

-----------------------------------------------------------------------------
(* IBAN *)

\* _compute_iban_check_digits: n is the numeric value of the account's part,
\* the country and 00.
CheckDigits(n) == 98 - (n % 97)

\* What any bank checks: the same number with the check digits instead of 00.
ValidIban(n, check) == (n % 100) = 0 /\ (n + check) % 97 = 1
=============================================================================
