---------------------------- MODULE MCRequestPath ----------------------------
(* An instance of RequestPath for TLC, and the policies it leaves open. *)
EXTENDS RequestPath, Policies, TLC

CONSTANTS a1, a2, k1, k2, r1, r2, g, s

Plain == [path |-> "/v1/accounts", bearer |-> TRUE, typ |-> "access",
          method |-> "allowed", waf |-> "clean"]

\* A plain request, one to the auth service with a token of another type, a login,
\* and one with a method that no route of the gateway has.
Calls == {Plain,
          [Plain EXCEPT !.path = "/v1/auth/logout", !.typ = "pre-auth"],
          [Plain EXCEPT !.path = "/v1/auth/login", !.bearer = FALSE],
          [Plain EXCEPT !.method = "other"]}

\* Replicas of the auth service, keys and requests are interchangeable.
Interchangeable == Permutations({a1, a2}) \cup Permutations({k1, k2})
                     \cup Permutations({r1, r2})

\* The policy's own tests (k8s/policies/opa/securebank_authz_test.rego).
ASSUME AuthzTests ==
  LET customer(mfa) == [sub |-> "u1", roles |-> {"customer"}, mfa |-> mfa]
  IN  /\ Allow(ReadQuery(customer(FALSE), "u1"))
      /\ ~Allow(ReadQuery(customer(FALSE), "u2"))
      /\ ~Allow(TransferQuery(customer(FALSE), Rupees(50000)))
      /\ Allow(TransferQuery(customer(TRUE), Rupees(50000)))

\* On small inputs: a denial has a reason, the gate is as strict as the policy.
ASSUME PoliciesOnSmallInputs ==
  /\ \A tp \in allowed_tps \cup {"other"}, role \in Role, owner \in Subject,
        amount \in {1, Rupees(1000000)}, approver \in Subject \cup {Absent} :
       LET i == [tp |-> tp, role |-> role, sub |-> "u1", owner |-> owner, amount |-> amount,
                 approver |-> approver, approver_role |-> "compliance"]
       IN  AllowTp(i) <=> DenyReason(i) = ""
  /\ \A c \in [sub : Subject, roles : {{"customer"}}, mfa : BOOLEAN],
        amount \in {1, Rupees(10000), Rupees(10000) + 1} :
       GatePasses(c, amount) => Allow(TransferQuery(c, amount))
  /\ \A n \in 1 .. 200 : ValidIban(100 * n, CheckDigits(100 * n))
=============================================================================
