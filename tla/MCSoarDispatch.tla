--------------------------- MODULE MCSoarDispatch ---------------------------
(* An instance of SoarDispatch for TLC, and the advice that goes with it. *)
EXTENDS Advice, TLC

CONSTANTS d1, d2, d3

Blank == [source |-> "qradar", rule |-> "other", signed |-> TRUE,
          namespace |-> None, pod |-> None, user_sub |-> None, src_ip |-> None,
          account_id |-> None, binding_name |-> None]

\* An escape from a pod, twice with another pod; a binding of a namespace; an
\* anomaly of tokens without an address; an unsigned one.
Offenses ==
  {[Blank EXCEPT !.source = "falco", !.rule = "container-escape",
                 !.namespace = "shop", !.pod = pod] : pod \in {"pod1", "pod2"}}
  \cup {[Blank EXCEPT !.rule = "rbac-privilege-escalation", !.namespace = "shop",
                      !.binding_name = "admin"],
        [Blank EXCEPT !.rule = "jwt-anomaly"],
        [Blank EXCEPT !.rule = "dns-exfiltration", !.signed = FALSE]}

Names == {"shop", "pod1", "pod2", "admin"}

\* Deliveries are interchangeable.
Interchangeable == Permutations({d1, d2, d3})

Bindings == {<<"shop", "admin">>, <<"*", "admin">>}

\* The condition of DuplicatesWereClaimed.
ASSUME NamesTellApart == KeysTellApart

\* Advice on small inputs: what is proved of it for all.
ASSUME AdviceOnSmallInputs ==
  /\ \A rule \in Rules : Explain(rule).playbook = DISPATCH(rule)[1]
  /\ \A severity \in Severity, hint \in Severity \cup {None} :
       Triage(severity, hint).score >= IndexOf(severity)
  /\ \A amount \in {0, 20000, 20001, 80001}, d \in [1 .. 3 -> {20, 50, 80}], psi \in {0, 201, 251} :
       LET report == Robustness(amount, d, psi)
       IN  /\ report.alarm => report.verdict # "robust"
           /\ amount <= 20000 => report.verdict = "retrain-now"
           /\ amount > 80000 /\ psi = 0 => report.verdict = "robust"
=============================================================================
