-------------------------------- MODULE Advice --------------------------------
(***************************************************************************)
(* The AI agent (ai-security-agent): what it advises for a rule, how       *)
(* triage ranks it, and its verdict on the robustness of the fraud model.  *)
(* It keeps no state.  Its advice names the SOAR service's playbooks.      *)
(***************************************************************************)
EXTENDS SoarDispatch, Integers, FiniteSets

-----------------------------------------------------------------------------
(* explain *)

Rules == {"cred-stuffing", "jwt-anomaly", "memory-corruption", "container-escape",
          "dns-exfiltration", "rbac-privilege-escalation", "fraud-ml"}

Advised(severity, playbook) == [severity |-> severity, playbook |-> playbook]

RULE_NARRATIVES ==
  [rule \in Rules |->
     IF rule = "cred-stuffing" THEN Advised("high", "block_ip")
     ELSE IF rule = "jwt-anomaly" THEN Advised("critical", "jwt_rotation")
     ELSE IF rule \in {"memory-corruption", "container-escape"}
       THEN Advised("critical", "quarantine_pod")
     ELSE IF rule = "dns-exfiltration" THEN Advised("high", "egress_quarantine")
     ELSE IF rule = "rbac-privilege-escalation" THEN Advised("critical", "revoke_rbac")
     ELSE Advised("high", "freeze_account")]

\* HeuristicReasoner.explain; PB-000 is nobody's playbook.
Explain(rule) == IF rule \in Rules THEN RULE_NARRATIVES[rule]
                 ELSE Advised("medium", "manual")

-----------------------------------------------------------------------------
(* triage *)

order == <<"info", "low", "medium", "high", "critical">>

Severity == {order[i] : i \in 1 .. 5}

\* order.index, of a member.
IndexOf(severity) == (CHOOSE i \in 1 .. 5 : order[i] = severity) - 1

Raised == [severity |-> "none", score |-> -1]

\* A severity, of the hint or of the language model's answer, that is none of
\* the five raises a ValueError.
Triage(severity, hint) ==
  IF hint \notin Severity \cup {None} \/ severity \notin Severity
  THEN Raised
  ELSE LET worst == IF hint = None THEN severity
                    ELSE IF IndexOf(hint) > IndexOf(severity) THEN hint ELSE severity
       IN  [severity |-> worst, score |-> IndexOf(worst)]

-----------------------------------------------------------------------------
(* robustness: amounts in rupees, a slice's divisor in tenths, rates and PSI *)
(* in thousandths                                                            *)

\* _StubModel.predict on a slice of an amount.
Flagged(amount, divisor) == 10 * amount > divisor * 10000

\* salami_probe, of the amount alone.
Evaded(amount, divisors) == {i \in DOMAIN divisors : ~Flagged(amount, divisors[i])}

Verdict(evaded, tried, psi) ==
  IF 1000 * evaded > 400 * tried \/ psi > 250 THEN "retrain-now"
  ELSE IF 1000 * evaded > 200 * tried \/ psi > 150 THEN "watch"
  ELSE "robust"

PsiAlarm(psi) == psi > 200

\* robustness_report
Robustness(amount, divisors, psi) ==
  [verdict |-> Verdict(Cardinality(Evaded(amount, divisors)), Len(divisors), psi),
   alarm   |-> PsiAlarm(psi)]
=============================================================================
