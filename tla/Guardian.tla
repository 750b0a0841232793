------------------------------ MODULE Guardian ------------------------------
(***************************************************************************)
(* The Guardian's policy pipeline (src/src/workflows/guardian.py): the     *)
(* checks of Guardian.evaluate, the verdict drawn from the violations they *)
(* find, and the two enforcement layers, CSL-Core and OPA, that may replace*)
(* that verdict.  Everything here is a pure operator; the state machine    *)
(* that calls it is CarfGraph.                                             *)
(*                                                                         *)
(* A request r is a record with the parts of EpistemicState that the       *)
(* checks read: domain, confidence (percent), reflections, risk (the       *)
(* context's risk_level), action and evidence.  A violation is its policy  *)
(* name and severity; description and suggested fix are left out, and so   *)
(* is the risk score, which no verdict depends on: every branch of         *)
(* _determine_verdict it guards returns REQUIRES_ESCALATION.               *)
(***************************************************************************)
EXTENDS CausalSensitivity

CONSTANTS
  ConfidenceThresholds,  \* ContextualPolicyConfig.confidence_thresholds, in percent
  FinancialLimits,       \* ContextualPolicyConfig.financial_limits
  ReflectionLimit,       \* operational.max_reflection_attempts of the policy file
  AlwaysEscalate,        \* escalation.always_escalate.actions of the policy file
  Production             \* whether the deployment profile is "production"

Domains == {"Clear", "Complicated", "Complex", "Chaotic", "Disorder"}
Verdicts == {"APPROVED", "REJECTED", "REQUIRES_ESCALATION"}
Severities == {"low", "medium", "high", "critical"}

ASSUME ThresholdsAssumption == ConfidenceThresholds \in [Domains -> 0..100]
ASSUME LimitsAssumption == FinancialLimits \in [Domains -> Nat]
ASSUME ReflectionLimitAssumption == ReflectionLimit \in Nat
ASSUME ProfileAssumption ==
  MinEValue \in Nat /\ RequireFull \in BOOLEAN /\ Production \in BOOLEAN

Violation(name, severity) == [name |-> name, severity |-> severity]

\* The violation, when the check that reports it fails.
When(failed, name, severity) ==
  IF failed THEN {Violation(name, severity)} ELSE {}

-----------------------------------------------------------------------------
(* The checks of Guardian.evaluate *)

\* PolicyEngine.get_context_aware_threshold: a user's override wins.
ConfidenceThreshold(cfg, domain) ==
  IF cfg.confidence # None THEN cfg.confidence ELSE ConfidenceThresholds[domain]

FinancialLimit(cfg, domain) ==
  IF cfg.limit # None THEN cfg.limit ELSE FinancialLimits[domain]

ConfidenceCheck(cfg, r) ==
  When(r.confidence < ConfidenceThreshold(cfg, r.domain), "confidence_threshold", "medium")

ReflectionCheck(r) ==
  When(r.reflections >= ReflectionLimit, "max_reflection_attempts", "medium")

RiskCheck(r) ==
  When(r.risk \in {"HIGH", "CRITICAL"}, "context_risk_level", "high")

\* An explicit budget_limit takes precedence over the domain's limit; 1.5 times
\* the budget, or any amount against a budget that is not positive, is critical.
BudgetCheck(a) ==
  When(a.amount > a.budget, "budget_limit_exceeded",
       IF a.budget <= 0 \/ 2 * a.amount >= 3 * a.budget THEN "critical" ELSE "high")

\* PolicyEngine.check_financial_limit_contextual: an amount in a currency with no
\* configured rate is reported and then compared as it stands.
LimitCheck(cfg, domain, a) ==
  When(~a.convertible, "currency_conversion_unavailable", "high")
    \cup When(a.amount > FinancialLimit(cfg, domain), "auto_approval_limit", "high")

ActionCheck(cfg, r) ==
  IF r.action = None THEN {}
  ELSE When(r.action.type \in AlwaysEscalate, "always_escalate", "high")
         \cup IF r.action.amount = None THEN {}
              ELSE IF r.action.budget # None THEN BudgetCheck(r.action)
              ELSE LimitCheck(cfg, r.domain, r.action)

\* A mutant of RobustnessFailures that trusts the reasons of the report alone.
FailuresAsReported(e) == e.reasons

\* What keeps causal evidence from supporting an automatic approval.  Every
\* sensitivity reason counts, whatever it says.
RobustnessFailures(e) ==
  (CASE e.status \in {"skipped", "failed"} -> {e.status}
     [] e.status = "partial" /\ RequireFull -> {"partial"}
     [] OTHER -> {})
    \cup (IF e.eValue = None THEN {"no e-value"}
          ELSE IF e.eValue < MinEValue THEN {"e-value"} ELSE {})
    \cup e.reasons

RobustnessCheck(r) ==
  IF r.evidence = None THEN {}
  ELSE When(RobustnessFailures(r.evidence) # {}, "causal_robustness_below_threshold",
            IF Production THEN "high" ELSE "medium")

PolicyViolations(cfg, r) ==
  UNION {ConfidenceCheck(cfg, r), ReflectionCheck(r), RiskCheck(r),
         ActionCheck(cfg, r), RobustnessCheck(r)}

-----------------------------------------------------------------------------
(* From violations to a decision *)

DetermineVerdict(violations) ==
  CASE violations = {} -> "APPROVED"
    [] \E v \in violations : v.severity = "critical" -> "REJECTED"
    [] OTHER -> "REQUIRES_ESCALATION"

Decision(verdict, violations) == [verdict |-> verdict, violations |-> violations]

PolicyDecision(cfg, r) ==
  LET found == PolicyViolations(cfg, r)
  IN  Decision(IF cfg.strict /\ found # {} THEN "REJECTED" ELSE DetermineVerdict(found),
               found)

\* Guardian._apply_csl.  A CSL answer is a record: its kind is "off" (the
\* service is not available), "raised" or "answered"; when it denies, rules
\* is the set of violated rules it names, which may be empty.
ApplyCsl(d, csl) ==
  CASE csl.kind = "off" \/ (csl.kind = "answered" /\ csl.allow) -> d
    [] csl.kind = "raised" ->
         Decision("REQUIRES_ESCALATION",
                  d.violations \cup {Violation("csl_evaluation_error", "high")})
    [] OTHER ->
         LET merged == d.violations \cup {Violation(rule, "high") : rule \in csl.rules}
         IN  Decision(DetermineVerdict(merged), merged)

\* A mutant of ApplyOpa that overlooks a denial.
ApplyOpaIgnoringDeny(d, opa) ==
  IF opa = "raised"
  THEN Decision("REQUIRES_ESCALATION",
                d.violations \cup {Violation("opa_unavailable", "high")})
  ELSE d

\* Guardian._apply_opa, for an OPA answer "off", "allow", "deny" or "raised".
ApplyOpa(d, opa) ==
  CASE opa \in {"off", "allow"} -> d
    [] opa = "raised" ->
         Decision("REQUIRES_ESCALATION",
                  d.violations \cup {Violation("opa_unavailable", "high")})
    [] opa = "deny" ->
         Decision("REJECTED", d.violations \cup {Violation("opa_denied", "high")})

Evaluate(cfg, r, csl, opa) == ApplyOpa(ApplyCsl(PolicyDecision(cfg, r), csl), opa)
=============================================================================
