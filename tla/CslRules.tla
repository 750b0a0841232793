------------------------------- MODULE CslRules -------------------------------
(***************************************************************************)
(* What a CSL rule means and what the built-in rules say                   *)
(* (src/src/services/csl_policy_service.py): CSLRule.evaluate over a       *)
(* context, the five built-in policies, and the context that               *)
(* map_state_to_context and inject_csl_context make of a request.          *)
(*                                                                         *)
(* A value is tagged with its type, so that values of any two types can be *)
(* compared.  A context maps paths such as "action.amount" to values; a    *)
(* path it does not have resolves to None.  Fractions are in percent and   *)
(* amounts in thousands.                                                   *)
(***************************************************************************)
EXTENDS Integers, Sequences, FiniteSets, SequencesExt, TLC

None == <<"none", 0>>
Num(n) == <<"num", n>>
Bool(b) == <<"bool", IF b THEN 1 ELSE 0>>
True == Bool(TRUE)
Str(s) == <<"str", s>>

IsNumber(v) == v[1] \in {"num", "bool"}      \* Python's bool is an int
Same(v, w) == v = w \/ (IsNumber(v) /\ IsNumber(w) /\ v[2] = w[2])
Truthy(v) == v \notin {None, Num(0), Bool(FALSE), Str("")}

Resolve(ctx, path) == IF path \in DOMAIN ctx THEN ctx[path] ELSE None

-----------------------------------------------------------------------------
(* CSLRule *)

\* An entry of a rule's constraint: a bare value, or a dict of which the keys
\* min, max, eq and neq are looked at and no other.
Is(path, value) == [path |-> path, kind |-> "value", value |-> value]
Dict(path, min, max, eq, neq) ==
  [path |-> path, kind |-> "dict", min |-> min, max |-> max, eq |-> eq, neq |-> neq]
AtLeast(path, v) == Dict(path, v, None, None, None)
AtMost(path, v) == Dict(path, None, v, None, None)
Between(path, v, w) == Dict(path, v, w, None, None)
Not(path, v) == Dict(path, None, None, None, v)
OtherKeys(path) == Dict(path, None, None, None, None)

\* when is a set of <<path, value>> pairs, then a sequence of entries.
Rule(name, when, then) == [name |-> name, when |-> when, then |-> then]

Matches(rule, ctx) ==
  \A c \in rule.when : LET actual == Resolve(ctx, c[1])
                       IN  actual # None /\ Same(actual, c[2])

\* Amounts that cannot be converted are left to the conversion gate.
Deferred(path, ctx) ==
  /\ path \in {"action.amount", "action.daily_total"}
  /\ Truthy(Resolve(ctx, "action.requires_currency_conversion"))
  /\ ~Truthy(Resolve(ctx, "action.currency_conversion_ok"))

Verdict(ok) == IF ok THEN "holds" ELSE "fails"

\* "holds", "fails", or "raises": a number compared with something else.
EntryOutcome(ctx, e) ==
  LET actual == Resolve(ctx, e.path)
  IN  IF Deferred(e.path, ctx) THEN "holds"
      ELSE IF actual = None THEN "fails"
      ELSE IF e.kind = "dict" THEN
        IF (e.min # None \/ e.max # None) /\ ~IsNumber(actual) THEN "raises"
        ELSE Verdict(/\ e.min # None => actual[2] >= e.min[2]
                     /\ e.max # None => actual[2] <= e.max[2]
                     /\ e.eq # None => Same(actual, e.eq)
                     /\ e.neq # None => ~Same(actual, e.neq))
      ELSE IF e.value[1] = "num" THEN    \* a bare number is an upper bound
        IF IsNumber(actual) THEN Verdict(actual[2] <= e.value[2]) ELSE "raises"
      ELSE Verdict(Same(actual, e.value))

\* The first entry that does not hold decides.
RuleOutcome(ctx, rule) ==
  LET outcomes == [i \in DOMAIN rule.then |-> EntryOutcome(ctx, rule.then[i])]
      bad == {i \in DOMAIN outcomes : outcomes[i] # "holds"}
  IN  IF ~Matches(rule, ctx) \/ bad = {} THEN "holds"
      ELSE outcomes[CHOOSE i \in bad : \A j \in bad : i <= j]

\* CSLPolicyService.evaluate: denied by the rules that fail, or, with
\* fail_closed, by an exception, which names no rule.
Evaluate(policies, ctx, failClosed) ==
  LET rules == UNION {ToSet(policy) : policy \in ToSet(policies)}
      outcomes == {<<r.name, RuleOutcome(ctx, r)>> : r \in rules}
      failed == {o[1] : o \in {o \in outcomes : o[2] = "fails"}}
      raised == \E o \in outcomes : o[2] = "raises"
  IN  IF raised THEN [allow |-> ~failClosed, rules |-> {}]
      ELSE [allow |-> failed = {}, rules |-> failed]

-----------------------------------------------------------------------------
(* The built-in policies *)

On(path, value) == <<path, Str(value)>>
If(path) == <<path, True>>
Approved == <<Is("approval.status", Str("approved"))>>
Escalated == <<Is("approval.escalated", True)>>

TransferLimit(role, limit) ==
  Rule(role \o "_transfer_limit", {On("user.role", role), On("action.type", "transfer")},
       <<Is("action.amount", Num(limit))>>)
DomainLimit(domain, limit) ==
  Rule("domain_financial_limit_" \o domain, {On("domain.type", domain)},
       <<Is("action.amount", Num(limit))>>)
ConversionGate ==
  Rule("currency_conversion_required_for_financial_actions",
       {If("action.is_financial"), If("action.requires_currency_conversion")},
       <<Is("action.currency_conversion_ok", True)>>)

BudgetLimits == <<
  TransferLimit("junior", 1), TransferLimit("senior", 50), TransferLimit("admin", 500),
  ConversionGate,
  Rule("chimera_prediction_bounds", {On("prediction.source", "chimera")},
       <<Between("prediction.effect_size", Num(-100), Num(100))>>),
  DomainLimit("Clear", 100), DomainLimit("Complicated", 50), DomainLimit("Complex", 25),
  DomainLimit("Chaotic", 10),
  Rule("daily_spend_cap", {}, <<Is("action.daily_total", Num(100))>>) >>

ApprovalFor(action) == Rule(action \o "_requires_approval", {On("action.type", action)}, Approved)

ActionGates == <<
  Rule("high_risk_requires_approval", {On("risk.level", "HIGH")}, Approved),
  Rule("critical_risk_blocked", {On("risk.level", "CRITICAL")},
       <<Is("action.type", Str("halt"))>>),
  ApprovalFor("delete_data"), ApprovalFor("modify_policy"),
  ApprovalFor("production_deployment"), ApprovalFor("external_api_write"),
  Rule("chaotic_domain_block", {On("domain.type", "Chaotic")}, Escalated),
  Rule("disorder_domain_block", {On("domain.type", "Disorder")}, Escalated) >>

ChimeraGuards == <<
  Rule("effect_size_bounds", {On("prediction.source", "chimera")},
       <<Between("prediction.effect_size", Num(-200), Num(200))>>),
  Rule("confidence_minimum", {On("prediction.source", "chimera")},
       <<AtLeast("prediction.confidence", Num(50))>>),
  Rule("drift_detection_gate", {If("prediction.drift_detected")}, Escalated),
  Rule("refutation_required", {On("prediction.source", "causal"), If("prediction.is_actionable")},
       <<Is("prediction.refutation_passed", True)>>),
  Rule("bayesian_uncertainty_gate", {On("prediction.source", "bayesian")},
       <<AtMost("prediction.epistemic_uncertainty", Num(70))>>),
  Rule("prediction_staleness", {If("prediction.is_stale")}, <<Is("prediction.is_refreshed", True)>>),
  Rule("concurrent_prediction_limit", {}, <<Is("session.active_predictions", Num(10))>>) >>

DataAccess == <<
  Rule("pii_must_be_masked", {If("data.contains_pii")}, <<Is("data.is_masked", True)>>),
  Rule("audit_log_immutable", {On("data.type", "audit_log")}, <<Not("action.type", Str("delete"))>>),
  Rule("ssn_never_exposed", {On("data.field_type", "ssn")}, <<Is("data.is_encrypted", True)>>),
  Rule("data_residency", {}, <<Is("data.region_approved", True)>>),
  Rule("retention_limit", {If("data.is_expired")}, <<Is("data.action", Str("archive"))>>),
  Rule("sensitive_export_blocked", {On("action.type", "export"), On("data.sensitivity", "high")},
       Approved) >>

CrossCutting == <<
  Rule("chaotic_drift_limit", {On("domain.type", "Chaotic"), If("prediction.drift_detected")},
       <<Is("action.amount", Num(5))>>),
  Rule("low_confidence_causal_gate", {On("prediction.source", "causal")},
       <<AtLeast("domain.confidence", Num(60))>>),
  Rule("complex_export_limit", {On("domain.type", "Complex"), On("action.type", "export")}, Approved),
  Rule("high_uncertainty_block", {}, <<AtMost("prediction.epistemic_uncertainty", Num(80))>>) >>

\* A mutant of BuiltinPolicies that forgets the gate the amount rules defer to.
PoliciesWithoutGate ==
  <<SelectSeq(BudgetLimits, LAMBDA r : r # ConversionGate),
    ActionGates, ChimeraGuards, DataAccess, CrossCutting>>
\* A mutant of BuiltinPolicies without the action gates.
PoliciesWithoutActionGates == <<BudgetLimits, ChimeraGuards, DataAccess, CrossCutting>>
\* A mutant of BuiltinPolicies without the budget limits.
PoliciesWithoutBudgets == <<<<ConversionGate>>, ActionGates, ChimeraGuards, DataAccess, CrossCutting>>

BuiltinPolicies == <<BudgetLimits, ActionGates, ChimeraGuards, DataAccess, CrossCutting>>
===============================================================================
