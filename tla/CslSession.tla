------------------------------ MODULE CslSession ------------------------------
(***************************************************************************)
(* A request as the CSL service judges it, again and again while it is     *)
(* revised: the context inject_csl_context (src/src/workflows/graph.py) and*)
(* map_state_to_context (src/src/services/csl_policy_service.py) make of   *)
(* it, the verdict of the built-in policies, and beside them the rules of  *)
(* src/config/policies/*.csl that the built-in ones stand in for.          *)
(***************************************************************************)
EXTENDS CslRules

CONSTANTS
  Domains, Confidences, Types, Amounts, Currencies, Roles, Risks,
  Magnitudes, \* of the effects that agents estimate, in hundredths
  Unbounded  \* whether these effects may leave [-1, 1]

\* USD per unit of a currency, of the currencies with a configured rate.
Rates == [USD |-> 1, EUR |-> 2]

ASSUME SessionAssumption ==
  Amounts \subseteq Nat /\ Magnitudes \subseteq Nat /\ Confidences \subseteq 0..100
  /\ Unbounded \in BOOLEAN

\* An effect has either sign.
Effects == Magnitudes \cup {-m : m \in Magnitudes}

Sources == {"none", "causal", "bayesian", "chimera"}
Evidence == {e \in [source : Sources, effect : Effects, refuted : BOOLEAN] :
               /\ e.source \in {"none", "bayesian"} => ~e.refuted
               /\ e.source = "chimera" => ~e.refuted  \* the node sets refutation_passed=True
               /\ e.source = "none" => e.effect = 0
               /\ Unbounded \/ e.effect \in -100..100}
NoEvidence == [source |-> "none", effect |-> 0, refuted |-> FALSE]

VARIABLE request
vars == <<request>>

Init == request \in
  [domain : Domains, confidence : Confidences, type : Types, amount : Amounts,
   currency : Currencies, role : Roles, risk : Risks \cup {"unset"},
   approved : {FALSE}, approver : {""}, escalated : {FALSE}, evidence : {NoEvidence}]

-----------------------------------------------------------------------------
(* From the request to the context *)

\* inject_csl_context derives the risk level that the context lacks.
RiskLevel(r) ==
  IF r.risk # "unset" THEN r.risk
  ELSE IF r.domain = "Chaotic" THEN "CRITICAL"
  ELSE IF r.domain = "Disorder" \/ r.confidence < 50 THEN "HIGH"
  ELSE IF r.confidence < 70 THEN "MEDIUM"
  ELSE "LOW"

\* The oracle's estimate arrives as causal evidence like any other.
PredictionSource(e) ==
  CASE e.source \in {"causal", "chimera"} -> "causal"
    [] e.source = "bayesian" -> "bayesian"
    [] OTHER -> ""

\* normalize_currency_amount to the policy currency, USD
Convertible(r) == r.currency \in DOMAIN Rates
InPolicyCurrency(r) == IF Convertible(r) THEN r.amount * Rates[r.currency] ELSE r.amount

FinancialTypes ==
  {"transfer", "purchase", "payment", "refund", "invoice", "rebalance", "trade", "spend"}

\* What the context says whatever the request: the defaults of the mapping.
FalseByDefault ==
  {"prediction.drift_detected", "prediction.is_stale", "data.contains_pii",
   "data.is_masked", "data.is_encrypted", "data.is_expired"}
TrueByDefault == {"prediction.is_refreshed", "data.region_approved"}
EmptyByDefault == {"data.type", "data.field_type", "data.action"}
ZeroByDefault ==
  {"action.daily_total", "prediction.epistemic_uncertainty", "session.active_predictions"}
Defaults ==
  [p \in FalseByDefault \cup TrueByDefault \cup EmptyByDefault \cup ZeroByDefault
          \cup {"data.sensitivity"} |->
     CASE p \in FalseByDefault -> Bool(FALSE) [] p \in TrueByDefault -> True
       [] p \in EmptyByDefault -> Str("") [] p \in ZeroByDefault -> Num(0)
       [] p = "data.sensitivity" -> Str("low")]

\* What depends on the request.
Causal(r) == r.evidence.source \in {"causal", "chimera"}
SaidPaths ==
  {"domain.type", "domain.confidence", "action.type", "action.amount",
   "action.requires_currency_conversion", "action.currency_conversion_ok", "action.is_financial",
   "user.role", "risk.level", "approval.status", "approval.role", "approval.escalated",
   "prediction.source", "prediction.effect_size", "prediction.confidence",
   "prediction.is_actionable", "prediction.refutation_passed"}
Said(r) ==
  [p \in SaidPaths |->
     CASE p = "domain.type" -> Str(r.domain)
       [] p = "domain.confidence" -> Num(r.confidence)
       [] p = "action.type" -> Str(r.type)
       [] p = "action.amount" -> Num(InPolicyCurrency(r))
       [] p = "action.requires_currency_conversion" -> Bool(r.currency # "USD")
       [] p = "action.currency_conversion_ok" -> Bool(Convertible(r))
       [] p = "action.is_financial" -> Bool(r.type \in FinancialTypes \/ r.amount > 0)
       [] p = "user.role" -> Str(r.role)
       [] p = "risk.level" -> Str(RiskLevel(r))
       [] p = "approval.status" -> Str(IF r.approved THEN "approved" ELSE "")
       [] p = "approval.role" -> Str(r.approver)
       [] p = "approval.escalated" -> Bool(r.escalated)
       [] p = "prediction.source" -> Str(PredictionSource(r.evidence))
       [] p = "prediction.effect_size" -> Num(r.evidence.effect)
       [] p = "prediction.confidence" -> Num(r.confidence)
       [] p = "prediction.is_actionable" -> Bool(Causal(r))
       [] p = "prediction.refutation_passed" -> Bool(Causal(r) /\ ~r.evidence.refuted)]

Context(r) ==
  [p \in SaidPaths \cup DOMAIN Defaults |-> IF p \in SaidPaths THEN Said(r)[p] ELSE Defaults[p]]

Allowed(r) == Evaluate(BuiltinPolicies, Context(r), TRUE).allow

\* The MCP tool guardian_evaluate hands a flat context to the service, which
\* maps it as if it were a session: it has none of the keys the mapping reads.
EmptySession ==
  [domain |-> "Disorder", confidence |-> 0, type |-> "", amount |-> 0, currency |-> "USD",
   role |-> "junior", risk |-> "LOW", approved |-> FALSE, approver |-> "",
   escalated |-> FALSE, evidence |-> NoEvidence]
GuardianEvaluate(flat) == Evaluate(BuiltinPolicies, Context(EmptySession), TRUE).allow

-----------------------------------------------------------------------------
(* The revisions of a request between two evaluations *)

\* A domain agent or the oracle leaves its evidence.
Analyse == \E e \in Evidence : request' = [request EXCEPT !.evidence = e]

Reprice == \E a \in Amounts : request' = [request EXCEPT !.amount = a]

Approve ==
  /\ ~request.approved
  /\ \E by \in {"", "admin"} : request' = [request EXCEPT !.approved = TRUE, !.approver = by]

Escalate == ~request.escalated /\ request' = [request EXCEPT !.escalated = TRUE]

Next == Analyse \/ Reprice \/ Approve \/ Escalate

Spec == Init /\ [][Next]_vars

-----------------------------------------------------------------------------
(* The rules of the .csl files *)

Holds(ctx, path, v) == Resolve(ctx, path) = v
NoMore(ctx, path, n) == Resolve(ctx, path)[2] <= n

BudgetFileAllows(ctx) ==
  /\ \A p \in {<<"junior", 1>>, <<"senior", 50>>, <<"admin", 500>>} :
        Holds(ctx, "user.role", Str(p[1])) /\ Holds(ctx, "action.type", Str("transfer"))
          => NoMore(ctx, "action.amount", p[2])
  /\ Holds(ctx, "prediction.source", Str("chimera"))
       => Resolve(ctx, "prediction.effect_size")[2] \in -100..100
  /\ Holds(ctx, "action.type", Str("spend")) => NoMore(ctx, "action.daily_total", 100)
  /\ \A p \in {<<"Clear", 100>>, <<"Complicated", 50>>, <<"Complex", 25>>, <<"Chaotic", 10>>} :
        Holds(ctx, "domain.type", Str(p[1])) => NoMore(ctx, "action.amount", p[2])

\* Its fifth rule counts the violations of a session, which no context holds.
CrossCuttingFileAllows(ctx) ==
  /\ Holds(ctx, "domain.type", Str("Chaotic")) /\ Holds(ctx, "prediction.drift_detected", True)
       => NoMore(ctx, "action.amount", 5)
  /\ Holds(ctx, "prediction.source", Str("causal")) /\ Resolve(ctx, "domain.confidence")[2] < 60
       => Holds(ctx, "approval.escalated", True)
  /\ Holds(ctx, "domain.type", Str("Complex")) /\ Holds(ctx, "action.type", Str("export"))
       => Holds(ctx, "approval.status", Str("approved"))
  /\ ~NoMore(ctx, "prediction.epistemic_uncertainty", 80)
       => Holds(ctx, "action.type", Str("review_only"))

-----------------------------------------------------------------------------
(* Properties *)

\* The amount rules skip an amount that cannot be converted and rely on another
\* rule, in another policy position, to stop it: no combination of type, role
\* and approvals lets money in an unknown currency through.
UnknownMoneyStopped == request.amount > 0 /\ ~Convertible(request) => ~Allowed(request)

\* A request the policies allow has the human oversight its domain and its
\* derived risk ask for, whatever else is approved about it; a refuted causal
\* claim is never allowed.
AllowedHasOversight ==
  Allowed(request) =>
    /\ request.domain \in {"Chaotic", "Disorder"} => request.escalated
    /\ RiskLevel(request) = "HIGH" => request.approved
    /\ RiskLevel(request) = "CRITICAL" => request.type = "halt"
    /\ ~request.evidence.refuted

\* What the built-in budget rules allow, src/config/policies/budget_limits.csl
\* allows too: falling back from csl-core never widens a budget.
NoWiderThanBudgetFile == Allowed(request) => BudgetFileAllows(Context(request))

\* "Chimera effect size must be within [-2.0, 2.0]", says the rule for the
\* oracle's predictions; on the fast path they are presented as causal ones.
OracleBounded ==
  request.evidence.source = "chimera" /\ Allowed(request) => request.evidence.effect \in -200..200

\* "Data deletion requires admin approval", says the built-in rule's message.
DeletionByAdmin == request.type = "delete_data" /\ Allowed(request) => request.approver = "admin"

\* "Mirrors cross_cutting.csl", says the built-in policy.
MirrorsFile ==
  Evaluate(<<CrossCutting>>, Context(request), TRUE).allow = CrossCuttingFileAllows(Context(request))

\* guardian_evaluate evaluates the flat context it is given.
FlatContextEvaluated == GuardianEvaluate(Context(request)) = Allowed(request)
===============================================================================
