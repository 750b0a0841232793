-------------------------- MODULE CslSessionProofs --------------------------
(***************************************************************************)
(* Proofs about CslSession for any domains, types, amounts, currencies,    *)
(* roles and effects: what the built-in policies let through.              *)
(***************************************************************************)
EXTENDS CslSession, TLAPS

\* What the request says reaches the rules under its path.
LEMMA SaidIsResolved ==
  ASSUME NEW r
  PROVE  /\ Resolve(Context(r), "domain.type") = Str(r.domain)
         /\ Resolve(Context(r), "action.type") = Str(r.type)
         /\ Resolve(Context(r), "action.amount") = Num(InPolicyCurrency(r))
         /\ Resolve(Context(r), "action.requires_currency_conversion") = Bool(r.currency # "USD")
         /\ Resolve(Context(r), "action.currency_conversion_ok") = Bool(Convertible(r))
         /\ Resolve(Context(r), "action.is_financial") = Bool(r.type \in FinancialTypes \/ r.amount > 0)
         /\ Resolve(Context(r), "user.role") = Str(r.role)
         /\ Resolve(Context(r), "risk.level") = Str(RiskLevel(r))
         /\ Resolve(Context(r), "approval.status") = Str(IF r.approved THEN "approved" ELSE "")
         /\ Resolve(Context(r), "approval.escalated") = Bool(r.escalated)
         /\ Resolve(Context(r), "prediction.source") = Str(PredictionSource(r.evidence))
         /\ Resolve(Context(r), "prediction.is_actionable") = Bool(Causal(r))
         /\ Resolve(Context(r), "prediction.refutation_passed") = Bool(Causal(r) /\ ~r.evidence.refuted)
<1>1. \A p \in SaidPaths : Resolve(Context(r), p) = Said(r)[p]
  BY DEF Resolve, Context
<1> QED
  BY <1>1 DEF Said, SaidPaths

LEMMA DefaultIsResolved ==
  ASSUME NEW r
  PROVE  Resolve(Context(r), "action.daily_total") = Num(0)
<1>1. "action.daily_total" \notin SaidPaths /\ "action.daily_total" \in DOMAIN Defaults
  BY DEF SaidPaths, Defaults, ZeroByDefault
<1>2. Defaults["action.daily_total"] = Num(0)
  BY DEF Defaults, FalseByDefault, TrueByDefault, EmptyByDefault, ZeroByDefault
<1> QED
  BY <1>1, <1>2 DEF Resolve, Context

-----------------------------------------------------------------------------

\* The outcome of a rule with one entry that matches is the entry's.
LEMMA OneEntry ==
  ASSUME NEW c, NEW name, NEW when, NEW e, Matches(Rule(name, when, <<e>>), c)
  PROVE  RuleOutcome(c, Rule(name, when, <<e>>)) = EntryOutcome(c, e)
<1> DEFINE rule == Rule(name, when, <<e>>)
           outcomes == [i \in DOMAIN rule.then |-> EntryOutcome(c, rule.then[i])]
           bad == {i \in DOMAIN outcomes : outcomes[i] # "holds"}
<1>1. rule.then = <<e>> /\ DOMAIN rule.then = {1} /\ rule.then[1] = e
  BY DEF Rule
<1>2. DOMAIN outcomes = {1} /\ outcomes[1] = EntryOutcome(c, e)
  BY <1>1
<1>3. CASE bad = {}
  BY <1>2, <1>3 DEF RuleOutcome
<1>4. CASE bad = {1}
  <2>1. (CHOOSE i \in bad : \A j \in bad : i <= j) = 1
    BY <1>4
  <2> QED
    BY <1>2, <1>4, <2>1, Zenon DEF RuleOutcome
<1> HIDE DEF outcomes
<1> QED
  BY <1>2, <1>3, <1>4

\* A request that is allowed fails no rule of a policy.
LEMMA AllowedFailsNone ==
  ASSUME NEW r, Allowed(r), NEW policy \in ToSet(BuiltinPolicies), NEW rule \in ToSet(policy)
  PROVE  RuleOutcome(Context(r), rule) \notin {"fails", "raises"}
<1> DEFINE rules == UNION {ToSet(p) : p \in ToSet(BuiltinPolicies)}
           outcomes == {<<q.name, RuleOutcome(Context(r), q)>> : q \in rules}
           failing == {o[1] : o \in {o \in outcomes : o[2] = "fails"}}
<1>1. rule \in rules
  OBVIOUS
<1>2. <<rule.name, RuleOutcome(Context(r), rule)>> \in outcomes
  BY <1>1
<1>3. (\A o \in outcomes : o[2] # "raises") /\ failing = {}
  BY DEF Allowed, Evaluate
<1> HIDE DEF outcomes
<1> QED
  BY <1>2, <1>3

\* The rules the theorems rest on, each in a policy.
LEMMA BuiltinRules ==
  /\ \E policy \in ToSet(BuiltinPolicies) :
       /\ ConversionGate \in ToSet(policy)
       /\ \A p \in {<<"junior", 1>>, <<"senior", 50>>, <<"admin", 500>>} :
            TransferLimit(p[1], p[2]) \in ToSet(policy)
       /\ \A p \in {<<"Clear", 100>>, <<"Complicated", 50>>, <<"Complex", 25>>, <<"Chaotic", 10>>} :
            DomainLimit(p[1], p[2]) \in ToSet(policy)
  /\ \E policy \in ToSet(BuiltinPolicies) :
       /\ Rule("high_risk_requires_approval", {On("risk.level", "HIGH")}, Approved) \in ToSet(policy)
       /\ Rule("critical_risk_blocked", {On("risk.level", "CRITICAL")},
               <<Is("action.type", Str("halt"))>>) \in ToSet(policy)
       /\ Rule("chaotic_domain_block", {On("domain.type", "Chaotic")}, Escalated) \in ToSet(policy)
       /\ Rule("disorder_domain_block", {On("domain.type", "Disorder")}, Escalated) \in ToSet(policy)
  /\ \E policy \in ToSet(BuiltinPolicies) :
       Rule("refutation_required",
            {On("prediction.source", "causal"), If("prediction.is_actionable")},
            <<Is("prediction.refutation_passed", True)>>) \in ToSet(policy)
<1>1. /\ BudgetLimits \in ToSet(BuiltinPolicies) /\ ActionGates \in ToSet(BuiltinPolicies)
      /\ ChimeraGuards \in ToSet(BuiltinPolicies)
  BY DEF BuiltinPolicies, ToSet
<1>2. /\ DOMAIN BudgetLimits = 1..10 /\ BudgetLimits[4] = ConversionGate
      /\ BudgetLimits[1] = TransferLimit("junior", 1) /\ BudgetLimits[2] = TransferLimit("senior", 50)
      /\ BudgetLimits[3] = TransferLimit("admin", 500)
      /\ BudgetLimits[6] = DomainLimit("Clear", 100) /\ BudgetLimits[7] = DomainLimit("Complicated", 50)
      /\ BudgetLimits[8] = DomainLimit("Complex", 25) /\ BudgetLimits[9] = DomainLimit("Chaotic", 10)
  BY DEF BudgetLimits
<1>3. /\ ConversionGate \in ToSet(BudgetLimits)
      /\ \A p \in {<<"junior", 1>>, <<"senior", 50>>, <<"admin", 500>>} :
           TransferLimit(p[1], p[2]) \in ToSet(BudgetLimits)
      /\ \A p \in {<<"Clear", 100>>, <<"Complicated", 50>>, <<"Complex", 25>>, <<"Chaotic", 10>>} :
           DomainLimit(p[1], p[2]) \in ToSet(BudgetLimits)
  BY <1>2 DEF ToSet
<1>4. /\ Rule("high_risk_requires_approval", {On("risk.level", "HIGH")}, Approved) \in ToSet(ActionGates)
      /\ Rule("critical_risk_blocked", {On("risk.level", "CRITICAL")},
              <<Is("action.type", Str("halt"))>>) \in ToSet(ActionGates)
      /\ Rule("chaotic_domain_block", {On("domain.type", "Chaotic")}, Escalated) \in ToSet(ActionGates)
      /\ Rule("disorder_domain_block", {On("domain.type", "Disorder")}, Escalated) \in ToSet(ActionGates)
  BY DEF ActionGates, ToSet
<1>5. Rule("refutation_required",
           {On("prediction.source", "causal"), If("prediction.is_actionable")},
           <<Is("prediction.refutation_passed", True)>>) \in ToSet(ChimeraGuards)
  BY DEF ChimeraGuards, ToSet
<1> QED
  BY <1>1, <1>3, <1>4, <1>5

\* A condition on a string matches when the context has it.
LEMMA OnMatches ==
  ASSUME NEW c, NEW path, NEW v, Resolve(c, path) = Str(v)
  PROVE  LET actual == Resolve(c, On(path, v)[1])
         IN  actual # None /\ Same(actual, On(path, v)[2])
BY DEF On, Str, None, Same

LEMMA IfMatches ==
  ASSUME NEW c, NEW path, Resolve(c, path) = True
  PROVE  LET actual == Resolve(c, If(path)[1])
         IN  actual # None /\ Same(actual, If(path)[2])
BY DEF If, True, Bool, None, Same

\* Money, or a financial type, in a currency without a rate is not allowed.
LEMMA AllowedConverts ==
  ASSUME NEW r, Allowed(r), r.type \in FinancialTypes \/ r.amount > 0
  PROVE  Convertible(r)
<1> SUFFICES ASSUME ~Convertible(r) PROVE FALSE
  OBVIOUS
<1> DEFINE e == Is("action.currency_conversion_ok", True)
           c == Context(r)
<1>1. r.currency # "USD"
  BY DEF Convertible, Rates
<1>2. Resolve(c, "action.is_financial") = True /\ Resolve(c, "action.requires_currency_conversion") = True
  BY <1>1, SaidIsResolved DEF True, Bool
<1>3. Resolve(c, "action.currency_conversion_ok") = Bool(FALSE)
  BY SaidIsResolved DEF Bool
<1> HIDE DEF c
<1>4. Matches(ConversionGate, c)
  <2>1. /\ ConversionGate.when = {If("action.is_financial"), If("action.requires_currency_conversion")}
    BY DEF ConversionGate, Rule
  <2> QED
    BY <1>2, <2>1, IfMatches DEF Matches
<1>5. EntryOutcome(c, e) = "fails"
  BY <1>3 DEF EntryOutcome, Is, Deferred, Verdict, Same, True, Bool, None, IsNumber
<1>6. RuleOutcome(c, ConversionGate) = "fails"
  BY <1>4, <1>5, OneEntry DEF ConversionGate
<1> QED
  BY <1>6, BuiltinRules, AllowedFailsNone DEF c

\* The amount rules skip an amount that cannot be converted and rely on the
\* conversion gate of another policy position to stop it (CSLRule.evaluate,
\* _create_budget_limits_policy): for any request, money in an unknown currency
\* is not let through.
THEOREM UnknownMoneyIsStopped == Spec => []UnknownMoneyStopped
<1>1. UnknownMoneyStopped
  BY AllowedConverts DEF UnknownMoneyStopped
<1> QED
  BY <1>1, PTL

-----------------------------------------------------------------------------

\* An entry that asks for a flag or a string, and is not an amount, gets it.
LEMMA FlagRequired ==
  ASSUME NEW c, NEW path, path \notin {"action.amount", "action.daily_total"},
         Resolve(c, path) \in {<<"bool", 0>>, <<"bool", 1>>},
         EntryOutcome(c, Is(path, True)) \notin {"fails", "raises"}
  PROVE  Resolve(c, path) = <<"bool", 1>>
BY DEF EntryOutcome, Is, Deferred, Verdict, Same, True, Bool, None, IsNumber

LEMMA StringRequired ==
  ASSUME NEW c, NEW path, path \notin {"action.amount", "action.daily_total"},
         NEW v, NEW u, Resolve(c, path) = Str(u),
         EntryOutcome(c, Is(path, Str(v))) \notin {"fails", "raises"}
  PROVE  u = v
BY DEF EntryOutcome, Is, Deferred, Verdict, Same, Str, None, IsNumber

\* A gate on one condition, of which the one entry asks for a value.
LEMMA GateHolds ==
  ASSUME NEW r, Allowed(r), NEW policy \in ToSet(BuiltinPolicies), NEW name, NEW path, NEW v, NEW e,
         Rule(name, {On(path, v)}, <<e>>) \in ToSet(policy), Resolve(Context(r), path) = Str(v)
  PROVE  EntryOutcome(Context(r), e) \notin {"fails", "raises"}
<1> DEFINE c == Context(r)
<1> HIDE DEF c
<1>1. Matches(Rule(name, {On(path, v)}, <<e>>), c)
  <2>1. Rule(name, {On(path, v)}, <<e>>).when = {On(path, v)}
    BY DEF Rule
  <2> QED
    BY <2>1, OnMatches DEF Matches, c
<1>2. RuleOutcome(c, Rule(name, {On(path, v)}, <<e>>)) = EntryOutcome(c, e)
  BY <1>1, OneEntry
<1> QED
  BY <1>2, AllowedFailsNone DEF c

TypeOK == request \in
  [domain : Domains, confidence : Confidences, type : Types, amount : Amounts,
   currency : Currencies, role : Roles, risk : Risks \cup {"unset"}, approved : BOOLEAN,
   approver : {"", "admin"}, escalated : BOOLEAN, evidence : Evidence \cup {NoEvidence}]

LEMMA TypeCorrect == Spec => []TypeOK
<1>1. Init => TypeOK
  BY DEF Init, TypeOK
<1>2. TypeOK /\ [Next]_vars => TypeOK'
  <2> SUFFICES ASSUME TypeOK, [Next]_vars PROVE TypeOK'
    OBVIOUS
  <2> QED
    BY DEF TypeOK, Next, Analyse, Reprice, Approve, Escalate, vars
<1> QED
  BY <1>1, <1>2, PTL DEF Spec

\* A request the policies allow has the oversight its domain and its derived risk
\* ask for, and no refuted causal claim (inject_csl_context, map_state_to_context,
\* the action gates and the refutation rule), however it was revised before.
THEOREM AllowedIsOverseen == Spec => []AllowedHasOversight
<1>1. ASSUME TypeOK, Allowed(request)
      PROVE  AllowedHasOversight
  <2> DEFINE c == Context(request)
  <2>1. PICK gates \in ToSet(BuiltinPolicies) :
          /\ Rule("high_risk_requires_approval", {On("risk.level", "HIGH")}, Approved) \in ToSet(gates)
          /\ Rule("critical_risk_blocked", {On("risk.level", "CRITICAL")},
                  <<Is("action.type", Str("halt"))>>) \in ToSet(gates)
          /\ Rule("chaotic_domain_block", {On("domain.type", "Chaotic")}, Escalated) \in ToSet(gates)
          /\ Rule("disorder_domain_block", {On("domain.type", "Disorder")}, Escalated) \in ToSet(gates)
    BY BuiltinRules
  <2>2. ASSUME request.domain \in {"Chaotic", "Disorder"}
        PROVE  request.escalated
    <3>1. Resolve(c, "domain.type") = Str(request.domain)
          /\ Resolve(c, "approval.escalated") = Bool(request.escalated)
      BY SaidIsResolved
    <3>2. EntryOutcome(c, Is("approval.escalated", True)) \notin {"fails", "raises"}
      BY <1>1, <2>1, <2>2, <3>1, GateHolds DEF Escalated
    <3>3. Bool(request.escalated) \in {<<"bool", 0>>, <<"bool", 1>>}
      BY DEF Bool
    <3>4. Bool(request.escalated) = <<"bool", 1>>
      BY <3>1, <3>2, <3>3, FlagRequired
    <3> QED
      BY <3>4 DEF Bool
  <2>3. ASSUME RiskLevel(request) = "HIGH"
        PROVE  request.approved
    <3> DEFINE status == IF request.approved THEN "approved" ELSE ""
    <3>1. Resolve(c, "risk.level") = Str("HIGH") /\ Resolve(c, "approval.status") = Str(status)
      BY <2>3, SaidIsResolved
    <3>2. EntryOutcome(c, Is("approval.status", Str("approved"))) \notin {"fails", "raises"}
      BY <1>1, <2>1, <3>1, GateHolds DEF Approved
    <3> HIDE DEF status, c
    <3>3. status = "approved"
      BY <3>1, <3>2, StringRequired
    <3> QED
      BY <3>3 DEF status
  <2>4. ASSUME RiskLevel(request) = "CRITICAL"
        PROVE  request.type = "halt"
    <3>1. Resolve(c, "risk.level") = Str("CRITICAL") /\ Resolve(c, "action.type") = Str(request.type)
      BY <2>4, SaidIsResolved
    <3>2. EntryOutcome(c, Is("action.type", Str("halt"))) \notin {"fails", "raises"}
      BY <1>1, <2>1, <3>1, GateHolds
    <3> QED
      BY <3>1, <3>2, StringRequired
  <2>5. ASSUME request.evidence.refuted
        PROVE  FALSE
    <3> DEFINE when == {On("prediction.source", "causal"), If("prediction.is_actionable")}
               e == Is("prediction.refutation_passed", True)
    <3>1. request.evidence.source = "causal"
      <4>1. request.evidence \in Evidence \/ request.evidence = NoEvidence
        BY <1>1 DEF TypeOK
      <4>2. request.evidence \in Evidence
        BY <2>5, <4>1 DEF NoEvidence
      <4> QED
        BY <2>5, <4>2 DEF Evidence, Sources
    <3>2. /\ Resolve(c, "prediction.source") = Str("causal") /\ Resolve(c, "prediction.is_actionable") = True
          /\ Resolve(c, "prediction.refutation_passed") = <<"bool", 0>>
      BY <2>5, <3>1, SaidIsResolved DEF PredictionSource, Causal, True, Bool
    <3> HIDE DEF c
    <3>3. Matches(Rule("refutation_required", when, <<e>>), c)
      <4>1. Rule("refutation_required", when, <<e>>).when = when
        BY DEF Rule
      <4> QED
        BY <3>2, <4>1, OnMatches, IfMatches DEF Matches
    <3>4. RuleOutcome(c, Rule("refutation_required", when, <<e>>)) = EntryOutcome(c, e)
      BY <3>3, OneEntry
    <3>5. EntryOutcome(c, e) \notin {"fails", "raises"}
      BY <1>1, <3>4, BuiltinRules, AllowedFailsNone DEF c
    <3> QED
      BY <3>2, <3>5, FlagRequired
  <2> QED
    BY <2>2, <2>3, <2>4, <2>5 DEF AllowedHasOversight
<1>2. TypeOK => AllowedHasOversight
  BY <1>1 DEF AllowedHasOversight
<1> QED
  BY <1>2, TypeCorrect, PTL

-----------------------------------------------------------------------------

\* An amount rule that is not deferred bounds the amount; a deferred one bounds
\* nothing, and then the currency has no rate.
LEMMA AmountBounded ==
  ASSUME NEW r, NEW limit \in Int, r.amount \in Nat,
         EntryOutcome(Context(r), Is("action.amount", Num(limit))) \notin {"fails", "raises"}
  PROVE  InPolicyCurrency(r) <= limit \/ ~Convertible(r)
<1> DEFINE c == Context(r)
<1>1. /\ Resolve(c, "action.amount") = Num(InPolicyCurrency(r))
      /\ Resolve(c, "action.currency_conversion_ok") = Bool(Convertible(r))
  BY SaidIsResolved
<1> HIDE DEF c
<1> SUFFICES ASSUME Convertible(r) PROVE InPolicyCurrency(r) <= limit
  OBVIOUS
<1>2. ~Deferred("action.amount", c)
  <2>1. Resolve(c, "action.currency_conversion_ok") = <<"bool", 1>>
    BY <1>1 DEF Bool
  <2>2. Truthy(<<"bool", 1>>)
    BY DEF Truthy, Bool, Num, Str, None
  <2> QED
    BY <2>1, <2>2 DEF Deferred
<1>3. Num(InPolicyCurrency(r)) # None
  BY DEF Num, None
<1> DEFINE amount == InPolicyCurrency(r)
           e == Is("action.amount", Num(limit))
<1>4. /\ e.path = "action.amount" /\ e.kind = "value" /\ e.value = <<"num", limit>>
      /\ Resolve(c, e.path) = <<"num", amount>>
  BY <1>1 DEF Is, Num
<1>5. EntryOutcome(c, e) \notin {"fails", "raises"}
  BY DEF c
<1> HIDE DEF amount, e
<1>6. EntryOutcome(c, e) = Verdict(amount <= limit)
  BY <1>2, <1>4 DEF EntryOutcome, IsNumber, None
<1> QED
  BY <1>5, <1>6 DEF Verdict, amount

\* What the built-in budget rules allow, budget_limits.csl allows too
\* (_create_budget_limits_policy, src/config/policies/budget_limits.csl): falling
\* back from csl-core widens no budget, not even by what it leaves to the conversion
\* gate.
THEOREM NoWiderThanTheFile == Spec => []NoWiderThanBudgetFile
<1>1. ASSUME TypeOK, Allowed(request)
      PROVE  BudgetFileAllows(Context(request))
  <2> DEFINE c == Context(request)
  <2>1. PICK budgets \in ToSet(BuiltinPolicies) :
          /\ \A p \in {<<"junior", 1>>, <<"senior", 50>>, <<"admin", 500>>} :
               TransferLimit(p[1], p[2]) \in ToSet(budgets)
          /\ \A p \in {<<"Clear", 100>>, <<"Complicated", 50>>, <<"Complex", 25>>, <<"Chaotic", 10>>} :
               DomainLimit(p[1], p[2]) \in ToSet(budgets)
    BY BuiltinRules
  <2>2. /\ request.amount \in Nat
        /\ Resolve(c, "action.amount")[2] = InPolicyCurrency(request)
    <3>1. Resolve(c, "action.amount") = Num(InPolicyCurrency(request))
      BY SaidIsResolved
    <3>2. request.amount \in Amounts
      BY <1>1 DEF TypeOK
    <3>3. request.amount \in Nat
      BY <3>2, SessionAssumption
    <3>4. Num(InPolicyCurrency(request))[2] = InPolicyCurrency(request)
      BY DEF Num
    <3> HIDE DEF c
    <3> QED
      BY <3>1, <3>3, <3>4
  <2>3. ~Convertible(request) => request.type \notin FinancialTypes /\ InPolicyCurrency(request) = 0
    BY <1>1, <2>2, AllowedConverts DEF InPolicyCurrency
  <2>4. ASSUME NEW p \in {<<"junior", 1>>, <<"senior", 50>>, <<"admin", 500>>},
               Holds(c, "user.role", Str(p[1])), Holds(c, "action.type", Str("transfer"))
        PROVE  NoMore(c, "action.amount", p[2])
    <3> DEFINE when == {On("user.role", p[1]), On("action.type", "transfer")}
               name == p[1] \o "_transfer_limit"
               e == Is("action.amount", Num(p[2]))
    <3>1. TransferLimit(p[1], p[2]) = Rule(name, when, <<e>>)
      BY DEF TransferLimit
    <3>2. Resolve(c, "user.role") = Str(p[1]) /\ Resolve(c, "action.type") = Str("transfer")
      BY <2>4 DEF Holds
    <3>3. request.type \in FinancialTypes
      <4>1. Str(request.type) = Str("transfer")
        BY <3>2, SaidIsResolved
      <4> QED
        BY <4>1 DEF Str, FinancialTypes
    <3> HIDE DEF c, name
    <3>4. Matches(Rule(name, when, <<e>>), c)
      <4>1. Rule(name, when, <<e>>).when = when
        BY DEF Rule
      <4> QED
        BY <3>2, <4>1, OnMatches DEF Matches
    <3>5. RuleOutcome(c, Rule(name, when, <<e>>)) = EntryOutcome(c, e)
      BY <3>4, OneEntry
    <3>6. EntryOutcome(c, e) \notin {"fails", "raises"}
      BY <1>1, <2>1, <3>1, <3>5, AllowedFailsNone DEF c
    <3>7. p[2] \in Int
      OBVIOUS
    <3>8. InPolicyCurrency(request) <= p[2]
      BY <2>2, <2>3, <3>3, <3>6, <3>7, AmountBounded DEF c
    <3> QED
      BY <2>2, <3>8 DEF NoMore
  <2>5. ASSUME NEW p \in {<<"Clear", 100>>, <<"Complicated", 50>>, <<"Complex", 25>>, <<"Chaotic", 10>>},
               Holds(c, "domain.type", Str(p[1]))
        PROVE  NoMore(c, "action.amount", p[2])
    <3> DEFINE name == "domain_financial_limit_" \o p[1]
               e == Is("action.amount", Num(p[2]))
    <3>1. DomainLimit(p[1], p[2]) = Rule(name, {On("domain.type", p[1])}, <<e>>)
      BY DEF DomainLimit
    <3> HIDE DEF name
    <3>2. EntryOutcome(c, e) \notin {"fails", "raises"}
      BY <1>1, <2>1, <2>5, <3>1, GateHolds DEF Holds
    <3>3. p[2] \in Int /\ 0 <= p[2]
      OBVIOUS
    <3>4. InPolicyCurrency(request) <= p[2]
      BY <2>2, <2>3, <3>2, <3>3, AmountBounded
    <3> QED
      BY <2>2, <3>4 DEF NoMore
  <2>6. ~Holds(c, "prediction.source", Str("chimera"))
    <3>1. Resolve(c, "prediction.source") = Str(PredictionSource(request.evidence))
      BY SaidIsResolved
    <3>2. PredictionSource(request.evidence) # "chimera"
      BY DEF PredictionSource
    <3> QED
      BY <3>1, <3>2 DEF Holds, Str
  <2>7. NoMore(c, "action.daily_total", 100)
    BY DefaultIsResolved DEF NoMore, Num
  <2> HIDE DEF c
  <2>8. BudgetFileAllows(c)
    BY <2>4, <2>5, <2>6, <2>7 DEF BudgetFileAllows
  <2> QED
    BY <2>8 DEF c
<1>2. TypeOK => NoWiderThanBudgetFile
  BY <1>1 DEF NoWiderThanBudgetFile
<1> QED
  BY <1>2, TypeCorrect, PTL
=============================================================================
