----------------------------- MODULE CarfGraph -----------------------------
(***************************************************************************)
(* One run of the CARF workflow (src/src/workflows/graph.py): the LangGraph*)
(* state graph whose nodes are the router, the RAG and CSL pre-steps, the  *)
(* domain agents, the Guardian, the reflector, governance and the human    *)
(* escalation.  There is one action per node; it includes the conditional  *)
(* edge that LangGraph evaluates when the node returns, so pc is the next  *)
(* node to run, "end" or "failed" (graph.ainvoke raised).                  *)
(*                                                                         *)
(* Language models, refuters, CSL and OPA are the environment: their       *)
(* answers are chosen with \E.  The Guardian's configuration is a process- *)
(* wide singleton that the API replaces at any time.                       *)
(***************************************************************************)
EXTENDS Guardian

CONSTANTS
  Levels,           \* the confidences, in percent, that a classifier returns
  RouterThreshold,  \* RouterConfig.confidence_threshold, in percent
  MaxReflections,   \* EpistemicState.max_reflections
  EValues,          \* the E-values an estimation returns, None included
  Configs,          \* the Guardian configurations the API sets
  Queries,          \* the requests: see Query below
  CslRules,         \* names of CSL rules that may be violated
  CslEnabled, CslFailClosed, OpaEnabled, GovernanceEnabled, \* deployment switches
  HumanClient,      \* whether a HumanLayer client is configured
  RecursionLimit    \* LangGraph's bound on the supersteps of one invocation

Nodes == {"router", "rag_context", "csl_precheck", "deterministic_runner",
          "causal_analyst", "chimera_fast_path", "bayesian_explorer",
          "circuit_breaker", "guardian", "reflector", "governance", "human_escalation"}
Done == {"end", "failed"}

\* What of a request and its context the nodes look at: the domain hint, whether
\* its wording is causal, whether it carries raw data, whether a trained oracle
\* model matches it, and the risk level the caller declares.
Query == [hint : Domains \cup {None}, causal : BOOLEAN, data : BOOLEAN,
          oracle : BOOLEAN, risk : {"LOW", "MEDIUM", "HIGH", "CRITICAL", None}]

ActionTypes == {"lookup", "causal_recommendation", "causal_prediction",
                "exploration_probe", "gather_information", "emergency_stop"}

\* No agent proposes an amount; flagged marks an action the reflector repaired.
Propose(type) ==
  [type |-> type, amount |-> None, budget |-> None, convertible |-> TRUE,
   flagged |-> FALSE]
Actions == [type : ActionTypes, amount : {None}, budget : {None}, convertible : {TRUE},
            flagged : BOOLEAN]

Statuses == {"IDLE", "APPROVED", "REJECTED", "MODIFIED", "TIMEOUT"}

ASSUME GraphAssumption ==
  /\ MaxReflections \in Nat /\ RecursionLimit \in Nat
  /\ 6 * (MaxReflections + 1) <= RecursionLimit
  /\ RouterThreshold \in 0..100 /\ Levels \subseteq 0..100
  /\ Queries \subseteq Query
  /\ EValues \subseteq Int \cup {None}
  /\ None \notin Verdicts /\ None \notin Actions /\ None \notin Evidences
  /\ {CslEnabled, CslFailClosed, OpaEnabled, GovernanceEnabled, HumanClient} \subseteq BOOLEAN

VARIABLES
  pc,           \* the node LangGraph runs next
  query,        \* the request, unchanged during the run
  domain, confidence,  \* cynefin_domain and domain_confidence
  risk,         \* context["risk_level"]
  action,       \* proposed_action
  evidence,     \* causal_evidence
  verdict,      \* guardian_verdict
  violations,   \* policy_violations, as names
  reflections,  \* reflection_count
  status,       \* human_interaction_status
  asked,        \* whether last_human_feedback is set
  answers,      \* what the last Guardian evaluation was told: config, CSL, OPA
  steps,        \* LangGraph supersteps taken
  config        \* the Guardian configuration in force

classification == <<domain, confidence>>
proposal == <<action, evidence>>
judgement == <<verdict, violations, answers>>
human == <<status, asked>>
vars == <<pc, query, classification, risk, proposal, judgement, reflections,
          human, steps, config>>

Init ==
  /\ pc = "router"
  /\ query \in Queries
  /\ domain = "Disorder" /\ confidence = 0
  /\ risk = query.risk
  /\ action = None /\ evidence = None
  /\ verdict = None /\ violations = {} /\ answers = None
  /\ reflections = 0
  /\ status = "IDLE" /\ asked = FALSE
  /\ steps = 0
  /\ config \in Configs

\* Node n runs and returns, and LangGraph goes on with next.  The count of
\* supersteps stops one past the limit, where LangGraph would abort the run.
Run(n, next) ==
  /\ pc = n /\ pc' = next
  /\ steps' = IF steps > RecursionLimit THEN steps ELSE steps + 1
  /\ UNCHANGED <<query, config>>

-----------------------------------------------------------------------------
(* Router, RAG context and CSL pre-check *)

AtLeast(c, floor) == IF c < floor THEN floor ELSE c

\* _apply_causal_language_boost
CausalBoost(c) ==
  IF c.domain = "Complex" /\ query.causal
  THEN [domain |-> "Complicated", confidence |-> AtLeast(c.confidence, 85)] ELSE c

\* A domain hint overrides a classifier that says otherwise.
HintOverride(c) ==
  IF query.hint \notin {None, c.domain}
  THEN [domain |-> query.hint, confidence |-> AtLeast(c.confidence, 88)] ELSE c

Thresholded(c) ==
  IF c.confidence < RouterThreshold THEN [c EXCEPT !.domain = "Disorder"] ELSE c

\* What the classifier answers; a reply that does not parse is Disorder at 0.
Classifications == [domain : Domains, confidence : Levels]
                     \cup {[domain |-> "Disorder", confidence |-> 0]}

Router ==
  /\ Run("router", "rag_context")
  /\ \E raw \in Classifications :
       LET c == Thresholded(HintOverride(CausalBoost(raw)))
       IN  domain' = c.domain /\ confidence' = c.confidence
  /\ UNCHANGED <<risk, proposal, judgement, reflections, human>>

\* rag_context_node swallows every error and only adds text to the context.
RagContext ==
  /\ Run("rag_context", "csl_precheck")
  /\ UNCHANGED <<classification, risk, proposal, judgement, reflections, human>>

ChimeraEligible == domain = "Complicated" /\ confidence >= 85 /\ query.oracle

RouteByDomain ==
  CASE domain = "Clear" -> "deterministic_runner"
    [] domain = "Complicated" ->
         IF ChimeraEligible THEN "chimera_fast_path" ELSE "causal_analyst"
    [] domain = "Complex" -> "bayesian_explorer"
    [] domain = "Chaotic" -> "circuit_breaker"
    [] domain = "Disorder" -> "human_escalation"

\* csl_precheck_node adds limits that no in-graph action is large enough to meet.
CslPrecheck ==
  /\ Run("csl_precheck", RouteByDomain)
  /\ UNCHANGED <<classification, risk, proposal, judgement, reflections, human>>

\* The classifier, or a model an agent consults, fails after its retries: the
\* exception leaves the node and ends the run.
Consults(n) ==
  \/ n \in {"router", "causal_analyst", "chimera_fast_path", "bayesian_explorer"}
  \/ n = "deterministic_runner" /\ query.data

NodeFails ==
  /\ \E n \in Nodes : Consults(n) /\ Run(n, "failed")
  /\ UNCHANGED <<classification, risk, proposal, judgement, reflections, human>>

-----------------------------------------------------------------------------
(* Domain agents *)

AgentProposes(n, a, e) ==
  /\ Run(n, "guardian")
  /\ action' = a /\ evidence' = e
  /\ UNCHANGED <<classification, risk, verdict, answers, reflections, human>>

DeterministicRunner ==
  AgentProposes("deterministic_runner", Propose("lookup"), evidence) /\ UNCHANGED violations

\* run_causal_analysis, in full: an estimate that is not robust is listed among
\* the policy violations before the Guardian sees it.
Estimate(n) ==
  \E s \in RefutationStatuses, v \in EValues, crosses \in BOOLEAN :
    /\ AgentProposes(n, Propose("causal_recommendation"), EstimatedEvidence(s, v, crosses))
    /\ violations' = IF Robust(s, v, crosses) THEN violations
                     ELSE violations \cup {"causal_robustness_below_threshold"}

\* _data_grounded_fallback, after a ValueError: it answers the user and leaves
\* the action and the evidence as it found them.
Fallback(n, a, e) == AgentProposes(n, a, e) /\ UNCHANGED violations

\* run_causal_analysis takes its own oracle shortcut.
OracleShortcut(n) ==
  query.oracle /\ AgentProposes(n, Propose("causal_recommendation"), OracleEvidence) /\ UNCHANGED violations

CausalAnalyst ==
  \/ Estimate("causal_analyst")
  \/ OracleShortcut("causal_analyst")
  \/ Fallback("causal_analyst", action, evidence)

\* chimera_fast_path_node predicts, or falls through to causal_analyst_node; an
\* exception may do so after the evidence, or also the action, was assigned.
ChimeraFastPath ==
  LET prediction == Propose("causal_prediction") IN
  \/ AgentProposes("chimera_fast_path", prediction, OracleEvidence) /\ UNCHANGED violations
  \/ Estimate("chimera_fast_path")
  \/ OracleShortcut("chimera_fast_path")
  \/ Fallback("chimera_fast_path", action, evidence)
  \/ Fallback("chimera_fast_path", action, OracleEvidence)
  \/ Fallback("chimera_fast_path", prediction, OracleEvidence)

BayesianExplorer ==
  /\ \E t \in {"exploration_probe", "gather_information"} :
       AgentProposes("bayesian_explorer", Propose(t), evidence)
  /\ UNCHANGED violations

CircuitBreaker ==
  /\ Run("circuit_breaker", "human_escalation")
  /\ action' = Propose("emergency_stop")
  /\ UNCHANGED <<classification, risk, evidence, judgement, reflections, human>>

-----------------------------------------------------------------------------
(* Guardian, reflector, governance, human *)

DeriveRisk ==
  CASE domain = "Chaotic" -> "CRITICAL"
    [] domain = "Disorder" -> "HIGH"
    [] domain \notin {"Chaotic", "Disorder"} /\ confidence < 50 -> "HIGH"
    [] domain \notin {"Chaotic", "Disorder"} /\ confidence \in 50..69 -> "MEDIUM"
    [] OTHER -> "LOW"

\* inject_csl_context: a risk level already in the context is kept.
InjectedRisk == IF CslEnabled /\ risk = None THEN DeriveRisk ELSE risk

\* CSLPolicyService.evaluate: a state it cannot map or evaluate is denied, with
\* no violation to name, when it fails closed and allowed when it fails open.
CslAnswers ==
  LET Answer(allow, rules) == [kind |-> "answered", allow |-> allow, rules |-> rules]
  IN  IF ~CslEnabled THEN {[kind |-> "off", allow |-> TRUE, rules |-> {}]}
      ELSE {Answer(TRUE, {})} \cup {Answer(FALSE, {rule}) : rule \in CslRules}
             \cup (IF CslFailClosed THEN {Answer(FALSE, {})} ELSE {})

OpaAnswers == IF OpaEnabled THEN {"allow", "deny", "raised"} ELSE {"off"}

\* Three mutants of the routing below: the limit is passed by one, an exhausted
\* rejection ends the run, an escalation ends the run.
RouteOffByOne(v) ==
  CASE v = "APPROVED" -> IF GovernanceEnabled THEN "governance" ELSE "end"
    [] v = "REJECTED" ->
         IF reflections > MaxReflections THEN "human_escalation" ELSE "reflector"
    [] v = "REQUIRES_ESCALATION" -> "human_escalation"
RouteRejectedToEnd(v) ==
  CASE v = "APPROVED" -> IF GovernanceEnabled THEN "governance" ELSE "end"
    [] v = "REJECTED" -> IF reflections >= MaxReflections THEN "end" ELSE "reflector"
    [] v = "REQUIRES_ESCALATION" -> "human_escalation"
RouteEscalationToEnd(v) ==
  CASE v = "REJECTED" ->
         IF reflections >= MaxReflections THEN "human_escalation" ELSE "reflector"
    [] OTHER -> IF GovernanceEnabled THEN "governance" ELSE "end"

RouteAfterGuardian(v) ==
  CASE v = "APPROVED" -> IF GovernanceEnabled THEN "governance" ELSE "end"
    [] v = "REJECTED" ->
         IF reflections >= MaxReflections THEN "human_escalation" ELSE "reflector"
    [] v = "REQUIRES_ESCALATION" -> "human_escalation"

GuardianNode ==
  /\ risk' = InjectedRisk
  /\ \E csl \in CslAnswers, opa \in OpaAnswers :
       LET r == [domain |-> domain, confidence |-> confidence, risk |-> risk',
                 reflections |-> reflections, action |-> action, evidence |-> evidence]
           d == Evaluate(config, r, csl, opa)
       IN  /\ Run("guardian", RouteAfterGuardian(d.verdict))
           /\ verdict' = d.verdict
           /\ violations' = {v.name : v \in d.violations}
           /\ answers' = [config |-> config, csl |-> csl, opa |-> opa]
  /\ UNCHANGED <<classification, proposal, reflections, human>>

\* A mutant of the reflector that forgets to count its attempt.
ReflectorUncounted ==
  /\ Run("reflector", "router")
  /\ action' = None /\ verdict' = None
  /\ UNCHANGED <<classification, risk, evidence, violations, answers, reflections, human>>

\* A repair keeps the action's type and is dropped unless it changed something.
Reflector ==
  /\ Run("reflector", "router")
  /\ reflections' = reflections + 1
  /\ \/ action' = None
     \/ action # None /\ violations # {} /\ action' = [action EXCEPT !.flagged = TRUE]
  /\ verdict' = None
  /\ UNCHANGED <<classification, risk, evidence, violations, answers, human>>

\* governance_node never blocks: its failures are caught and logged.
Governance ==
  /\ Run("governance", "end")
  /\ UNCHANGED <<classification, risk, proposal, judgement, reflections, human>>

\* human_escalation_node: without a client it answers by itself, with one it
\* records that the answer is pending.
ResponseType ==
  IF HumanClient THEN "pending"
  ELSE IF domain = "Disorder" \/ action = None THEN "clarification" ELSE "approve"

\* update_state_from_response
StatusAfter(response) ==
  CASE response = "approve" -> "APPROVED"
    [] response = "reject" -> "REJECTED"
    [] response = "modify" -> "MODIFIED"
    [] response = "timeout" -> "TIMEOUT"
    [] OTHER -> "IDLE"

RouteAfterHuman(s) == IF s = "MODIFIED" THEN "router" ELSE "end"

HumanEscalation ==
  /\ status' = StatusAfter(ResponseType)
  /\ asked' = TRUE
  /\ Run("human_escalation", RouteAfterHuman(status'))
  /\ UNCHANGED <<classification, risk, proposal, judgement, reflections>>

-----------------------------------------------------------------------------

\* PUT and PATCH /guardian/config replace the singleton.
UpdateGuardianConfig ==
  /\ config' \in Configs \ {config}
  /\ UNCHANGED <<pc, query, classification, risk, proposal, judgement, reflections,
                 human, steps>>

Step ==
  \/ Router \/ RagContext \/ CslPrecheck \/ NodeFails
  \/ DeterministicRunner \/ CausalAnalyst \/ ChimeraFastPath \/ BayesianExplorer
  \/ CircuitBreaker \/ GuardianNode \/ Reflector \/ Governance \/ HumanEscalation

Next == Step \/ UpdateGuardianConfig

\* asyncio resumes every ready task, and every node returns or raises: what a
\* node waits for has bounded retries and a client with a timeout.
Spec == Init /\ [][Next]_vars /\ WF_vars(Step)

-----------------------------------------------------------------------------
(* Properties *)

\* The type of the EpistemicState as the nodes hand it on.
TypeOK ==
  /\ pc \in Nodes \cup Done
  /\ query \in Queries
  /\ domain \in Domains /\ confidence \in 0..100
  /\ risk \in {"LOW", "MEDIUM", "HIGH", "CRITICAL", None}
  /\ action \in Actions \cup {None}
  /\ evidence \in Evidences \cup {None}
  /\ verdict \in Verdicts \cup {None}
  /\ reflections \in 0..MaxReflections
  /\ status \in Statuses /\ asked \in BOOLEAN
  /\ steps \in 0..RecursionLimit + 1
  /\ config \in Configs

\* A run that reaches END without a human was approved by the Guardian in its
\* last pass, with nothing left to object to: the request is one the system may
\* decide alone, no declared or derived risk is high, and OPA did not deny it.
Released == pc \in {"governance", "end"} /\ ~asked
ReleasedCleanly ==
  Released => /\ verdict = "APPROVED" /\ violations = {}
              /\ domain \in {"Clear", "Complicated", "Complex"}
              /\ confidence >= RouterThreshold
              /\ risk \notin {"HIGH", "CRITICAL"}
              /\ answers.opa \notin {"deny", "raised"}

\* A causal action released without a human rests on evidence that passed every
\* refuter and reaches the profile's E-value, whichever pass produced it.
ReleasedClaimsAreRobust ==
  (Released /\ action # None /\ action.type \in {"causal_recommendation", "causal_prediction"})
    => /\ evidence # None
       /\ evidence.status = "passed"
       /\ evidence.eValue # None /\ evidence.eValue >= MinEValue

\* A fast-path prediction is never released without a human: its evidence keeps
\* the defaults of CausalEvidence, which the robustness gate refuses.
FastPathSeenByHuman ==
  action # None /\ action.type = "causal_prediction" => ~Released

\* The reflector runs only on a rejection that names its violations and while
\* there is a retry left, so the run always has room for its last pass.
ReflectsWithinBudget ==
  pc = "reflector" => /\ verdict = "REJECTED" /\ violations # {}
                      /\ reflections < MaxReflections

\* No run is cut off by LangGraph's recursion limit.
WithinRecursionLimit == steps <= RecursionLimit

\* Every run ends or fails.
Terminates == <>(pc \in Done)

\* A verdict that requires escalation is put before the human layer.
EscalationReachesHuman == verdict = "REQUIRES_ESCALATION" ~> asked

\* A run implements the abstract promise of module Oversight.
Promise == INSTANCE Oversight WITH
  Retries <- MaxReflections,
  retries <- reflections,
  phase <- IF Released THEN "released"
           ELSE IF asked THEN "asked"
           ELSE IF pc = "failed" THEN "failed"
           ELSE "working"
KeepsPromise == Promise!Spec

-----------------------------------------------------------------------------
(* What the repository says of the program and the code does otherwise *)

\* guardian.py: CSL-Core enforces "with fail-closed safety", so an action that
\* CSL does not allow is not approved.
CslFailsClosed ==
  answers # None /\ ~answers.csl.allow => verdict # "APPROVED"

\* guardian.py: strict_mode is "Reject on any violation (no escalation)".
StrictModeNeverEscalates ==
  answers # None /\ answers.config.strict => verdict # "REQUIRES_ESCALATION"

\* graph.py: the flow is "Disorder? -> Human -> Router".
DisorderReturnsToRouter ==
  [][pc = "human_escalation" /\ domain = "Disorder" => pc' = "router"]_vars

\* graph.py: "Derive risk level from domain and confidence", of the pass that the
\* Guardian judges.
RiskFollowsClassification ==
  answers # None /\ pc \in {"human_escalation", "reflector", "governance"} /\ verdict # None
    => risk = IF query.risk = None THEN DeriveRisk ELSE query.risk

\* causal_sensitivity.py: without require_all_refutations, "partial counts as
\* warning", so it is no violation of its own.
PartialRefutationIsAWarning ==
  evidence # None /\ evidence.reasons = {"partial"} /\ ~RequireFull
    => "causal_robustness_below_threshold" \notin violations
=============================================================================
