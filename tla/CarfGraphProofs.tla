--------------------------- MODULE CarfGraphProofs ---------------------------
(***************************************************************************)
(* What a CARF run guarantees for every value of the constants: the        *)
(* safety invariants of CarfGraph, from one inductive invariant.           *)
(***************************************************************************)
EXTENDS CarfGraph, TLAPS

-----------------------------------------------------------------------------
(* The Guardian's pipeline *)

Requests == [domain : Domains, confidence : 0..100,
             risk : {"LOW", "MEDIUM", "HIGH", "CRITICAL", None},
             reflections : Nat, action : Actions \cup {None},
             evidence : Evidences \cup {None}]

\* Evaluate answers one of the three verdicts.
LEMMA EvaluateVerdict ==
  ASSUME NEW cfg, NEW r, NEW csl, NEW opa \in {"off", "allow", "deny", "raised"}
  PROVE  Evaluate(cfg, r, csl, opa).verdict \in Verdicts
<1>1. \A s : DetermineVerdict(s) \in Verdicts
  BY DEF DetermineVerdict, Verdicts
<1>2. PolicyDecision(cfg, r).verdict \in Verdicts
  BY <1>1 DEF PolicyDecision, Decision, Verdicts
<1>3. ApplyCsl(PolicyDecision(cfg, r), csl).verdict \in Verdicts
  BY <1>1, <1>2 DEF ApplyCsl, Decision, Verdicts
<1> QED
  BY <1>3 DEF Evaluate, ApplyOpa, Decision, Verdicts

\* Nothing is approved while a check, a CSL rule or OPA objects.
LEMMA ApprovedIsClean ==
  ASSUME NEW cfg, NEW r, NEW csl, NEW opa \in {"off", "allow", "deny", "raised"},
         Evaluate(cfg, r, csl, opa).verdict = "APPROVED"
  PROVE  /\ Evaluate(cfg, r, csl, opa).violations = {}
         /\ PolicyViolations(cfg, r) = {}
         /\ opa \in {"off", "allow"}
<1> DEFINE p == PolicyDecision(cfg, r)
           c == ApplyCsl(p, csl)
<1>1. \A s : DetermineVerdict(s) = "APPROVED" <=> s = {}
  BY DEF DetermineVerdict
<1>2. opa \in {"off", "allow"} /\ Evaluate(cfg, r, csl, opa) = c
  BY DEF Evaluate, ApplyOpa, Decision
<1>3. p.violations = PolicyViolations(cfg, r)
      /\ (p.verdict = "APPROVED" => p.violations = {})
  BY <1>1 DEF PolicyDecision, Decision
<1>4. c.verdict = "APPROVED" => c.violations = {} /\ p.violations = {}
  <2>1. CASE csl.kind = "off" \/ (csl.kind = "answered" /\ csl.allow)
    BY <2>1, <1>3 DEF ApplyCsl
  <2>2. CASE ~(csl.kind = "off" \/ (csl.kind = "answered" /\ csl.allow)) /\ csl.kind = "raised"
    BY <2>2 DEF ApplyCsl, Decision
  <2>3. CASE ~(csl.kind = "off" \/ (csl.kind = "answered" /\ csl.allow)) /\ csl.kind # "raised"
    <3> DEFINE merged == p.violations \cup {Violation(rule, "high") : rule \in csl.rules}
    <3>1. c = Decision(DetermineVerdict(merged), merged)
      BY <2>3 DEF ApplyCsl
    <3>2. c.verdict = DetermineVerdict(merged) /\ c.violations = merged
      BY <3>1 DEF Decision
    <3>3. p.violations \subseteq merged
      OBVIOUS
    <3> HIDE DEF merged, p, c
    <3> QED BY <3>2, <3>3, <1>1
  <2> QED BY <2>1, <2>2, <2>3
<1> QED
  BY <1>2, <1>3, <1>4

\* A rejection or an escalation of a request names what it is for.
LEMMA RejectedNamesWhy ==
  ASSUME NEW cfg, NEW r, NEW csl, NEW opa \in {"off", "allow", "deny", "raised"},
         csl.kind \in {"off", "answered"},
         Evaluate(cfg, r, csl, opa).verdict = "REJECTED"
  PROVE  Evaluate(cfg, r, csl, opa).violations # {}
<1> DEFINE p == PolicyDecision(cfg, r)
           c == ApplyCsl(p, csl)
<1>1. \A s : DetermineVerdict(s) = "REJECTED" => s # {}
  BY DEF DetermineVerdict
<1>2. p.verdict = "REJECTED" => p.violations # {}
  BY <1>1 DEF PolicyDecision, Decision
<1>3. c.verdict = "REJECTED" => c.violations # {}
  BY <1>1, <1>2 DEF ApplyCsl, Decision
<1> QED
  BY <1>3 DEF Evaluate, ApplyOpa, Decision

\* A request no check objects to declares no high risk, and its causal evidence,
\* if it has any, passed every refuter and reaches the minimum E-value.
LEMMA CleanRequest ==
  ASSUME NEW cfg, NEW r \in Requests, PolicyViolations(cfg, r) = {}
  PROVE  /\ r.risk \notin {"HIGH", "CRITICAL"}
         /\ r.evidence # None =>
              /\ r.evidence.status \notin {"skipped", "failed"}
              /\ r.evidence.reasons = {}
              /\ r.evidence.eValue # None /\ r.evidence.eValue >= MinEValue
<1>1. RiskCheck(r) = {} /\ RobustnessCheck(r) = {}
  BY DEF PolicyViolations
<1>2. r.risk \notin {"HIGH", "CRITICAL"}
  BY <1>1 DEF RiskCheck, When
<1>3. ASSUME r.evidence # None
      PROVE  RobustnessFailures(r.evidence) = {}
  BY <1>1, <1>3 DEF RobustnessCheck, When
<1>4. ASSUME r.evidence # None
      PROVE  /\ r.evidence.status \notin {"skipped", "failed"}
             /\ r.evidence.reasons = {}
             /\ r.evidence.eValue # None /\ r.evidence.eValue >= MinEValue
  <2> DEFINE e == r.evidence
  <2>1. e \in Evidences
    BY <1>4 DEF Requests
  <2>2. RobustnessFailures(e) = {}
    BY <1>3, <1>4
  <2>3. e.reasons = {}
    BY <2>2 DEF RobustnessFailures
  <2>4. e.status \notin {"skipped", "failed"}
    BY <2>2 DEF RobustnessFailures
  <2>5. e.eValue # None /\ ~(e.eValue < MinEValue)
    BY <2>2 DEF RobustnessFailures
  <2>6. e.eValue \in Int /\ MinEValue \in Int
    BY <2>1, <2>5, ProfileAssumption DEF Evidences
  <2> QED BY <2>3, <2>4, <2>5, <2>6
<1> QED BY <1>2, <1>4

-----------------------------------------------------------------------------
(* The inductive invariant *)

Agents == {"deterministic_runner", "causal_analyst", "chimera_fast_path",
           "bayesian_explorer", "circuit_breaker"}
Autonomous == {"Clear", "Complicated", "Complex"}

\* A node behind the router runs only for the domains that lead to it, and a
\* domain other than Disorder was chosen with enough confidence.
Routed ==
  /\ domain # "Disorder" => confidence >= RouterThreshold
  /\ pc \in {"deterministic_runner", "causal_analyst", "chimera_fast_path",
             "bayesian_explorer", "guardian", "reflector", "governance"}
       => domain \in Autonomous
  /\ asked => pc = "end"

\* An action keeps the evidence it was proposed with: a recommendation has
\* some, and a prediction has the oracle's; partial evidence says so.
Grounded ==
  /\ evidence # None /\ evidence.status = "partial" => evidence.reasons # {}
  /\ action # None /\ action.type = "causal_recommendation" => evidence # None
  /\ action # None /\ action.type = "causal_prediction"
       => evidence # None /\ evidence.status = "skipped"

\* Supersteps taken when node n is the next to run: each pass of the graph takes
\* six, from the router to the reflector.
Position(n) ==
  CASE n = "router" -> 0
    [] n = "rag_context" -> 1
    [] n = "csl_precheck" -> 2
    [] n \in Agents -> 3
    [] n = "guardian" -> 4
    [] OTHER -> 5

Counted ==
  /\ pc \in Nodes \ {"human_escalation"} => steps = 6 * reflections + Position(pc)
  /\ pc = "human_escalation" => steps <= 6 * reflections + 5
  /\ pc \in Done => steps <= 6 * reflections + 6

Inv ==
  /\ TypeOK /\ Routed /\ Grounded /\ Counted
  /\ ReflectsWithinBudget /\ ReleasedCleanly /\ ReleasedClaimsAreRobust

\* A run that is not over has supersteps left, so LangGraph counts one more.
LEMMA StepCounted ==
  ASSUME Inv, NEW n \in Nodes, NEW next, Run(n, next)
  PROVE  /\ pc = n /\ pc' = next /\ steps' = steps + 1
         /\ steps \in 0..RecursionLimit /\ steps' \in 0..RecursionLimit + 1
         /\ query' = query /\ config' = config
<1>1. reflections \in 0..MaxReflections /\ MaxReflections \in Nat /\ RecursionLimit \in Nat
      /\ steps \in 0..RecursionLimit + 1
  BY GraphAssumption DEF Inv, TypeOK
<1>2. 6 * reflections + 5 < RecursionLimit
  <2>1. 6 * reflections <= 6 * MaxReflections
    BY <1>1
  <2> QED BY <2>1, <1>1, GraphAssumption
<1>3. Position(n) \in 0..5
  BY DEF Position
<1>4. steps <= 6 * reflections + 5
  BY <1>1, <1>3 DEF Inv, Counted, Run
<1> QED BY <1>1, <1>2, <1>4 DEF Run

LEMMA InvInit == Init => Inv
<1> SUFFICES ASSUME Init PROVE Inv
  OBVIOUS
<1>1. TypeOK
  <2>1. query \in Queries /\ query.risk \in {"LOW", "MEDIUM", "HIGH", "CRITICAL", None}
    BY GraphAssumption DEF Init, Query
  <2>2. 0 \in 0..MaxReflections /\ 0 \in 0..RecursionLimit + 1
    BY GraphAssumption
  <2>3. pc \in Nodes /\ domain \in Domains /\ status \in Statuses
    BY DEF Init, Nodes, Domains, Statuses
  <2>4. asked \in BOOLEAN
    BY DEF Init
  <2>5. /\ confidence \in 0..100 /\ reflections \in 0..MaxReflections
        /\ steps \in 0..RecursionLimit + 1
    BY <2>2 DEF Init
  <2> QED BY <2>1, <2>3, <2>4, <2>5 DEF Init, TypeOK
<1>2. Routed /\ Grounded
  BY DEF Init, Routed, Grounded
<1>3. Counted
  BY DEF Init, Counted, Position, Nodes, Done, Agents
<1>4. ReflectsWithinBudget /\ ReleasedCleanly /\ ReleasedClaimsAreRobust
  BY DEF Init, ReflectsWithinBudget, ReleasedCleanly, ReleasedClaimsAreRobust, Released
<1> QED BY <1>1, <1>2, <1>3, <1>4 DEF Inv

\* The inductive step for the nodes that only classify or look around.
LEMMA RouterKeepsInv == Inv /\ Router => Inv'
<1> SUFFICES ASSUME Inv, Router PROVE Inv'
  OBVIOUS
<1>1. /\ pc = "router" /\ pc' = "rag_context" /\ steps' = steps + 1
      /\ steps' \in 0..RecursionLimit + 1 /\ query' = query /\ config' = config
      /\ UNCHANGED <<risk, proposal, judgement, reflections, human>>
  BY StepCounted DEF Router, Nodes
<1>2. PICK raw \in Classifications :
        LET c == Thresholded(HintOverride(CausalBoost(raw)))
        IN  domain' = c.domain /\ confidence' = c.confidence
  BY DEF Router
<1> DEFINE Classified == [domain : Domains, confidence : 0..100]
           b == CausalBoost(raw)
           h == HintOverride(b)
           c == Thresholded(h)
<1>3. raw \in Classified
  <2>1. Levels \subseteq 0..100 /\ 0 \in 0..100 /\ "Disorder" \in Domains
    BY GraphAssumption DEF Domains
  <2>2. [domain |-> "Disorder", confidence |-> 0] \in Classified
    BY <2>1
  <2>3. [domain : Domains, confidence : Levels] \subseteq Classified
    BY <2>1
  <2> QED BY <2>2, <2>3 DEF Classifications
<1>4. b \in Classified
  BY <1>3 DEF CausalBoost, AtLeast, Domains
<1>5. h \in Classified
  <2>1. query.hint # None => query.hint \in Domains
    BY GraphAssumption DEF Inv, TypeOK, Query
  <2> HIDE DEF b
  <2> QED BY <1>4, <2>1 DEF HintOverride, AtLeast
<1>6. c \in Classified /\ (c.domain # "Disorder" => c.confidence >= RouterThreshold)
  <2> HIDE DEF h
  <2> QED BY <1>5, GraphAssumption DEF Thresholded, Domains
<1>7. domain' \in Domains /\ confidence' \in 0..100
      /\ (domain' # "Disorder" => confidence' >= RouterThreshold)
  BY <1>2, <1>6
<1>8. TypeOK'
  BY <1>1, <1>7 DEF Inv, TypeOK, Nodes, proposal, judgement, human
<1>9. Routed' /\ Grounded' /\ Counted'
  BY <1>1, <1>7 DEF Inv, TypeOK, Routed, Grounded, Counted, Position, Nodes, Done, Agents,
                    proposal, judgement, human
<1>10. ReflectsWithinBudget' /\ ReleasedCleanly' /\ ReleasedClaimsAreRobust'
  BY <1>1 DEF ReflectsWithinBudget, ReleasedCleanly, ReleasedClaimsAreRobust, Released
<1> QED BY <1>8, <1>9, <1>10 DEF Inv

LEMMA RagContextKeepsInv == Inv /\ RagContext => Inv'
<1> SUFFICES ASSUME Inv, RagContext PROVE Inv'
  OBVIOUS
<1>1. /\ pc = "rag_context" /\ pc' = "csl_precheck" /\ steps' = steps + 1
      /\ steps' \in 0..RecursionLimit + 1 /\ query' = query /\ config' = config
      /\ UNCHANGED <<classification, risk, proposal, judgement, reflections, human>>
  BY StepCounted DEF RagContext, Nodes
<1>2. TypeOK'
  BY <1>1 DEF Inv, TypeOK, Nodes, classification, proposal, judgement, human
<1>3. Routed' /\ Grounded' /\ Counted'
  BY <1>1 DEF Inv, TypeOK, Routed, Grounded, Counted, Position, Nodes, Done, Agents,
              classification, proposal, judgement, human
<1>4. ReflectsWithinBudget' /\ ReleasedCleanly' /\ ReleasedClaimsAreRobust'
  BY <1>1 DEF ReflectsWithinBudget, ReleasedCleanly, ReleasedClaimsAreRobust, Released
<1> QED BY <1>2, <1>3, <1>4 DEF Inv

LEMMA CslPrecheckKeepsInv == Inv /\ CslPrecheck => Inv'
<1> SUFFICES ASSUME Inv, CslPrecheck PROVE Inv'
  OBVIOUS
<1>1. /\ pc = "csl_precheck" /\ pc' = RouteByDomain /\ steps' = steps + 1
      /\ steps' \in 0..RecursionLimit + 1 /\ query' = query /\ config' = config
      /\ UNCHANGED <<classification, risk, proposal, judgement, reflections, human>>
  BY StepCounted DEF CslPrecheck, Nodes
<1>2. /\ pc' \in {"deterministic_runner", "causal_analyst", "chimera_fast_path",
                  "bayesian_explorer", "circuit_breaker", "human_escalation"}
      /\ pc' \notin {"circuit_breaker", "human_escalation"} => domain \in Autonomous
  BY <1>1 DEF Inv, TypeOK, Domains, RouteByDomain, Autonomous
<1>3. TypeOK'
  BY <1>1, <1>2 DEF Inv, TypeOK, Nodes, classification, proposal, judgement, human
<1>4. Routed' /\ Grounded'
  BY <1>1, <1>2 DEF Inv, Routed, Grounded, classification, proposal, judgement, human
<1>5. Counted'
  BY <1>1, <1>2 DEF Inv, TypeOK, Counted, Position, Nodes, Done, Agents
<1>6. ReflectsWithinBudget' /\ ReleasedCleanly' /\ ReleasedClaimsAreRobust'
  BY <1>1, <1>2 DEF ReflectsWithinBudget, ReleasedCleanly, ReleasedClaimsAreRobust, Released
<1> QED BY <1>3, <1>4, <1>5, <1>6 DEF Inv

LEMMA NodeFailsKeepsInv == Inv /\ NodeFails => Inv'
<1> SUFFICES ASSUME Inv, NodeFails PROVE Inv'
  OBVIOUS
<1>1. PICK n \in Nodes : Consults(n) /\ Run(n, "failed")
  BY DEF NodeFails
<1>2. /\ n \in Nodes \ {"human_escalation"} /\ pc = n /\ pc' = "failed" /\ steps' = steps + 1
      /\ steps' \in 0..RecursionLimit + 1 /\ query' = query /\ config' = config
      /\ UNCHANGED <<classification, risk, proposal, judgement, reflections, human>>
  BY <1>1, StepCounted DEF NodeFails, Nodes, Consults
<1>3. TypeOK'
  BY <1>2 DEF Inv, TypeOK, Done, classification, proposal, judgement, human
<1>4. Routed' /\ Grounded'
  BY <1>2 DEF Inv, Routed, Grounded, Nodes, classification, proposal, judgement, human
<1>5. Counted'
  BY <1>2 DEF Inv, TypeOK, Counted, Position, Nodes, Done
<1>6. ReflectsWithinBudget' /\ ReleasedCleanly' /\ ReleasedClaimsAreRobust'
  BY <1>2 DEF ReflectsWithinBudget, ReleasedCleanly, ReleasedClaimsAreRobust, Released
<1> QED BY <1>3, <1>4, <1>5, <1>6 DEF Inv

-----------------------------------------------------------------------------
(* The agents: what they may propose, and that proposing it keeps Inv. *)

\* The two parts of Grounded that constrain a new proposal.
Supported(a, e) ==
  /\ e # None /\ e.status = "partial" => e.reasons # {}
  /\ a # None /\ a.type = "causal_recommendation" => e # None
  /\ a # None /\ a.type = "causal_prediction" => e # None /\ e.status = "skipped"

LEMMA ProposalKeepsInv ==
  ASSUME Inv, NEW n \in Agents \ {"circuit_breaker"},
         NEW a \in Actions \cup {None}, NEW e \in Evidences \cup {None},
         Supported(a, e), AgentProposes(n, a, e)
  PROVE  Inv'
<1>1. /\ pc = n /\ pc' = "guardian" /\ steps' = steps + 1
      /\ steps' \in 0..RecursionLimit + 1 /\ query' = query /\ config' = config
      /\ action' = a /\ evidence' = e
      /\ UNCHANGED <<classification, risk, verdict, answers, reflections, human>>
  BY StepCounted DEF AgentProposes, Nodes, Agents
<1>2. TypeOK'
  BY <1>1 DEF Inv, TypeOK, Nodes, classification, human
<1>3. Routed'
  BY <1>1 DEF Inv, Routed, Agents, classification, human
<1>4. Grounded'
  BY <1>1 DEF Grounded, Supported
<1>5. Counted'
  BY <1>1 DEF Inv, TypeOK, Counted, Position, Nodes, Done, Agents
<1>6. ReflectsWithinBudget' /\ ReleasedCleanly' /\ ReleasedClaimsAreRobust'
  BY <1>1 DEF ReflectsWithinBudget, ReleasedCleanly, ReleasedClaimsAreRobust, Released
<1> QED BY <1>2, <1>3, <1>4, <1>5, <1>6 DEF Inv

\* The evidence of a full analysis and of an oracle have the shape Grounded needs.
LEMMA EvidenceShapes ==
  /\ OracleEvidence \in Evidences /\ OracleEvidence # None
  /\ OracleEvidence.status = "skipped"
  /\ \A s \in RefutationStatuses, v \in EValues, crosses \in BOOLEAN :
       /\ EstimatedEvidence(s, v, crosses) \in Evidences
       /\ EstimatedEvidence(s, v, crosses) # None
       /\ EstimatedEvidence(s, v, crosses).status = "partial"
            => EstimatedEvidence(s, v, crosses).reasons # {}
<1>1. OracleEvidence \in Evidences /\ OracleEvidence.status = "skipped"
  BY DEF OracleEvidence, Evidences, RefutationStatuses
<1>2. ASSUME NEW s \in RefutationStatuses, NEW v \in EValues, NEW crosses \in BOOLEAN
      PROVE  /\ EstimatedEvidence(s, v, crosses) \in Evidences
             /\ EstimatedEvidence(s, v, crosses).status = "partial"
                  => EstimatedEvidence(s, v, crosses).reasons # {}
  <2>1. SensitivityReasons(s, v, crosses) \subseteq Reasons
    BY <1>2 DEF SensitivityReasons, Reasons, RefutationStatuses
  <2>2. s = "partial" => SensitivityReasons(s, v, crosses) # {}
    BY DEF SensitivityReasons
  <2>3. v \in Int \cup {None}
    BY GraphAssumption
  <2> QED BY <2>1, <2>2, <2>3 DEF EstimatedEvidence, Evidences
<1> QED BY <1>1, <1>2, GraphAssumption

LEMMA ProposedActions ==
  \A t \in ActionTypes : /\ Propose(t) \in Actions /\ Propose(t) # None
                         /\ Propose(t).type = t
<1> SUFFICES ASSUME NEW t \in ActionTypes
             PROVE  Propose(t) \in Actions /\ Propose(t).type = t
  BY GraphAssumption
<1> QED BY DEF Propose, Actions

\* Whatever an agent's fallback keeps was supported before.
LEMMA AgentsKeepInv ==
  Inv /\ (DeterministicRunner \/ CausalAnalyst \/ ChimeraFastPath \/ BayesianExplorer) => Inv'
<1> SUFFICES ASSUME Inv,
                    DeterministicRunner \/ CausalAnalyst \/ ChimeraFastPath \/ BayesianExplorer
             PROVE  Inv'
  OBVIOUS
<1>1. /\ action \in Actions \cup {None} /\ evidence \in Evidences \cup {None}
      /\ Supported(action, evidence)
  BY DEF Inv, TypeOK, Grounded, Supported
<1>2. \A t \in {"lookup", "exploration_probe", "gather_information"} :
        /\ Propose(t) \in Actions \cup {None}
        /\ Supported(Propose(t), evidence)
  BY <1>1, ProposedActions DEF Supported, ActionTypes
<1>3. /\ Propose("causal_recommendation") \in Actions \cup {None}
      /\ Propose("causal_prediction") \in Actions \cup {None}
      /\ OracleEvidence \in Evidences \cup {None}
      /\ Supported(Propose("causal_recommendation"), OracleEvidence)
      /\ Supported(Propose("causal_prediction"), OracleEvidence)
  BY ProposedActions, EvidenceShapes DEF Supported, ActionTypes
<1>4. Supported(action, OracleEvidence)
  BY EvidenceShapes DEF Supported
<1>5. ASSUME NEW n \in {"causal_analyst", "chimera_fast_path"}, Estimate(n)
      PROVE  Inv'
  <2>1. PICK s \in RefutationStatuses, v \in EValues, crosses \in BOOLEAN :
          AgentProposes(n, Propose("causal_recommendation"), EstimatedEvidence(s, v, crosses))
    BY <1>5 DEF Estimate
  <2>2. /\ EstimatedEvidence(s, v, crosses) \in Evidences \cup {None}
        /\ Supported(Propose("causal_recommendation"), EstimatedEvidence(s, v, crosses))
    BY ProposedActions, EvidenceShapes DEF Supported, ActionTypes
  <2>3. n \in Agents \ {"circuit_breaker"}
    BY DEF Agents
  <2> QED BY <1>3, <2>1, <2>2, <2>3, ProposalKeepsInv
<1>6. CASE DeterministicRunner
  BY <1>1, <1>2, <1>6, ProposalKeepsInv DEF DeterministicRunner, Agents
<1>7. CASE CausalAnalyst
  <2>1. CASE Estimate("causal_analyst")
    BY <1>5, <2>1
  <2>2. CASE OracleShortcut("causal_analyst")
    BY <1>3, <2>2, ProposalKeepsInv DEF OracleShortcut, Agents
  <2>3. CASE Fallback("causal_analyst", action, evidence)
    BY <1>1, <2>3, ProposalKeepsInv DEF Fallback, Agents
  <2> QED BY <1>7, <2>1, <2>2, <2>3 DEF CausalAnalyst
<1>8. CASE ChimeraFastPath
  <2>1. CASE \/ AgentProposes("chimera_fast_path", Propose("causal_prediction"), OracleEvidence)
             \/ Fallback("chimera_fast_path", Propose("causal_prediction"), OracleEvidence)
    BY <1>3, <2>1, ProposalKeepsInv DEF Fallback, Agents
  <2>2. CASE Estimate("chimera_fast_path")
    BY <1>5, <2>2
  <2>3. CASE Fallback("chimera_fast_path", action, evidence)
    BY <1>1, <2>3, ProposalKeepsInv DEF Fallback, Agents
  <2>4. CASE Fallback("chimera_fast_path", action, OracleEvidence)
    BY <1>1, <1>3, <1>4, <2>4, ProposalKeepsInv DEF Fallback, Agents
  <2>5. CASE OracleShortcut("chimera_fast_path")
    BY <1>3, <2>5, ProposalKeepsInv DEF OracleShortcut, Agents
  <2> QED BY <1>8, <2>1, <2>2, <2>3, <2>4, <2>5 DEF ChimeraFastPath
<1>9. CASE BayesianExplorer
  BY <1>1, <1>2, <1>9, ProposalKeepsInv DEF BayesianExplorer, Agents
<1> QED BY <1>6, <1>7, <1>8, <1>9

LEMMA CircuitBreakerKeepsInv == Inv /\ CircuitBreaker => Inv'
<1> SUFFICES ASSUME Inv, CircuitBreaker PROVE Inv'
  OBVIOUS
<1>1. /\ pc = "circuit_breaker" /\ pc' = "human_escalation" /\ steps' = steps + 1
      /\ steps' \in 0..RecursionLimit + 1 /\ query' = query /\ config' = config
      /\ action' = Propose("emergency_stop")
      /\ UNCHANGED <<classification, risk, evidence, judgement, reflections, human>>
  BY StepCounted DEF CircuitBreaker, Nodes
<1>2. /\ action' \in Actions /\ action'.type = "emergency_stop"
  BY <1>1, ProposedActions DEF ActionTypes
<1>3. TypeOK'
  BY <1>1, <1>2 DEF Inv, TypeOK, Nodes, classification, judgement, human
<1>4. Routed' /\ Grounded'
  BY <1>1, <1>2 DEF Inv, Routed, Grounded, classification, human
<1>5. Counted'
  BY <1>1 DEF Inv, TypeOK, Counted, Position, Nodes, Done, Agents
<1>6. ReflectsWithinBudget' /\ ReleasedCleanly' /\ ReleasedClaimsAreRobust'
  BY <1>1 DEF ReflectsWithinBudget, ReleasedCleanly, ReleasedClaimsAreRobust, Released
<1> QED BY <1>3, <1>4, <1>5, <1>6 DEF Inv

-----------------------------------------------------------------------------
(* The Guardian decides, and its verdict is routed *)

LEMMA GuardianNodeKeepsInv == Inv /\ GuardianNode => Inv'
<1> SUFFICES ASSUME Inv, GuardianNode PROVE Inv'
  OBVIOUS
<1>1. PICK csl \in CslAnswers, opa \in OpaAnswers :
        LET r == [domain |-> domain, confidence |-> confidence, risk |-> risk',
                  reflections |-> reflections, action |-> action, evidence |-> evidence]
            d == Evaluate(config, r, csl, opa)
        IN  /\ Run("guardian", RouteAfterGuardian(d.verdict))
            /\ verdict' = d.verdict
            /\ violations' = {v.name : v \in d.violations}
            /\ answers' = [config |-> config, csl |-> csl, opa |-> opa]
  BY DEF GuardianNode
<1> DEFINE r == [domain |-> domain, confidence |-> confidence, risk |-> risk',
                 reflections |-> reflections, action |-> action, evidence |-> evidence]
           d == Evaluate(config, r, csl, opa)
<1>2. /\ Run("guardian", RouteAfterGuardian(d.verdict)) /\ verdict' = d.verdict
      /\ violations' = {v.name : v \in d.violations} /\ answers'.opa = opa
  BY <1>1
<1>3. risk' = InjectedRisk /\ UNCHANGED <<classification, proposal, reflections, human>>
  BY DEF GuardianNode
<1>4. risk' \in {"LOW", "MEDIUM", "HIGH", "CRITICAL", None}
  BY <1>3 DEF Inv, TypeOK, InjectedRisk, DeriveRisk
<1>5. r \in Requests
  <2>1. reflections \in Nat
    BY GraphAssumption DEF Inv, TypeOK
  <2> QED BY <1>4, <2>1 DEF Inv, TypeOK, Requests
<1>6. /\ csl.kind \in {"off", "answered"} /\ opa \in {"off", "allow", "deny", "raised"}
  <2>1. csl.kind \in {"off", "answered"}
    BY DEF CslAnswers
  <2> QED BY <2>1 DEF OpaAnswers
<1> HIDE DEF r
<1>7. /\ d.verdict \in Verdicts
      /\ d.verdict = "REJECTED" => d.violations # {}
      /\ d.verdict = "APPROVED" => /\ d.violations = {} /\ PolicyViolations(config, r) = {}
                                   /\ opa \in {"off", "allow"}
  BY <1>6, EvaluateVerdict, RejectedNamesWhy, ApprovedIsClean
<1> HIDE DEF d
<1>8. /\ pc = "guardian" /\ pc' = RouteAfterGuardian(d.verdict) /\ steps' = steps + 1
      /\ steps' \in 0..RecursionLimit + 1 /\ query' = query /\ config' = config
  BY <1>2, StepCounted DEF Nodes
<1>9. /\ pc' \in {"governance", "end", "human_escalation", "reflector"}
      /\ pc' \in {"governance", "end"} => d.verdict = "APPROVED"
      /\ pc' = "reflector" => d.verdict = "REJECTED" /\ reflections < MaxReflections
  BY <1>7, <1>8, GraphAssumption DEF RouteAfterGuardian, Verdicts, Inv, TypeOK
<1>10. domain \in Autonomous /\ confidence >= RouterThreshold
  BY <1>8 DEF Inv, Routed, Autonomous
<1>11. d.verdict = "APPROVED" =>
         /\ risk' \notin {"HIGH", "CRITICAL"}
         /\ evidence # None => /\ evidence.status \notin {"skipped", "failed"}
                               /\ evidence.reasons = {}
                               /\ evidence.eValue # None /\ evidence.eValue >= MinEValue
  <2>1. r.risk = risk' /\ r.evidence = evidence
    BY DEF r
  <2> QED BY <1>5, <1>7, <2>1, CleanRequest
<1>12. TypeOK'
  BY <1>2, <1>3, <1>4, <1>7, <1>8, <1>9
     DEF Inv, TypeOK, Nodes, Done, classification, proposal, human
<1>13. Routed' /\ Grounded'
  <2>1. ~asked
    BY <1>8 DEF Inv, Routed
  <2> QED BY <1>3, <1>8, <1>9, <1>10, <2>1
             DEF Inv, Routed, Grounded, classification, proposal, human
<1>14. Counted'
  BY <1>3, <1>8, <1>9 DEF Inv, TypeOK, Counted, Position, Nodes, Done, Agents
<1>15. ReflectsWithinBudget'
  BY <1>2, <1>3, <1>7, <1>9 DEF ReflectsWithinBudget
<1>16. ReleasedCleanly'
  BY <1>2, <1>3, <1>7, <1>9, <1>10, <1>11
     DEF ReleasedCleanly, Released, Autonomous, classification
<1>17. ReleasedClaimsAreRobust'
  <2>1. ASSUME Released', action' # None,
               action'.type \in {"causal_recommendation", "causal_prediction"}
        PROVE  /\ evidence' # None /\ evidence'.status = "passed"
               /\ evidence'.eValue # None /\ evidence'.eValue >= MinEValue
    <3>1. d.verdict = "APPROVED"
      BY <1>9, <2>1 DEF Released
    <3>2. action' = action /\ evidence' = evidence
      BY <1>3 DEF proposal
    <3>3. evidence # None
      BY <2>1, <3>2 DEF Inv, Grounded
    <3>4. evidence.status \in RefutationStatuses /\ evidence.status # "partial"
      BY <1>11, <3>1, <3>3 DEF Inv, TypeOK, Grounded, Evidences
    <3> QED BY <1>11, <3>1, <3>2, <3>3, <3>4 DEF RefutationStatuses
  <2> QED BY <2>1 DEF ReleasedClaimsAreRobust
<1> QED BY <1>12, <1>13, <1>14, <1>15, <1>16, <1>17 DEF Inv

LEMMA ReflectorKeepsInv == Inv /\ Reflector => Inv'
<1> SUFFICES ASSUME Inv, Reflector PROVE Inv'
  OBVIOUS
<1>1. /\ pc = "reflector" /\ pc' = "router" /\ steps' = steps + 1
      /\ steps' \in 0..RecursionLimit + 1 /\ query' = query /\ config' = config
      /\ reflections' = reflections + 1 /\ verdict' = None
      /\ UNCHANGED <<classification, risk, evidence, violations, answers, human>>
  BY StepCounted DEF Reflector, Nodes
<1>2. reflections' \in 0..MaxReflections
  BY <1>1, GraphAssumption DEF Inv, TypeOK, ReflectsWithinBudget
<1>3. \/ action' = None
      \/ action # None /\ action' \in Actions /\ action'.type = action.type
  BY DEF Reflector, Inv, TypeOK, Actions
<1>4. action' \in Actions \cup {None}
  BY <1>3
<1>5. TypeOK'
  BY <1>1, <1>2, <1>4 DEF Inv, TypeOK, Nodes, classification, human
<1>6. Routed' /\ Grounded'
  BY <1>1, <1>3 DEF Inv, Routed, Grounded, classification, human
<1>7. Counted'
  BY <1>1 DEF Inv, TypeOK, Counted, Position, Nodes, Done, Agents
<1>8. ReflectsWithinBudget' /\ ReleasedCleanly' /\ ReleasedClaimsAreRobust'
  BY <1>1 DEF ReflectsWithinBudget, ReleasedCleanly, ReleasedClaimsAreRobust, Released
<1> QED BY <1>5, <1>6, <1>7, <1>8 DEF Inv

LEMMA GovernanceKeepsInv == Inv /\ Governance => Inv'
<1> SUFFICES ASSUME Inv, Governance PROVE Inv'
  OBVIOUS
<1>1. /\ pc = "governance" /\ pc' = "end" /\ steps' = steps + 1
      /\ steps' \in 0..RecursionLimit + 1 /\ query' = query /\ config' = config
      /\ UNCHANGED <<classification, risk, proposal, judgement, reflections, human>>
  BY StepCounted DEF Governance, Nodes
<1>2. TypeOK'
  BY <1>1 DEF Inv, TypeOK, Done, classification, proposal, judgement, human
<1>3. Routed' /\ Grounded'
  BY <1>1 DEF Inv, Routed, Grounded, classification, proposal, human
<1>4. Counted'
  BY <1>1 DEF Inv, TypeOK, Counted, Position, Nodes, Done, Agents
<1>5. ReflectsWithinBudget' /\ ReleasedCleanly' /\ ReleasedClaimsAreRobust'
  BY <1>1 DEF Inv, ReflectsWithinBudget, ReleasedCleanly, ReleasedClaimsAreRobust, Released,
              classification, proposal, judgement, human
<1> QED BY <1>2, <1>3, <1>4, <1>5 DEF Inv

\* The human layer's own answers never send a run back to the router.
LEMMA HumanEscalationKeepsInv == Inv /\ HumanEscalation => Inv'
<1> SUFFICES ASSUME Inv, HumanEscalation PROVE Inv'
  OBVIOUS
<1>1. status' \in {"IDLE", "APPROVED"}
  BY DEF HumanEscalation, StatusAfter, ResponseType
<1>2. /\ pc = "human_escalation" /\ pc' = RouteAfterHuman(status') /\ steps' = steps + 1
      /\ steps' \in 0..RecursionLimit + 1 /\ query' = query /\ config' = config
      /\ asked' = TRUE
      /\ UNCHANGED <<classification, risk, proposal, judgement, reflections>>
  BY StepCounted DEF HumanEscalation, Nodes
<1>3. pc' = "end"
  BY <1>1, <1>2 DEF RouteAfterHuman
<1>4. TypeOK'
  BY <1>1, <1>2, <1>3
     DEF Inv, TypeOK, Done, Statuses, classification, proposal, judgement
<1>5. Routed' /\ Grounded'
  BY <1>2, <1>3 DEF Inv, Routed, Grounded, classification, proposal
<1>6. Counted'
  BY <1>2, <1>3 DEF Inv, TypeOK, Counted, Nodes, Done
<1>7. ReflectsWithinBudget' /\ ReleasedCleanly' /\ ReleasedClaimsAreRobust'
  BY <1>2, <1>3 DEF ReflectsWithinBudget, ReleasedCleanly, ReleasedClaimsAreRobust, Released
<1> QED BY <1>4, <1>5, <1>6, <1>7 DEF Inv

\* Neither a new Guardian configuration nor a stutter disturbs a run.
LEMMA OthersKeepInv == Inv /\ (UpdateGuardianConfig \/ UNCHANGED vars) => Inv'
<1> SUFFICES ASSUME Inv, UpdateGuardianConfig \/ UNCHANGED vars PROVE Inv'
  OBVIOUS
<1>1. /\ UNCHANGED <<pc, query, classification, risk, proposal, judgement, reflections,
                     human, steps>>
      /\ config' \in Configs
  BY DEF UpdateGuardianConfig, vars, Inv, TypeOK
<1>2. TypeOK'
  BY <1>1 DEF Inv, TypeOK, classification, proposal, judgement, human
<1>3. Routed' /\ Grounded' /\ Counted'
  BY <1>1 DEF Inv, Routed, Grounded, Counted, classification, proposal, judgement, human
<1>4. ReflectsWithinBudget' /\ ReleasedCleanly' /\ ReleasedClaimsAreRobust'
  BY <1>1 DEF Inv, ReflectsWithinBudget, ReleasedCleanly, ReleasedClaimsAreRobust, Released,
              classification, proposal, judgement, human
<1> QED BY <1>2, <1>3, <1>4 DEF Inv

LEMMA InvNext == Inv /\ [Next]_vars => Inv'
<1> SUFFICES ASSUME Inv, [Next]_vars PROVE Inv'
  OBVIOUS
<1>1. CASE Step
  BY <1>1, RouterKeepsInv, RagContextKeepsInv, CslPrecheckKeepsInv, NodeFailsKeepsInv,
     AgentsKeepInv, CircuitBreakerKeepsInv, GuardianNodeKeepsInv, ReflectorKeepsInv,
     GovernanceKeepsInv, HumanEscalationKeepsInv DEF Step
<1>2. CASE UpdateGuardianConfig \/ UNCHANGED vars
  BY <1>2, OthersKeepInv
<1> QED BY <1>1, <1>2 DEF Next

-----------------------------------------------------------------------------
(* The guarantees of a run *)

\* Every reachable state satisfies the inductive invariant.
THEOREM InvHolds == Spec => []Inv
<1> QED BY InvInit, InvNext, PTL DEF Spec

\* The EpistemicState keeps its type, and reflection_count its bound.
THEOREM TypeCorrect == Spec => []TypeOK
<1>1. Inv => TypeOK
  BY DEF Inv
<1> QED BY <1>1, InvHolds, PTL

\* Nothing leaves the graph without a human unless the Guardian's last verdict
\* on it was a clean approval that OPA did not deny.
THEOREM ReleaseIsClean == Spec => []ReleasedCleanly
<1>1. Inv => ReleasedCleanly
  BY DEF Inv
<1> QED BY <1>1, InvHolds, PTL

\* A causal claim released without a human rests on robust evidence.
THEOREM ReleasedClaimsRobust == Spec => []ReleasedClaimsAreRobust
<1>1. Inv => ReleasedClaimsAreRobust
  BY DEF Inv
<1> QED BY <1>1, InvHolds, PTL

\* A fast-path prediction is released by a human only.
THEOREM FastPathNeedsHuman == Spec => []FastPathSeenByHuman
<1>1. Inv => FastPathSeenByHuman
  BY DEF Inv, Grounded, ReleasedClaimsAreRobust, FastPathSeenByHuman
<1> QED BY <1>1, InvHolds, PTL

\* The reflector runs only on a named rejection with a retry left.
THEOREM ReflectionBudget == Spec => []ReflectsWithinBudget
<1>1. Inv => ReflectsWithinBudget
  BY DEF Inv
<1> QED BY <1>1, InvHolds, PTL

\* LangGraph's recursion limit is never the reason a run ends, whatever the
\* retry budget, as long as it leaves six supersteps for each pass.
THEOREM NeverCutOff == Spec => []WithinRecursionLimit
<1>1. Inv => WithinRecursionLimit
  <2> SUFFICES ASSUME Inv PROVE steps <= RecursionLimit
    BY DEF WithinRecursionLimit
  <2>1. /\ reflections \in 0..MaxReflections /\ steps \in 0..RecursionLimit + 1
        /\ MaxReflections \in Nat /\ RecursionLimit \in Nat
    BY GraphAssumption DEF Inv, TypeOK
  <2>2. 6 * reflections + 6 <= RecursionLimit
    <3>1. 6 * reflections <= 6 * MaxReflections
      BY <2>1
    <3> QED BY <2>1, <3>1, GraphAssumption
  <2>3. Position(pc) \in 0..5
    BY DEF Position
  <2>4. steps <= 6 * reflections + 6
    BY <2>1, <2>3 DEF Inv, TypeOK, Counted
  <2> QED BY <2>1, <2>2, <2>4
<1> QED BY <1>1, InvHolds, PTL

-----------------------------------------------------------------------------
(* A run implements Oversight: each step is a step of the promise or a stutter *)

\* A proposal is judged only by the Guardian, and a rejection reaches the human
\* only when the retries are spent.
Judged ==
  /\ pc \in Nodes \ {"reflector", "governance", "human_escalation"} => verdict = None
  /\ pc = "human_escalation" /\ verdict = "REJECTED" => reflections = MaxReflections

\* What phase becomes of the state, and that verdict and retries are variables of
\* the run itself.
Phase ==
  IF Released THEN "released"
  ELSE IF asked THEN "asked"
  ELSE IF pc = "failed" THEN "failed"
  ELSE "working"

PhaseFollowsPc ==
  /\ Phase = "working" <=> pc \in Nodes \ {"governance"}
  /\ Phase = "failed" <=> pc = "failed"
  /\ Phase = "released" <=> pc = "governance" \/ (pc = "end" /\ ~asked)
  /\ Phase = "asked" <=> pc = "end" /\ asked

LEMMA PhaseOf == Inv => PhaseFollowsPc
<1> SUFFICES ASSUME Inv PROVE PhaseFollowsPc
  OBVIOUS
<1>1. pc \in Nodes \cup Done /\ (asked => pc = "end")
  BY DEF Inv, TypeOK, Routed
<1> QED BY <1>1 DEF PhaseFollowsPc, Phase, Released, Nodes, Done

LEMMA JudgedInit == Init => Judged
BY DEF Init, Judged, Nodes

\* Every step keeps Judged and maps to a step of the promise.
LEMMA StepKeepsPromise ==
  Inv /\ Inv' /\ Judged /\ [Next]_vars => Judged' /\ [Promise!Next]_(Promise!vars)
<1> SUFFICES ASSUME Inv, Inv', Judged, [Next]_vars
             PROVE  Judged' /\ [Promise!Next]_(Promise!vars)
  OBVIOUS
<1>1. PhaseFollowsPc
  BY PhaseOf
<1>2. PhaseFollowsPc'
  BY PhaseOf, PTL
<1> DEFINE Quiet == pc' \in Nodes \ {"governance"} /\ UNCHANGED <<verdict, reflections>>
<1>3. ASSUME pc \in Nodes \ {"governance"}, Quiet
      PROVE  UNCHANGED Promise!vars
  BY <1>1, <1>2, <1>3 DEF PhaseFollowsPc, Promise!vars, Phase
<1>4. CASE \/ Router \/ RagContext \/ DeterministicRunner \/ CausalAnalyst
           \/ ChimeraFastPath \/ BayesianExplorer \/ CslPrecheck \/ CircuitBreaker
  <2>1. /\ pc \in Nodes \ {"reflector", "governance", "guardian", "human_escalation"}
        /\ UNCHANGED <<verdict, reflections>>
        /\ pc' \in Nodes \ {"governance", "reflector"}
    BY <1>4 DEF Router, RagContext, CslPrecheck, DeterministicRunner, CausalAnalyst,
       ChimeraFastPath, BayesianExplorer, CircuitBreaker, Estimate, OracleShortcut, Fallback,
       AgentProposes,
       Run, RouteByDomain, Nodes, judgement, Inv, TypeOK, Domains
  <2>2. Judged'
    BY <2>1, GraphAssumption DEF Judged, Verdicts
  <2> QED BY <1>3, <2>1, <2>2
<1>5. CASE NodeFails
  <2>1. /\ pc \in Nodes \ {"governance", "reflector", "human_escalation"} /\ pc' = "failed"
        /\ UNCHANGED <<verdict, reflections>>
    BY <1>5 DEF NodeFails, Consults, Run, judgement, Nodes
  <2>2. verdict = None /\ Phase = "working" /\ Phase' = "failed"
    BY <1>1, <1>2, <2>1 DEF Judged, PhaseFollowsPc
  <2>3. Promise!Fail
    BY <2>1, <2>2 DEF Promise!Fail, Promise!Working, Phase
  <2>4. Judged'
    BY <2>1 DEF Judged, Nodes
  <2> QED BY <2>3, <2>4 DEF Promise!Next
<1>6. CASE GuardianNode
  <2>1. PICK d : /\ Run("guardian", RouteAfterGuardian(d.verdict))
                 /\ verdict' = d.verdict /\ UNCHANGED reflections
    BY <1>6 DEF GuardianNode
  <2>2. pc = "guardian" /\ pc' = RouteAfterGuardian(verdict') /\ verdict' \in Verdicts \cup {None}
    BY <2>1 DEF Run, Inv, TypeOK
  <2>3. verdict = None /\ Phase = "working"
    BY <1>1, <2>2 DEF Judged, PhaseFollowsPc, Nodes
  <2>4. verdict' # None
    <3>1. PICK csl \in CslAnswers, opa \in OpaAnswers :
             \E r : verdict' = Evaluate(config, r, csl, opa).verdict
      BY <1>6 DEF GuardianNode
    <3>2. opa \in {"off", "allow", "deny", "raised"}
      BY <3>1 DEF OpaAnswers
    <3> QED BY <3>1, <3>2, EvaluateVerdict, GraphAssumption
  <2>5. CASE verdict' = "APPROVED"
    <3>1. pc' \in {"governance", "end"}
      BY <2>2, <2>5 DEF RouteAfterGuardian
    <3>2. Phase' = "released"
      <4>1. ~asked'
        BY <1>6, <2>2 DEF GuardianNode, human, Inv, Routed
      <4> QED BY <1>2, <3>1, <4>1 DEF PhaseFollowsPc
    <3>3. Promise!Release
      BY <2>1, <2>3, <2>5, <3>2 DEF Promise!Release, Promise!Working, Phase
    <3>4. Judged'
      BY <2>5, <3>1 DEF Judged, Nodes
    <3> QED BY <3>3, <3>4 DEF Promise!Next
  <2>6. CASE verdict' \in {"REJECTED", "REQUIRES_ESCALATION"}
    <3>1. /\ pc' \in {"reflector", "human_escalation"}
          /\ pc' = "human_escalation" /\ verdict' = "REJECTED" => reflections >= MaxReflections
      BY <2>2, <2>6 DEF RouteAfterGuardian
    <3>2. Phase' = "working"
      BY <1>2, <3>1 DEF PhaseFollowsPc, Nodes
    <3>3. Promise!Object
      BY <2>1, <2>3, <2>6, <3>2 DEF Promise!Object, Promise!Working, Phase
    <3>4. Judged'
      BY <2>1, <3>1, GraphAssumption DEF Judged, Nodes, Inv, TypeOK
    <3> QED BY <3>3, <3>4 DEF Promise!Next
  <2> QED BY <2>2, <2>4, <2>5, <2>6 DEF Verdicts
<1>7. CASE Reflector
  <2>1. /\ pc = "reflector" /\ pc' = "router" /\ verdict' = None
        /\ reflections' = reflections + 1
    BY <1>7 DEF Reflector, Run
  <2>2. verdict = "REJECTED" /\ reflections < MaxReflections
    BY <2>1 DEF Inv, ReflectsWithinBudget
  <2>3. Phase = "working" /\ Phase' = "working"
    BY <1>1, <1>2, <2>1 DEF PhaseFollowsPc, Nodes
  <2>4. Promise!Retry
    BY <2>1, <2>2, <2>3 DEF Promise!Retry, Promise!Working, Phase
  <2>5. Judged'
    BY <2>1 DEF Judged, Nodes
  <2> QED BY <2>4, <2>5 DEF Promise!Next
<1>8. CASE Governance
  <2>1. /\ pc = "governance" /\ pc' = "end" /\ UNCHANGED <<verdict, reflections, asked>>
    BY <1>8 DEF Governance, Run, judgement, human
  <2>2. Phase = "released" /\ Phase' = "released"
    BY <1>1, <1>2, <2>1 DEF PhaseFollowsPc, Inv, Routed
  <2>3. Judged'
    BY <2>1 DEF Judged, Nodes
  <2> QED BY <2>1, <2>2, <2>3 DEF Promise!vars, Phase
<1>9. CASE HumanEscalation
  <2>1. /\ pc = "human_escalation" /\ pc' = "end" /\ asked' = TRUE
        /\ UNCHANGED <<verdict, reflections>>
    BY <1>9 DEF HumanEscalation, Run, judgement, RouteAfterHuman, StatusAfter, ResponseType
  <2>2. Phase = "working" /\ Phase' = "asked"
    BY <1>1, <1>2, <2>1 DEF PhaseFollowsPc, Nodes
  <2>3. Promise!AskHuman
    BY <2>1, <2>2 DEF Promise!AskHuman, Promise!Working, Phase, Judged
  <2>4. Judged'
    BY <2>1 DEF Judged, Nodes
  <2> QED BY <2>3, <2>4 DEF Promise!Next
<1>10. CASE UpdateGuardianConfig \/ UNCHANGED vars
  <2>1. UNCHANGED <<pc, verdict, reflections, asked>>
    BY <1>10 DEF UpdateGuardianConfig, vars, judgement, human
  <2>2. Judged'
    BY <2>1 DEF Judged
  <2>3. Phase' = Phase
    BY <2>1 DEF Phase, Released
  <2> QED BY <2>1, <2>2, <2>3 DEF Promise!vars, Phase
<1> QED
  BY <1>4, <1>5, <1>6, <1>7, <1>8, <1>9, <1>10 DEF Next, Step

\* Up to fairness, a run is a behaviour of Oversight: it releases only on a clean
\* verdict, retries at most MaxReflections times and otherwise asks a human.
THEOREM RunKeepsPromise ==
  Spec => Promise!Init /\ [][Promise!Next]_(Promise!vars)
<1>1. Init => Promise!Init
  BY DEF Init, Promise!Init, Released
<1>2. Spec => [](Inv /\ Judged)
  <2>1. Inv /\ Inv' /\ Judged /\ [Next]_vars => Judged'
    BY StepKeepsPromise
  <2> QED BY <2>1, InvHolds, JudgedInit, PTL DEF Spec
<1>3. Inv /\ Inv' /\ Judged /\ [Next]_vars => [Promise!Next]_(Promise!vars)
  BY StepKeepsPromise
<1> QED BY <1>1, <1>2, <1>3, PTL DEF Spec
=============================================================================
