------------------------------- MODULE Reports -------------------------------
(***************************************************************************)
(* What the API says of a finished analysis, of data, of a deployment's    *)
(* compliance and of a planned workflow: functions of one request, each    *)
(* with thresholds of its own, written apart from each other               *)
(* (src/src/services/transparency.py, insights_service.py,                 *)
(* src/src/api/routers/transparency.py and query.py).                      *)
(*                                                                         *)
(* The cockpit sends one analysis to several of them.  A behaviour is a    *)
(* series of requests of one kind, each of which differs from the one      *)
(* before in one field.  Wordings are named by what they say, lists whose  *)
(* order nobody reads are sets; what may be missing is a set of at most    *)
(* one element.                                                            *)
(***************************************************************************)
EXTENDS Integers, Sequences, FiniteSets

CONSTANTS
  Kinds,    \* kinds of requests, of those that Fields names
  Values   \* for each field of a request the values it may have

VARIABLES kind, request
reportVars == <<kind, request>>

\* Of an analysis: percentages; finding is a causal result with the tests it passed
\* of those that were run, pvalue the significance of its effect; probe is whether the
\* Bayesian evidence, if there is any, recommends one, and exhausted whether the run
\* has used up its reflections.
Fields(k) ==
  CASE k = "analysis" -> {"domain", "confidence", "finding", "pvalue", "epistemic", "probe",
                          "verdict", "violations", "exhausted"}
    [] k = "reliability" -> {"confidence", "entropy", "time", "finding", "sample", "data"}
    [] k = "compliance" -> {"explained", "audited", "overseen", "governance"}
    [] k = "workflow" -> {"tabular", "models", "validated", "reviewed", "sample", "domain"}

Init ==
  /\ kind \in Kinds
  /\ request =
       [domain |-> "Complicated", confidence |-> 75, entropy |-> 20, time |-> 300,
        finding |-> {}, pvalue |-> {}, epistemic |-> {}, probe |-> FALSE,
        verdict |-> "approved", violations |-> {}, exhausted |-> FALSE,
        sample |-> {}, data |-> {}, explained |-> FALSE, audited |-> FALSE, overseen |-> FALSE,
        governance |-> 50, tabular |-> FALSE, models |-> {}, validated |-> FALSE, reviewed |-> FALSE]

-----------------------------------------------------------------------------
(* Scores, in 3600ths *)

Whole == 3600
Percent(p) == 36 * p
AtMost(x, y) == IF x < y THEN x ELSE y

\* A chain of levels, each above a bound: 0 is the lowest.
Level(score, bounds) == Cardinality({b \in bounds : score > Percent(b)})

Sample(n) == AtMost(Whole, (Whole * n) \div 500)

\* assess_data_quality, of a table in which so many in a hundred values are
\* missing and rows repeated.
DataScore(d) == (Percent(100 - d.missing) + Percent(100 - d.duplicates) + Sample(d.rows)) \div 3
DataQuality(d) ==
  [level |-> Level(DataScore(d), {50, 70, 85, 95}),
   completeness |-> Level(Percent(100 - d.missing), {85, 95, 98}),
   uniqueness |-> Cardinality({b \in {1, 5, 10} : d.duplicates < b}),
   size |-> Cardinality({b \in {100, 500, 1000} : d.rows >= b}),
   advice |-> (IF d.missing > 5 THEN {"impute"} ELSE {})
                \cup (IF d.duplicates > 5 THEN {"deduplicate"} ELSE {})
                \cup (IF d.rows < 500 THEN {"collect"} ELSE {})]

\* assess_reliability: what is unknown counts half, and a sample of 0 is unknown.
Known(scores) == IF scores = {} THEN Percent(50) ELSE CHOOSE score \in scores : TRUE
Factors(a) ==
  [confidence |-> Percent(a.confidence),
   data |-> Known({DataScore(d) : d \in a.data}),
   tests |-> Known({(Whole * f.passed) \div f.run : f \in a.finding}),
   sample |-> Known({Sample(n) : n \in {m \in a.sample : m > 0}})]
Reliability(a) ==
  LET f == Factors(a)
      score == (30 * f.confidence + 25 * f.data + 25 * f.tests + 20 * f.sample) \div 100
  IN  [level |-> Level(score, {50, 65, 80, 90}),
       strengths |-> {x \in DOMAIN f : f[x] > Percent(80)},
       weaknesses |-> {x \in DOMAIN f : f[x] < Percent(70)}]

\* assess_eu_ai_act_compliance: three articles are met or partly met.
Compliance(r) ==
  LET data == Level(Percent(r.governance), {60, 85})
      met == (IF r.explained THEN {"art13"} ELSE {}) \cup (IF r.audited THEN {"art12"} ELSE {})
               \cup (IF r.overseen THEN {"art14"} ELSE {}) \cup (IF data = 2 THEN {"art10"} ELSE {})
  IN  [status |-> Level(Percent(25 * Cardinality(met)), {60, 90}),
       open |-> {"art10", "art12", "art13", "art14"} \ met]

\* evaluate_workflow: Bayesian models have the last word.
Suitability(w) ==
  IF "bayesian" \in w.models THEN IF w.domain = "Complex" THEN 90 ELSE 70
  ELSE IF "causal" \in w.models THEN IF w.domain = "Complicated" THEN 90 ELSE 70
  ELSE 80
Workflow(w) ==
  LET data == (IF w.tabular THEN 90 ELSE 70) + (IF \E n \in w.sample : n > 500 THEN 10 ELSE 0)
      rigor == IF w.validated THEN 90 ELSE 50
      oversight == IF w.reviewed THEN 95 ELSE 60
      feasibility == Percent(data + Suitability(w) + rigor + oversight) \div 4
      reliability == (Percent(data) * 4 + Percent(Suitability(w) + rigor) * 3) \div 10
  IN  [overall |-> (feasibility + reliability + Percent(85)) \div 3,
       alignment |-> Percent(85 + oversight + rigor) \div 3,
       gaps |-> (IF w.reviewed THEN {} ELSE {"art14"}) \cup (IF w.validated THEN {} ELSE {"art10"})]

-----------------------------------------------------------------------------
(* Insights *)

When(cond, what) == IF cond THEN {what} ELSE {}
Insight(type, priority, title) == [type |-> type, priority |-> priority, title |-> title]

Size(n) == IF n < 0 THEN -n ELSE n
Rate(f, p) == 100 * f.passed >= p * f.run

\* A confidence or a sample of 0 is taken for none.
AnalystInsights(a) ==
  When(a.confidence # 0 /\ a.confidence < 70, Insight("warning", "high", "low confidence"))
  \cup When(a.entropy > 50, Insight("warning", "medium", "several domains"))
  \cup When(\E f \in a.finding : ~Rate(f, 80), Insight("warning", "high", "tests failed"))
  \cup When(\E f \in a.finding : Rate(f, 80) /\ Size(f.effect) > 10,
            Insight("validation", "medium", "strong effect"))
  \cup When(\E u \in a.epistemic : u > 30, Insight("opportunity", "medium", "reducible"))
  \cup When(\E n \in a.sample : n # 0 /\ n < 500, Insight("improvement", "medium", "small sample"))

DeveloperInsights(a) ==
  When(a.time > 5000, Insight("warning", "medium", "slow"))
  \cup When(a.time # 0 /\ a.time < 500, Insight("validation", "low", "fast"))
  \cup {Insight("explanation", "low", "routed")}
  \cup {[i EXCEPT !.priority = "low"] : i \in AnalystInsights(a)}

\* The endpoint of queries counts one policy, passed if no violation is on record.
ExecutiveInsights(a) ==
  When(a.confidence >= 85, Insight("validation", "high", "can support decisions"))
  \cup When(a.confidence # 0 /\ a.confidence < 60, Insight("warning", "high", "exercise caution"))
  \cup When(a.violations = {}, Insight("validation", "high", "all policies passed"))
  \cup When(a.violations # {}, Insight("warning", "high", "policy violation"))
  \cup When(\E f \in a.finding : f.effect # 0, Insight("recommendation", "high", "effect"))

\* generate_insights
Insights(a, persona) ==
  CASE persona = "developer" -> DeveloperInsights(a)
    [] persona = "executive" -> ExecutiveInsights(a)
    [] OTHER -> AnalystInsights(a)

ActionItems(a, persona) ==
  When(\E f \in a.finding : ~Rate(f, 80), "run sensitivity analysis")
  \cup When(\E n \in a.sample : n < 500, "upload more data")
  \cup When(a.time > 5000, "train the oracle")
  \cup When(\E u \in a.epistemic : u > 30, "design a probe")
  \cup When(persona = "analyst" /\ a.finding # {}, "review confounders")
  \cup When(persona = "developer", "check caches")
  \cup When(persona = "developer" /\ a.time > 3000, "monitor")
  \cup When(persona = "executive" /\ \E f \in a.finding : f.effect # 0, "review impact")
  \cup When(persona = "executive" /\ a.confidence >= 85, "approve pilot")

-----------------------------------------------------------------------------
(* The executive summary, and what comes with the answer to a query *)

\* A mutant of RecommendedAction: the tests are asked before the confidence.
ActionTestsFirst(a) ==
  IF a.verdict = "rejected" THEN "do not proceed"
  ELSE IF \E f \in a.finding : ~Rate(f, 50) THEN "validate"
  ELSE IF a.confidence < 50 THEN "gather data"
  ELSE IF a.domain = "Chaotic" THEN "stabilize"
  ELSE IF a.domain = "Complex" THEN "experiment"
  ELSE IF a.confidence >= 85 /\ \A f \in a.finding : Rate(f, 75) THEN "proceed"
  ELSE "proceed with caution"

\* _derive_recommended_action: the first of these that applies.
RecommendedAction(a) ==
  IF a.verdict = "rejected" THEN "do not proceed"
  ELSE IF a.confidence < 50 THEN "gather data"
  ELSE IF \E f \in a.finding : ~Rate(f, 50) THEN "validate"
  ELSE IF a.domain = "Chaotic" THEN "stabilize"
  ELSE IF a.domain = "Complex" THEN "experiment"
  ELSE IF a.confidence >= 85 /\ \A f \in a.finding : Rate(f, 75) THEN "proceed"
  ELSE "proceed with caution"

\* _derive_risk_assessment: with no risk listed it says that all checks passed
\* and the confidence, at which it does not look, is adequate.
Risks(a) ==
  When(a.verdict = "rejected", "policy")
  \cup When(\E f \in a.finding : ~Rate(f, 50), "failed checks")
  \cup When(\E f \in a.finding : Rate(f, 50) /\ ~Rate(f, 75), "some failed checks")
  \cup When(\E u \in a.epistemic : u > 70, "high uncertainty")
  \cup When(\E u \in a.epistemic : u > 50 /\ u <= 70, "uncertainty")
  \cup When(a.domain = "Chaotic", "volatile")
  \cup When(a.domain = "Disorder", "ambiguous")

\* generate_executive_summary.  The finding's significance is by levels: 0 is "weak",
\* 1 "marginal".
Summary(a) ==
  [confidence |-> Cardinality({b \in {50, 70, 85} : a.confidence >= b}),
   action |-> RecommendedAction(a), risks |-> Risks(a),
   finding |-> {[effect |-> IF f.effect > 0 THEN "increases" ELSE "decreases",
                 significance |-> {Cardinality({b \in {1, 5, 10} : p < b}) : p \in a.pvalue}] :
                  f \in a.finding}]

\* _extract_insights_and_steps, of a run's last state.
KeyInsights(a) ==
  {"classified"}
  \cup {IF f.effect > 0 THEN "increases" ELSE "decreases" : f \in a.finding}
  \cup When(\E f \in a.finding : f.passed = f.run, "robust")
  \cup When(\E f \in a.finding : f.passed # f.run, "interpret with caution")
  \cup When(a.finding # {} /\ \E p \in a.pvalue : p < 5, "significant")
  \cup When(a.epistemic # {}, "uncertainty reduced")
  \cup When(a.violations # {}, "violations detected")
  \cup When(a.violations = {} /\ a.verdict = "approved", "all policies passed")
Steps(a) ==
  When(a.finding # {} /\ \E p \in a.pvalue : p >= 5, "gather more data")
  \cup When(\E u \in a.epistemic : u > 50, "collect evidence")
  \cup When(a.epistemic # {} /\ a.probe, "recommended probe")
  \cup When(a.violations # {}, "address violations")
  \cup {CASE a.domain = "Clear" -> "safe to automate"
          [] a.domain = "Complicated" -> "consider expert validation"
          [] a.domain = "Complex" -> "design probes"
          [] a.domain = "Chaotic" -> "stabilize"
          [] a.domain = "Disorder" -> "gather context"}
  \cup When(\/ a.domain \in {"Chaotic", "Disorder"} \/ a.verdict = "requires_escalation"
            \/ a.exhausted \/ a.confidence < 85, "human review")

\* get_guardian_transparency
GuardianReport(a) ==
  [override |-> a.violations # {},
   risks |-> [c \in {"financial", "operational", "confidence"} |-> c \in a.violations]]

-----------------------------------------------------------------------------

\* A request that differs from the last one in one field.  The Guardian approves
\* nothing with violations.
Request ==
  /\ \E field \in Fields(kind) : \E value \in Values[field] :
       request' = [request EXCEPT ![field] = value]
  /\ request'.verdict = "approved" => request'.violations = {}
  /\ UNCHANGED kind

Next == Request

ReportSpec == Init /\ [][Next]_reportVars

-----------------------------------------------------------------------------

Personas == {"analyst", "developer", "executive"}
Warnings(a) ==
  {i \in UNION {Insights(a, p) : p \in Personas} : i.type = "warning" /\ i.priority = "high"}

\* What any report on an analysis says against acting on it.
Reservations(a) ==
  ({i.title : i \in Warnings(a) \cup AnalystInsights(a)} \ {"strong effect"})
  \cup Risks(a)
  \cup When(\E f \in Summary(a).finding : 0 \in f.significance, "weak significance")
  \cup (KeyInsights(a) \cap {"interpret with caution", "violations detected"})
  \cup (Steps(a) \ {"safe to automate", "consider expert validation", "recommended probe"})
  \cup (ActionItems(a, "analyst") \cap {"run sensitivity analysis", "upload more data", "design a probe"})
  \cup When(Reliability(a).level < 2, "low reliability")
  \cup When(GuardianReport(a).override, "override")

\* Those to which the recommended action is blind: it looks at the verdict, the
\* confidence, the domain and the rate of tests passed, below three quarters of it.
Overlooked(a) ==
  (IF \E p \in a.pvalue : p >= 5 THEN {"gather more data"} ELSE {})
  \cup (IF \E p \in a.pvalue : p >= 10 THEN {"weak significance"} ELSE {})
  \cup (IF \E f \in a.finding : f.passed # f.run THEN {"interpret with caution"} ELSE {})
  \cup (IF \E f \in a.finding : Rate(f, 75) /\ ~Rate(f, 80)
        THEN {"tests failed", "run sensitivity analysis"} ELSE {})
  \cup (IF a.entropy > 50 THEN {"several domains"} ELSE {})
  \cup (IF \E u \in a.epistemic : u > 30 THEN {"reducible", "design a probe"} ELSE {})
  \cup (IF \E u \in a.epistemic : u > 50 /\ u <= 70 THEN {"collect evidence", "uncertainty"} ELSE {})
  \cup (IF \E u \in a.epistemic : u > 70 THEN {"collect evidence", "high uncertainty"} ELSE {})
  \cup (IF \E n \in a.sample : n < 500 THEN {"small sample", "upload more data"} ELSE {})
  \cup (IF Reliability(a).weaknesses \ {"confidence"} # {} THEN {"low reliability"} ELSE {})
  \cup (IF a.exhausted THEN {"human review"} ELSE {})
  \cup (IF a.domain = "Disorder" THEN {"ambiguous", "gather context", "human review"} ELSE {})
  \cup (IF a.verdict = "requires_escalation" THEN {"human review"} ELSE {})
  \cup (IF a.verdict = "requires_escalation" /\ a.violations # {}
        THEN {"policy violation", "violations detected", "address violations", "override"} ELSE {})

\* When the summary says that the evidence supports proceeding, it calls the
\* confidence high, the executive's insights and actions agree, and no report has a
\* reservation but those overlooked: in particular none warns of the confidence, of a
\* rejection, of a quarter of the tests having failed or of a volatile or complex
\* domain.  The reservations it does not see are stated beside it, by other reports or
\* by the summary's own finding ("statistical significance is weak").
ProceedIsUnopposed ==
  Summary(request).action = "proceed" =>
    /\ Summary(request).confidence = 3
    /\ Insight("validation", "high", "can support decisions") \in Insights(request, "executive")
    /\ "approve pilot" \in ActionItems(request, "executive")
    /\ Reservations(request) \subseteq Overlooked(request)

\* One request is better evidenced than another: more of what is known and good,
\* less of what is known and bad.
More(x, y) == x >= y /\ (y > 0 \/ x = y)
Flags == {"explained", "audited", "overseen", "tabular", "validated", "reviewed"}
Better(p, q) ==
  /\ p.domain = q.domain /\ p.models = q.models
  /\ More(p.confidence, q.confidence)
  /\ p.entropy <= q.entropy /\ p.time = q.time /\ p.probe = q.probe /\ (p.exhausted => q.exhausted)
  /\ \A field \in {"finding", "pvalue", "epistemic", "sample", "data"} : p[field] = {} <=> q[field] = {}
  /\ \A m \in p.sample, n \in q.sample : More(m, n)
  /\ \A f \in p.finding, g \in q.finding :
       f.effect = g.effect /\ f.run = g.run /\ f.passed >= g.passed
  /\ \A field \in {"pvalue", "epistemic"} : \A u \in p[field], v \in q[field] : u <= v
  /\ \A d \in p.data, e \in q.data :
       d.missing <= e.missing /\ d.duplicates <= e.duplicates /\ d.rows >= e.rows
  /\ p.verdict # q.verdict => p.verdict = "approved" /\ q.verdict = "rejected"
  /\ p.violations \subseteq q.violations
  /\ p.governance >= q.governance
  /\ \A flag \in Flags : q[flag] => p[flag]

\* Actions, the least bold first.
Actions ==
  <<"do not proceed", "gather data", "validate", "stabilize", "experiment",
    "proceed with caution", "proceed">>
Boldness(action) == CHOOSE i \in DOMAIN Actions : Actions[i] = action

\* Better evidence never makes a report worse, across the thresholds and orders
\* of precedence of all of them.
BetterEvidenceHelps ==
  [][request' # request /\ Better(request', request) =>
       /\ Boldness(RecommendedAction(request')) >= Boldness(RecommendedAction(request))
       /\ Cardinality(Risks(request')) <= Cardinality(Risks(request))
       /\ Warnings(request') \subseteq Warnings(request)
       /\ Steps(request') \subseteq Steps(request)
       /\ "interpret with caution" \in KeyInsights(request') => "interpret with caution" \in KeyInsights(request)
       /\ Reliability(request').level >= Reliability(request).level
       /\ Reliability(request').weaknesses \subseteq Reliability(request).weaknesses
       /\ \A d \in request'.data, e \in request.data :
            /\ DataQuality(d).level >= DataQuality(e).level
            /\ DataQuality(d).advice \subseteq DataQuality(e).advice
       /\ Compliance(request').status >= Compliance(request).status
       /\ Workflow(request').overall >= Workflow(request).overall
       /\ Workflow(request').alignment >= Workflow(request).alignment]_reportVars
=============================================================================
