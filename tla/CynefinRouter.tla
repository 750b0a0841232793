----------------------------- MODULE CynefinRouter -----------------------------
(***************************************************************************)
(* One classification by the Cynefin router (src/src/workflows/router.py)  *)
(* while its configuration is replaced (src/src/api/routers/               *)
(* router_config.py).  An update makes a new router; a request keeps the   *)
(* one it started with, also across the wait for the model.  CarfGraph     *)
(* uses what a classification may answer; here is where its hints come     *)
(* from and how much each of them weighs.                                  *)
(*                                                                         *)
(* Confidences and similarities are in percent, domain scores in quarters  *)
(* of a percent, so all are exact.  The entropy and the hint from the      *)
(* wording are only reported, and the other thresholds are never read.     *)
(***************************************************************************)
EXTENDS Integers, SequencesExt, FiniteSetsExt

CONSTANTS
  Thresholds,  \* the values of confidence_threshold a client sets
  Levels,      \* the confidences of the model
  MaxUpdates   \* bounds the updates of a behaviour

VARIABLES
  router,   \* the singleton: its threshold, whether it uses data hints, its mode
  updates,  \* how often it was replaced
  request,  \* what the waiting classification holds
  outcome   \* what it put into the state, and what it was told
routerVars == <<router, updates, request, outcome>>

Domains == {"Clear", "Complicated", "Complex", "Chaotic", "Disorder"}
None == "none"

\* DATA_STRUCTURE_HINTS, in the order the code walks it.
DataDomains == <<"Complicated", "Complex", "Clear", "Chaotic">>

\* _detect_data_hints: a complete causal configuration, then a Bayesian one, then
\* the columns.  matches says how many patterns of each domain occur in them; the
\* second one found in the walk decides, be the first of another domain.
DataHint(causal, bayesian, matches) ==
  LET upTo(i) == FoldLeft(LAMBDA n, d : n + matches[d], 0, SubSeq(DataDomains, 1, i))
      enough == {i \in 1..Len(DataDomains) : upTo(i) >= 2}
  IN  IF causal THEN "Complicated"
      ELSE IF bayesian THEN "Complex"
      ELSE IF enough = {} THEN None
      ELSE DataDomains[Min(enough)]

\* classify, step 1b: similar queries of the past vote with their similarities.
MemoryHint(similar) ==
  LET near == SelectSeq(similar, LAMBDA q : q.similarity > 30)
      votes(d) == FoldLeft(LAMBDA n, q : IF q.domain = d THEN n + q.similarity ELSE n, 0, near)
      top == {i \in DOMAIN near : \A j \in DOMAIN near :
                votes(near[j].domain) <= votes(near[i].domain)}
  IN  IF near # <<>> /\ votes(near[Min(top)].domain) > 50 THEN near[Min(top)].domain ELSE None

\* A mutant of DomainHint: what the data suggest replaces what the scenario says.
DataFirst(expert, data, useData) ==
  IF useData /\ data # None THEN data ELSE expert

\* classify, steps 2 and 2b: data count only where the scenario gives no hint, not
\* even one that names no domain.
DomainHint(expert, data, useData) ==
  IF expert = None /\ useData THEN data ELSE expert

-----------------------------------------------------------------------------
\* _apply_causal_language_boost, on a query with causal language
Boosted(causalLanguage, c) ==
  IF causalLanguage /\ c.domain = "Complex"
  THEN [domain |-> "Complicated", confidence |-> Max({c.confidence, 85})]
  ELSE c

\* Step 4: an unknown domain is passed over, an agreeing one changes nothing.
Hinted(hint, c) ==
  IF hint \in Domains /\ hint # c.domain
  THEN [domain |-> hint, confidence |-> Max({c.confidence, 88})]
  ELSE c

\* Step 5
Decided(threshold, c) ==
  IF c.confidence < threshold THEN [c EXCEPT !.domain = "Disorder"] ELSE c

\* The domain scores, and step 6b
Scores(c, memory) ==
  LET others == 100 - c.confidence  \* divided by the four other domains
      own(d) == IF d = c.domain THEN 4 * c.confidence ELSE others
  IN  [d \in Domains |-> IF d = memory THEN Min({400, own(d) + 12}) ELSE own(d)]

\* What classify makes of the model's answer a.
Classified(r, a) ==
  LET c == Decided(r.threshold, Hinted(r.hint, Boosted(r.causalLanguage, a)))
  IN  [domain |-> c.domain, confidence |-> c.confidence, scores |-> Scores(c, r.memory),
       expert |-> r.expert, said |-> a.domain, threshold |-> r.threshold]

-----------------------------------------------------------------------------
NoRequest == [hint |-> None]
NoOutcome == [domain |-> None]

Modes == {"llm", "distilbert"}  \* the latter where its model can be loaded

\* RouterConfig: of its fields, those that a classification reads.
DefaultConfig(mode) == [mode |-> mode, threshold |-> 70, useData |-> TRUE]

Init ==
  /\ router \in {DefaultConfig(mode) : mode \in Modes}
  /\ updates = 0
  /\ request = NoRequest /\ outcome = NoOutcome

Replace(new) ==
  /\ updates < MaxUpdates /\ outcome = NoOutcome
  /\ router' = new
  /\ updates' = updates + 1
  /\ UNCHANGED <<request, outcome>>

\* PUT: a configuration as a whole.
UpdateConfiguration(threshold, useData, mode) ==
  Replace([threshold |-> threshold, useData |-> useData, mode |-> mode])

\* PATCH: the thresholds given, over the current configuration.
PatchThresholds(threshold, mode) ==
  Replace([router EXCEPT !.threshold = threshold, !.mode = mode])

\* The LLM may answer anything its schema accepts, what does not parse counts as
\* Disorder without confidence; a softmax is never below a fifth.
Answers(mode) ==
  IF mode = "llm"
  THEN [domain : Domains, confidence : Levels]
         \cup {[domain |-> "Disorder", confidence |-> 0]}
  ELSE [domain : Domains, confidence : {l \in Levels : l >= 20}]

\* classify up to the model's answer.  The local model answers without a pause.
Classify(expert, data, memory, causalLanguage) ==
  LET r == [hint |-> DomainHint(expert, data, router.useData), expert |-> expert,
            memory |-> memory, causalLanguage |-> causalLanguage,
            threshold |-> router.threshold]
  IN  /\ request = NoRequest /\ outcome = NoOutcome
      /\ \/ router.mode = "llm" /\ request' = r /\ UNCHANGED outcome
         \/ /\ router.mode = "distilbert"
            /\ \E a \in Answers("distilbert") : outcome' = Classified(r, a)
            /\ UNCHANGED request
      /\ UNCHANGED <<router, updates>>

\* The LLM answers, at the first, second or third attempt.
Answer ==
  /\ request # NoRequest
  /\ \E a \in Answers("llm") : outcome' = Classified(request, a)
  /\ request' = NoRequest
  /\ UNCHANGED <<router, updates>>

\* All three attempts raise: the node fails, and the state is as before.
GiveUp ==
  /\ request # NoRequest
  /\ request' = NoRequest
  /\ UNCHANGED <<router, updates, outcome>>

\* Small sets of inputs: a hint from a scenario may name no domain.
Experts == {None, "Chaotic", "Complicated", "unknown"}
DataHints ==
  {DataHint(causal, bayesian, matches) :
     causal \in BOOLEAN, bayesian \in BOOLEAN, matches \in [ToSet(DataDomains) -> 0..2]}
MemoryHints ==
  {MemoryHint(similar) : similar \in
     BoundedSeq([domain : {"Clear", "Complex", "Disorder"}, similarity : {30, 40, 60}], 2)}

Next ==
  \/ \E threshold \in Thresholds, useData \in BOOLEAN, mode \in Modes :
       UpdateConfiguration(threshold, useData, mode)
  \/ \E threshold \in Thresholds, mode \in Modes : PatchThresholds(threshold, mode)
  \/ \E expert \in Experts, data \in DataHints, memory \in MemoryHints,
        causalLanguage \in BOOLEAN : Classify(expert, data, memory, causalLanguage)
  \/ Answer
  \/ GiveUp

Spec == Init /\ [][Next]_routerVars

-----------------------------------------------------------------------------
\* A scenario's hint, "explicit configuration from domain experts", decides the
\* domain whatever the model, the data, the memory and an update of the router say,
\* unless the threshold at the start was above what a hint is worth: only a model
\* that agrees, and is unsure, takes the request to Disorder.
ExpertsPrevail ==
  outcome # NoOutcome /\ outcome.expert \in Domains /\ outcome.threshold <= 85 =>
    \/ outcome.domain = outcome.expert
    \/ outcome.domain = "Disorder" /\ outcome.said = outcome.expert

\* The memory hint "never overrides": a domain chosen with a confidence of 23 % or
\* more has the highest of the scores that are reported beside it.
MemoryNeverOverrides ==
  outcome # NoOutcome /\ outcome.confidence >= 23 =>
    \A d \in Domains \ {outcome.domain} : outcome.scores[d] < outcome.scores[outcome.domain]

\* An expert's hint outweighs the model, the model outweighs the memory.  (classify,
\* whose four sources of a domain meet in one variable before the wait.)
HintsKeepTheirPlace == ExpertsPrevail /\ MemoryNeverOverrides
=============================================================================
