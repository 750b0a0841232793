---------------------------- MODULE CausalEngine ----------------------------
(***************************************************************************)
(* The causal analyses that share one engine (src/src/services/causal.py): *)
(* a language model proposes a hypothesis, DoWhy estimates the effect from *)
(* the data that the request's context names, refuters try it, and Neo4j   *)
(* keeps it.  The proposals and the estimates are cached for all requests. *)
(*                                                                         *)
(* A coroutine gives way only where it awaits: at the language model, in   *)
(* the pause before a retry and at each statement of Neo4j.  An optional   *)
(* value is a set of at most one.  Effects are in hundredths.              *)
(***************************************************************************)
EXTENDS LruCache, FiniteSets, CausalGraphStore

CONSTANTS
  Requests, Queries, Contexts,
  Proposals,               \* per query, what the language model may answer
  Reports,                 \* what DoWhy and its refuters may report
  Trials,                  \* what the tests of a sensitivity analysis may report
  CacheSize,               \* maxsize, 12 in the code
  MinEValue, RequireFull,  \* of the deployment profile
  MaxEditions              \* bound: how often the CSV file is rewritten

VARIABLES
  connected,   \* Neo4j was reached at startup
  progress,    \* per request: idle, asking, waiting, asking again, pausing,
               \* saving, done, failed, or tested: a sensitivity analysis
  request,     \* its query and context
  proposal,    \* the hypothesis and the graph found for it
  result,      \* its estimate
  statements,  \* those still to be sent to Neo4j
  proposed, estimated,  \* the two caches
  edition,     \* how often the CSV file was rewritten
  db           \* of Neo4j
causalVars ==
  <<connected, progress, request, proposal, result, statements,
    proposed, estimated, edition, db>>

S == INSTANCE CausalSensitivity WITH None <- 0

\* The answer to a response that cannot be parsed; it is cached like any other.
Unknown ==
  [hypothesis |-> [treatment |-> "unknown", outcome |-> "unknown", confounders |-> {}],
   graph |-> [variables |-> <<>>, edges |-> <<>>]]

Init ==
  /\ connected \in BOOLEAN
  /\ progress = [r \in Requests |-> "idle"]
  /\ request = [r \in Requests |-> <<>>]
  /\ proposal = [r \in Requests |-> Unknown] /\ result = [r \in Requests |-> <<>>]
  /\ statements = [r \in Requests |-> <<>>]
  /\ proposed = <<>> /\ estimated = <<>>
  /\ edition = 0 /\ db = EmptyDb

-----------------------------------------------------------------------------
(* The data *)

\* The first of the columns that has one of the names.
Named(columns, names) ==
  LET hits == {i \in DOMAIN columns : columns[i] \in names}
  IN  IF hits = {} THEN {} ELSE {columns[CHOOSE i \in hits : \A j \in hits : i <= j]}

TreatmentNames == {"treatment", "treated", "intervention", "T"}
OutcomeNames == {"outcome", "result", "Y", "response", "score"}

\* _parse_estimation_config: a malformed configuration hides the benchmark data.
ParsedConfig(context) ==
  IF context.malformed \/ context.config # {} THEN context.config
  ELSE LET columns == context.benchmark
           t == Named(columns, TreatmentNames)
           o == Named(columns, OutcomeNames)
       IN  IF t = {} \/ o = {} THEN {}
           ELSE {[dataset |-> {}, csv |-> {}, rows |-> {"benchmark"},
                  covariates |-> ToSet(columns) \ (t \cup o), modifiers |-> {}, econml |-> FALSE]}

\* _load_dataframe: which data a configuration names when the file has edition e.
ContentAt(config, e) ==
  CASE config.dataset # {} -> config.dataset \X {0}
    [] config.dataset = {} /\ config.csv # {} -> config.csv \X {e}
    [] OTHER -> config.rows \X {0}
Content(config) == ContentAt(config, edition)
Empty == {"empty"} \X {0}
HasData(config) == config.dataset \cup config.csv \cup config.rows # {}

\* What the estimate is adjusted for: effect modifiers too, unless EconML has them.
Adjustment(config, h) ==
  (IF config.covariates # {} THEN config.covariates ELSE h.confounders)
    \cup (IF config.econml THEN {} ELSE config.modifiers)

-----------------------------------------------------------------------------
(* The estimate *)

Abs(x) == IF x < 0 THEN -x ELSE x
Larger(x, y) == IF x < y THEN y ELSE x

\* _extract_confidence_interval: DoWhy's, or from its standard error, or a guess.
Interval(report) ==
  LET delta == IF report.stderr > 0 THEN (196 * report.stderr) \div 100
               ELSE Larger(Abs(report.effect) \div 10, 1)
  IN  IF report.interval # <<>> /\ report.interval[1] < report.interval[2] THEN report.interval
      ELSE <<report.effect - delta, report.effect + delta>>

Refuters == {"placebo_treatment_refuter", "random_common_cause", "data_subset_refuter"}

\* _estimate_effect_statistical: a refuter that raises counts as one that refutes.
Result(h, config, report) ==
  LET refutations == [t \in Refuters |-> t \notin report.refuted]
      status == S!RefutationStatus(refutations)
      interval == Interval(report)
      crosses == interval[1] <= 0 /\ 0 <= interval[2]
  IN  [hypothesis |-> h, data |-> Content(config), adjusted |-> Adjustment(config, h),
       effect |-> report.effect,
       evidence |-> S!EstimatedEvidence(status, report.eValue, crosses),
       robust |-> S!Robust(status, report.eValue, crosses)]

\* A mutant of EstimateKey: the hypothesis alone.
EstimateKeyHypothesis(r, h) == h

EstimateKey(r, h) == <<h, ParsedConfig(request'[r].context)>>

Stored(cache, key, value) ==
  Assign(EvictTo(cache, CacheSize), [key |-> key, value |-> value])

\* What follows an estimate: the statements that persist it.
Persist(r, estimate) ==
  /\ result' = [result EXCEPT ![r] = estimate]
  /\ statements' = [statements EXCEPT ![r] = Statements(proposal'[r].graph)]
  /\ progress' = [progress EXCEPT ![r] = IF connected THEN "saving" ELSE "done"]

\* One attempt at the estimate, the n-th.
Attempt(r, h, config, n) ==
  \/ /\ Content(config) # Empty
     /\ \E report \in Reports :
          LET estimate == Result(h, config, report)
          IN  /\ Persist(r, estimate)
              /\ estimated' = Stored(estimated, EstimateKey(r, h), estimate)
  \/ /\ progress' = [progress EXCEPT ![r] = IF n = 1 THEN "pausing" ELSE "failed"]
     /\ UNCHANGED <<result, statements, estimated>>

\* estimate_effect, once the hypothesis is known.
EstimateEffect(r, p) ==
  LET h == p.hypothesis
      key == EstimateKey(r, h)
      configs == ParsedConfig(request'[r].context)
  IN  /\ proposal' = [proposal EXCEPT ![r] = p]
      /\ \/ /\ key \in CachedKeys(estimated)
            /\ Persist(r, Entry(estimated, key).value)
            /\ estimated' = Touch(estimated, key)
         \/ /\ key \notin CachedKeys(estimated)
            /\ \A c \in configs : ~HasData(c)
            /\ progress' = [progress EXCEPT ![r] = "failed"]
            /\ UNCHANGED <<result, statements, estimated>>
         \/ /\ key \notin CachedKeys(estimated)
            /\ \E c \in configs : HasData(c) /\ Attempt(r, h, c, 1)

Retry(r) ==
  /\ progress[r] = "pausing"
  /\ UNCHANGED <<request, proposal, proposed, edition, db>>
  /\ \E c \in ParsedConfig(request[r].context) : Attempt(r, proposal[r].hypothesis, c, 2)

-----------------------------------------------------------------------------
(* The hypothesis *)

\* discover_causal_structure: a request, or a second attempt, looks it up.
LookUp(r) ==
  LET key == request'[r]
  IN  \/ /\ key \in CachedKeys(proposed)
         /\ proposed' = Touch(proposed, key)
         /\ EstimateEffect(r, Entry(proposed, key).value)
      \/ /\ key \notin CachedKeys(proposed)
         /\ progress' = [progress EXCEPT ![r] = IF @ = "idle" THEN "asking" ELSE "asking again"]
         /\ UNCHANGED <<proposal, result, statements, proposed, estimated>>

Analyze(r) ==
  /\ progress[r] = "idle"
  /\ \E q \in Queries, c \in Contexts :
       request' = [request EXCEPT ![r] = [query |-> q, context |-> c]]
  /\ LookUp(r)
  /\ UNCHANGED <<edition, db>>

Answered(r) ==
  /\ progress[r] \in {"asking", "asking again"}
  /\ UNCHANGED <<request, edition, db>>
  /\ \E p \in Proposals[request[r].query] \cup {Unknown} :
       /\ proposed' = Stored(proposed, request[r], p)
       /\ EstimateEffect(r, p)

AskingFails(r) ==
  /\ progress[r] \in {"asking", "asking again"}
  /\ progress' = [progress EXCEPT ![r] = IF @ = "asking" THEN "waiting" ELSE "failed"]
  /\ UNCHANGED <<request, edition, db>>
  /\ UNCHANGED <<proposal, result, statements, proposed, estimated>>

AskAgain(r) ==
  /\ progress[r] = "waiting"
  /\ UNCHANGED <<request, edition, db>>
  /\ LookUp(r)

-----------------------------------------------------------------------------
(* Sensitivity analysis, the database, the files and the clock *)

\* run_sensitivity_analysis, of a CSV file: a trial is the effect and what each
\* test made of it, nothing if it raised.
Passes(trial, test) ==
  \E e \in trial[test] :
    CASE test = "placebo" -> 2 * Abs(e) < Abs(trial.effect)
      [] test = "random" -> 5 * Abs(e - trial.effect) < Abs(trial.effect)
      [] test = "subset" -> 10 * Abs(e - trial.effect) < 3 * Abs(trial.effect)

TestSensitivity(r) ==
  /\ progress[r] = "idle"
  /\ \/ \E trial \in Trials :
          LET passed == Cardinality({t \in {"placebo", "random", "subset"} : Passes(trial, t)})
          IN  result' = [result EXCEPT ![r] =
                [passed |-> passed, total |-> 3, robust |-> 100 * passed >= 66 * 3]]
     \/ result' = [result EXCEPT ![r] = [passed |-> 0, total |-> 1, robust |-> FALSE]]
  /\ progress' = [progress EXCEPT ![r] = "tested"]
  /\ UNCHANGED <<request, proposal, statements, proposed, estimated, edition, db>>

Finish(r) == progress' = [progress EXCEPT ![r] = "done"]

Execute(r) ==
  /\ progress[r] = "saving" /\ statements[r] # <<>>
  /\ db' = Executed(db, Head(statements[r]), r, result[r])
  /\ statements' = [statements EXCEPT ![r] = Tail(@)]
  /\ IF Len(statements[r]) = 1 THEN Finish(r) ELSE UNCHANGED progress
  /\ UNCHANGED <<request, proposal, result, proposed, estimated, edition>>

\* Neo4j fails: the rest is not saved, and the request goes on.
ExecuteFails(r) ==
  /\ progress[r] = "saving"
  /\ Finish(r)
  /\ UNCHANGED <<request, proposal, result, statements, proposed, estimated, edition, db>>

\* An entry of either cache outlives its time, or the caches are cleared.
Forget ==
  /\ \/ proposed # <<>> /\ proposed' = Tail(proposed) /\ UNCHANGED estimated
     \/ estimated # <<>> /\ estimated' = Tail(estimated) /\ UNCHANGED proposed
  /\ UNCHANGED <<progress, request, proposal, result, statements, edition, db>>

RewriteFile ==
  /\ edition < MaxEditions /\ edition' = edition + 1
  /\ UNCHANGED <<progress, request, proposal, result, statements, proposed, estimated, db>>

Step ==
  \/ \E r \in Requests :
       \/ Analyze(r) \/ Answered(r) \/ AskingFails(r) \/ AskAgain(r) \/ Retry(r)
       \/ Execute(r) \/ ExecuteFails(r) \/ TestSensitivity(r)
  \/ Forget \/ RewriteFile

Next == Step /\ UNCHANGED connected

CausalSpec == Init /\ [][Next]_causalVars

-----------------------------------------------------------------------------
(* Properties *)

\* Whatever requests share the caches, with proposals and estimates that fail
\* and are tried again, a request is answered from its own: a hypothesis of its
\* query, data that its configuration names (of a file, an edition it has had),
\* adjusted for its covariates or its hypothesis's confounders.
AnsweredFromItsOwn(r) ==
  LET h == result[r].hypothesis
  IN  /\ proposal[r] \in Proposals[request[r].query] \cup {Unknown}
      /\ h = proposal[r].hypothesis
      /\ \E c \in ParsedConfig(request[r].context) :
           /\ \E e \in 0..edition : result[r].data = ContentAt(c, e)
           /\ result[r].adjusted = Adjustment(c, h)

Found(r) == {v.name : v \in ToSet(proposal[r].graph.variables)}
Edges(r) == ToSet(proposal[r].graph.edges)

\* An edge remembers two of the sessions that saved it.
TwoOthersHave(r, edge) ==
  \E p, q \in Requests \ {r} :
    p # q /\ \A s \in {p, q} : progress[s] \in {"saving", "done"} /\ edge \in Edges(s)

\* When all of it was saved, the session of a request reads back the variables that
\* were found for it, and no edge that was not; and every edge between them, but
\* for one that two others save as well.
ReadsBackItsGraph(r) ==
  LET read == GraphOf(db, r)
  IN  /\ read.variables = Found(r)
      /\ read.edges \subseteq Edges(r)
      /\ \A edge \in Edges(r) \cap (Found(r) \X Found(r)) :
           edge \in read.edges \/ TwoOthersHave(r, edge)

EvidenceIsItsOwn ==
  \A r \in Requests : progress[r] = "done" =>
    /\ AnsweredFromItsOwn(r)
    /\ connected /\ statements[r] = <<>> => ReadsBackItsGraph(r)
=============================================================================
