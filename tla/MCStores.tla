-------------------------------- MODULE MCStores --------------------------------
(***************************************************************************)
(* What the process stores: the caches of function results and of          *)
(* posteriors, the agent's memory, the oracle's models, a world model, the *)
(* retrieval index, the experience buffer, the uploaded datasets, the       *)
(* causal engine's caches and graphs, a run's knowledge base, the reports  *)
(* on an analysis, the users' feedback, the epochs of retraining, the live *)
(* log and the router's configuration.  They share no state, so each       *)
(* behaviour is one of theirs: store says whose, and the others stay in    *)
(* their initial states.                                                   *)
(***************************************************************************)
EXTENDS AsyncCache, TLC

CONSTANTS
  MaxPosteriors, PosteriorTTL, MaxInferences, \* of PosteriorCache
  Engines,                                   \* processes: servers, or requests of one
  MemorySize, MaxMemories, MaxMemoryFaults,  \* of AgentMemory
  MaxModels, MaxTrainings,                   \* of ChimeraOracle
  Intercepts, Weights, Observables,          \* of WorldModel
  Namespaces, Wordings, OnDisk, TopK, MaxDocuments, \* of RagIndex
  RingSize, MaxAdded,                        \* of ExperienceBuffer
  Users, MaxRetries, MaxFailures,            \* of Datasets
  Queries, Contexts, Proposals, Reports, Trials, MaxCached, MaxEditions, \* of CausalEngine
  Askable,                                   \* of Reports
  Rules, GraphFacts, Extractions, Numbers, Substrings, MaxRounds, MaxIterations, \* of Neurosymbolic
  ItemTypes, ItemLabels, ItemQueries, KnownDomains, QueryWords,  \* of Feedback
  ReadyTotal, PerDomain, HintTotal, TopWords, MaxItems,
  Accuracies, Epsilon, MaxPlateau, MaxEpochs, \* of Convergence
  MaxConnections, MaxLogs, MaxRecords, MaxTasks, \* of LogStream
  Thresholds, Levels, MaxUpdates             \* of CynefinRouter

ASSUME StoresAssumption ==
  /\ IsFiniteSet(Keys)
  /\ MaxPosteriors \in Int /\ PosteriorTTL \in Int
  /\ MemorySize \in Nat \ {0}
  /\ MaxModels \in Nat \ {0} /\ RingSize \in Nat \ {0}
  /\ "torn" \notin Users
  /\ MaxConnections \in Nat \ {0}
  /\ Accuracies \subseteq Int /\ Epsilon \in Nat /\ MaxPlateau \in Nat \ {0}
  /\ Thresholds \subseteq Int /\ Levels \subseteq 0..100

ASSUME CorrectionsAssumption ==
  /\ PerDomain \in Nat /\ HintTotal \in Nat /\ ReadyTotal \in Nat \ {0}
  /\ PerDomain <= ReadyTotal /\ HintTotal <= ReadyTotal /\ "" \notin KnownDomains

VARIABLES
  store,
  posteriors, posteriorTime, ops,
  phase, entries, memoryFile, torn, rest, dirty, index, stored, tears, failures, cut, count,
  running, models, metadata, modelFiles, training, newest, answered, overlaps,
  names, equations, order, ordered,
  policies, documents, vectors, backend, unindexed, unheard,
  experiences, wordless, embeds, similar, stale, answer, added,
  files, table, inbox, serving, calls, asked, faults,
  connected, progress, request, proposal, result, statements, proposed, estimated,
  edition, db,
  stage, iteration, facts, given, derived, grounding, fresh, quiet, reasoned,
  kind, asking,
  feedback, overrides, thanked, exported,
  history, verdict, still,
  logs, emitted, connections, listening, broken, tasks,
  router, updates, routing, outcome
posteriorVars == <<posteriors, posteriorTime, ops>>
memoryVars == <<phase, entries, memoryFile, torn, rest, dirty, index, stored, tears, failures, cut, count>>
oracleVars == <<running, models, metadata, modelFiles, training, newest, answered, overlaps>>
worldVars == <<names, equations, order, ordered>>
ragVars == <<policies, documents, vectors, backend, unindexed, unheard>>
experienceVars == <<experiences, wordless, embeds, similar, stale, answer, added>>
datasetVars == <<files, table, inbox, serving, calls, asked, faults>>
causalVars ==
  <<connected, progress, request, proposal, result, statements, proposed, estimated,
    edition, db>>
reasonVars == <<stage, iteration, facts, given, derived, grounding, fresh, quiet, reasoned>>
reportVars == <<kind, asking>>
feedbackVars == <<feedback, overrides, thanked, exported>>
convergenceVars == <<history, verdict, still>>
streamVars == <<logs, emitted, connections, listening, broken, tasks>>
routerVars == <<router, updates, routing, outcome>>
storeVars ==
  <<store, vars, posteriorVars, memoryVars, oracleVars, worldVars, ragVars, experienceVars, datasetVars,
    causalVars, reasonVars, reportVars, feedbackVars, convergenceVars, streamVars, routerVars>>

Posterior == INSTANCE PosteriorCache WITH
  cache <- posteriors, now <- posteriorTime,
  MaxEntries <- MaxPosteriors, TTL <- PosteriorTTL, Mode <- "cached", MaxOps <- MaxInferences

Memory == INSTANCE AgentMemory WITH
  disk <- memoryFile,
  MaxEntries <- MemorySize, SplitCharacters <- FALSE, MaxFaults <- MaxMemoryFaults

Oracle == INSTANCE ChimeraOracle WITH
  disk <- modelFiles, Scenarios <- Keys

World == INSTANCE WorldModel WITH
  Variables <- Keys, Values <- Observables

ASSUME WorldAssumption == Intercepts \subseteq Int /\ Weights \subseteq Int /\ Observables \subseteq Int

Rag == INSTANCE RagIndex WITH dirty <- unindexed

\* Sources that no policy is, and similarities in percent.
ASSUME RetrievalAssumption ==
  /\ IsFiniteSet(Namespaces) /\ {"graph", "symbolic"} \cap Namespaces = {}
  /\ \A w \in Wordings : w.sim \in 0..100
  /\ DOMAIN OnDisk \subseteq Namespaces /\ \A n \in DOMAIN OnDisk : OnDisk[n] \in Wordings
  /\ TopK \in Nat \ {0} /\ MaxDocuments \in Nat

Experience == INSTANCE ExperienceBuffer WITH index <- similar, MaxEntries <- RingSize

Data == INSTANCE Datasets WITH
  Clients <- Users, NoRequest <- <<>>, Torn <- "torn", MaxFaults <- MaxFailures

Causal == INSTANCE CausalEngine WITH
  Requests <- Engines, CacheSize <- MaxCached, MinEValue <- 2, RequireFull <- FALSE

\* A proposal's graph is a CausalGraph, whose names and edges are added once.
ASSUME CausalAssumption ==
  /\ MaxCached \in Nat \ {0} /\ MaxEditions \in Nat
  /\ \A q \in Queries : \A p \in Proposals[q] :
       /\ p.graph.variables \in Seq([name : STRING, role : STRING])
       /\ p.graph.edges \in Seq(STRING \X STRING)
       /\ Causal!AddedOnce(p.graph)

Reasoner == INSTANCE Neurosymbolic

ASSUME RulesAssumption ==
  /\ \A list \in {Rules} \cup GraphFacts \cup Extractions : list \in Seq(Reasoner!ToSet(list))
  /\ MaxRounds \in Nat

Reporting == INSTANCE Reports WITH
  request <- asking, Kinds <- {"analysis", "reliability", "compliance", "workflow"}, Values <- Askable

\* What a request may say: what may be missing is there at most once, of the tests that
\* were run some passed, and percentages are those.
ASSUME ReportAssumption ==
  /\ Askable.domain \subseteq {"Clear", "Complicated", "Complex", "Chaotic", "Disorder"}
  /\ Askable.confidence \cup Askable.governance \subseteq 0..100
  /\ Askable.entropy \cup Askable.time \subseteq Nat
  /\ \A field \in {"finding", "pvalue", "epistemic", "sample", "data"} :
       \A S \in Askable[field] : \A x, y \in S : x = y
  /\ \A S \in Askable.finding : S \subseteq [effect : Int, passed : Nat, run : Nat \ {0}]
  /\ \A S \in Askable.finding : \A f \in S : f.passed <= f.run
  /\ \A S \in Askable.epistemic \cup Askable.pvalue : S \subseteq 0..100
  /\ \A S \in Askable.sample : S \subseteq Nat
  /\ \A S \in Askable.data : S \subseteq [missing : 0..100, duplicates : 0..100, rows : Nat]
  /\ Askable.verdict \subseteq {"approved", "rejected", "requires_escalation"}
  /\ \A flag \in Reporting!Flags : Askable[flag] \subseteq BOOLEAN

\* Labels and queries that are there, are not, or are not what they should be.
Corrections == INSTANCE Feedback WITH
  Types <- ItemTypes, Labels <- ItemLabels, Queries <- ItemQueries, Valid <- KnownDomains,
  Words <- QueryWords

\* Changes below, at and above the threshold, up and down.
Retraining == INSTANCE Convergence

LogView == INSTANCE LogStream WITH
  Clients <- Keys, MaxEntries <- MaxRecords

\* Thresholds below, between and above what a hint and a boost are worth; levels
\* around them and where a memory could tip the scores.
Sorting == INSTANCE CynefinRouter WITH
  request <- routing

StoresInit ==
  /\ store \in {"results", "posteriors", "memory", "oracle", "world", "rag", "experience", "data", "causal",
                "rules", "reports", "feedback", "convergence", "logs",
                "router"}
  /\ Init /\ Posterior!Init /\ Memory!Init /\ Oracle!Init /\ World!Init
  /\ Rag!Init /\ Experience!Init /\ Data!Init /\ Causal!Init
  /\ Reasoner!Init /\ Reporting!Init /\ Corrections!Init /\ Retraining!Init /\ LogView!Init
  /\ Sorting!Init
  /\ store # "reports" => kind = "analysis"
  /\ store # "experience" => embeds
  /\ store # "causal" => connected
  /\ store # "rag" => backend = "none"
  /\ store # "router" => router.mode = "llm"

\* Of the stores only the one that store names takes a step.
Rests(s, unchanged) == IF store = s THEN TRUE ELSE unchanged
OthersRest ==
  /\ UNCHANGED store
  /\ Rests("results", UNCHANGED vars)
  /\ Rests("posteriors", UNCHANGED posteriorVars)
  /\ Rests("memory", UNCHANGED memoryVars)
  /\ Rests("oracle", UNCHANGED oracleVars)
  /\ Rests("world", UNCHANGED worldVars)
  /\ Rests("rag", UNCHANGED ragVars)
  /\ Rests("experience", UNCHANGED experienceVars)
  /\ Rests("data", UNCHANGED datasetVars)
  /\ Rests("causal", UNCHANGED causalVars)
  /\ Rests("rules", UNCHANGED reasonVars)
  /\ Rests("reports", UNCHANGED reportVars)
  /\ Rests("feedback", UNCHANGED feedbackVars)
  /\ Rests("convergence", UNCHANGED convergenceVars)
  /\ Rests("logs", UNCHANGED streamVars)
  /\ Rests("router", UNCHANGED routerVars)

ResultsStep == store = "results" /\ Next /\ OthersRest
PosteriorsStep == store = "posteriors" /\ Posterior!Next /\ OthersRest
MemoryStep == store = "memory" /\ Memory!Next /\ OthersRest
OracleStep == store = "oracle" /\ Oracle!Next /\ OthersRest
WorldStep == store = "world" /\ World!Next /\ OthersRest
RagStep == store = "rag" /\ Rag!Next /\ OthersRest
ExperienceStep == store = "experience" /\ Experience!Next /\ OthersRest
DataStep == store = "data" /\ Data!Next /\ OthersRest
CausalStep == store = "causal" /\ Causal!Next /\ OthersRest
RulesStep == store = "rules" /\ Reasoner!Next /\ OthersRest
ReportsStep == store = "reports" /\ Reporting!Next /\ OthersRest
FeedbackStep == store = "feedback" /\ Corrections!Next /\ OthersRest
ConvergenceStep == store = "convergence" /\ Retraining!Next /\ OthersRest
LogsStep == store = "logs" /\ LogView!Next /\ OthersRest
RouterStep == store = "router" /\ Sorting!Next /\ OthersRest

StoresNext ==
  \/ ResultsStep \/ PosteriorsStep \/ MemoryStep \/ OracleStep
  \/ WorldStep \/ RagStep \/ ExperienceStep \/ DataStep
  \/ CausalStep \/ RulesStep \/ ReportsStep
  \/ FeedbackStep \/ ConvergenceStep \/ LogsStep \/ RouterStep

StoresSpec == StoresInit /\ [][StoresNext]_storeVars

Symmetry == Permutations(Keys)

\* Two proposals, of which one names a variable in its edges that it does not
\* declare; data from a file, columns to be told apart, and a broken request.
MCProposals ==
  LET variable(n) == [name |-> n, role |-> "covariate"]
      asks(t, o, z) == [treatment |-> t, outcome |-> o, confounders |-> z]
  IN  [why |-> {[hypothesis |-> asks("t", "y", {"z"}),
                 graph |-> [variables |-> <<variable("t"), variable("y")>>,
                            edges |-> <<<<"t", "y">>>>]]},
       how |-> {[hypothesis |-> asks("y", "z", {}),
                 graph |-> [variables |-> <<variable("z")>>, edges |-> <<<<"y", "z">>>>]]}]
MCContexts ==
  {[malformed |-> FALSE, benchmark |-> <<>>,
    config |-> {[dataset |-> {}, csv |-> {"file"}, rows |-> {}, covariates |-> {},
                 modifiers |-> {"m"}, econml |-> FALSE]}],
   [malformed |-> FALSE, benchmark |-> <<"T", "x", "Y">>, config |-> {}],
   [malformed |-> TRUE, benchmark |-> <<"T", "Y">>, config |-> {}]}
MCReports ==
  {[effect |-> 50, interval |-> <<>>, stderr |-> 20, refuted |-> {"random_common_cause"},
    eValue |-> 3]}
\* Two versions of a text that begin alike.
MCWordings == {[head |-> "x", sim |-> 80], [head |-> "x", sim |-> 40]}
MCOnDisk == [n \in {"a"} |-> [head |-> "x", sim |-> 40]]

\* Facts that repeat, overtake and contradict each other; rules that stand
\* against the order in which they fire, one of them never.
Condition(attribute, operator, value) ==
  [attribute |-> attribute, operator |-> operator, value |-> value]
RuleOf(name, conditions, attribute, value, confidence) ==
  [name |-> name, conditions |-> conditions, attribute |-> attribute, value |-> value,
   confidence |-> confidence, restricts |-> name = "limit"]
Said(entity, attribute, value, confidence) ==
  [entity |-> entity, attribute |-> attribute, value |-> value, confidence |-> confidence,
   source |-> "llm"]

MCRules ==
  <<RuleOf("limit", <<Condition("c", "!=", 0), Condition("a", "<=", 1)>>, "status", 9, 9500),
    RuleOf("chain", <<Condition("b", "==", 1)>>, "c", 1, 10000),
    RuleOf("start", <<Condition("a", ">=", 1)>>, "b", 1, 10000),
    RuleOf("text", <<Condition("d", "contains", 7)>>, "c", 1, 8000),
    RuleOf("loop", <<Condition("e", "==", 1)>>, "e", 1, 9000)>>
MCGraphFacts == {<<[Said("x", "a", 1, 8000) EXCEPT !.source = "graph"]>>}
MCExtractions ==
  {<<Said("y", "a", 1, 7000), Said("y", "a", 2, 9600)>>, <<Said("system", "b", 1, 9000)>>,
   <<Said("x", "d", 8, 5000)>>, <<Said("x", "c", 1, 9900)>>}
MCSubstrings == {<<8, 7>>}

\* Confidences and rates on both sides of every threshold.
MCAskable ==
  LET rows(m, d, r) == [missing |-> m, duplicates |-> d, rows |-> r]
      passing(e, p, r) == [effect |-> e, passed |-> p, run |-> r]
  IN  [domain |-> {"Complicated", "Complex", "Disorder"},
       confidence |-> {0, 40, 60, 75, 85}, entropy |-> {20, 60}, time |-> {300},
       finding |-> {{}} \cup {{passing(-40, n, 1)} : n \in 0..1}
                     \cup {{passing(20, n, 3)} : n \in 1..3} \cup {{passing(20, 3, 4)}},
       pvalue |-> {{}, {3}, {7}, {20}}, epistemic |-> {{}, {40}, {60}, {80}}, probe |-> BOOLEAN,
       exhausted |-> BOOLEAN,
       verdict |-> {"approved", "rejected", "requires_escalation"},
       violations |-> {{}, {"financial"}},
       sample |-> {{}, {0}, {100}, {1000}}, data |-> {{}, {rows(10, 3, 50)}, {rows(3, 0, 1000)}},
       explained |-> BOOLEAN, audited |-> BOOLEAN, overseen |-> BOOLEAN,
       governance |-> {50, 80, 90}, tabular |-> BOOLEAN,
       models |-> SUBSET {"causal", "bayesian"}, validated |-> BOOLEAN, reviewed |-> BOOLEAN]

\* Labels in either form; of the queries one has no words that count.
MCLabels == {<<"", FALSE>>, <<"", TRUE>>, <<"clear", FALSE>>, <<"clear", TRUE>>, <<"chaotic", FALSE>>}
MCWords == ("why" :> {}) @@ ("late order" :> {"late", "order"})
MCTrials == {[effect |-> 50, placebo |-> {10}, random |-> {70}, subset |-> {}]}

-----------------------------------------------------------------------------
(* The properties of each, as its module states them. *)

\* AsyncCache, PosteriorCache: only an invalidation or a full cache takes a result
\* that has not expired, and of the posteriors the one used longest ago.
LiveResultsStay == LiveEntriesStay /\ Posterior!LiveEntriesStay

\* AgentMemory: the latest memories are remembered across crashes, restarts and
\* compactions, but for one for each torn or failed append.
OnlyFaultsLose == store = "memory" => Memory!OnlyFaultsLose

\* ChimeraOracle: an engine predicts with a model older than it answered for only if
\* another process was training it when the newer one began.
OlderOnlyByOverlap == store = "oracle" => Oracle!OlderOnlyByOverlap

\* WorldModel: the counterfactual of a complete observation is Pearl's.
CounterfactualIsPearls == store = "world" => World!CounterfactualIsPearls

\* RagIndex: no retrieval hides the best match behind a worse one.
BestMatchIsHeard == store = "rag" => Rag!BestMatchIsHeard

\* ExperienceBuffer: a search gives every entry its own similarity.
OwnScores == store = "experience" => Experience!OwnScores

\* Datasets: an estimate is made from the rows of the dataset selected.
SelectedRowsAreAnalysed == store = "data" => Data!SelectedRowsAreAnalysed

\* CausalEngine: a request is answered from its own hypothesis and data.
EvidenceIsItsOwn == store = "causal" => Causal!EvidenceIsItsOwn

\* Neurosymbolic: forward chaining derives what follows and nothing else.
DerivesWhatFollows == store = "rules" => Reasoner!DerivesWhatFollows

\* Reports: where the summary advises to proceed, no report has a reservation but
\* those that the advice overlooks; better evidence never makes a report worse.
ReportsAgree ==
  [](store = "reports" => Reporting!ProceedIsUnopposed) /\ Reporting!BetterEvidenceHelps

\* Feedback, Convergence: what the router's retraining is told.  Corrections are kept
\* and their readers agree on those in order; a plateau is a standstill of as many
\* epochs.
RetrainingIsInformed ==
  /\ store = "feedback" => Corrections!CorrectionsAreKept /\ Corrections!ReadersAgree
  /\ store = "convergence" => Retraining!PlateauIsStandstill

\* CynefinRouter: a hint outweighs the model, the model outweighs the memory.
HintsKeepTheirPlace == store = "router" => Sorting!HintsKeepTheirPlace

\* LogStream: a broadcast loses a record only to disconnections.
RecordsAreLostToLeavers == store = "logs" => LogView!RecordsAreLostToLeavers
===============================================================================
