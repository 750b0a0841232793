# CARF in TLA+

CARF (Complex-Adaptive Reasoning Fabric) routes a request through a Cynefin
classifier to a causal, Bayesian, deterministic or emergency agent, judges the
agent's proposal with a policy Guardian, retries rejected proposals and puts the
rest before a human. This directory holds TLA+ models of that program, the TLC
configurations that check them, and TLAPS proofs about them. Every definition is
translated from the Python sources (paths below are relative to `src/src/`);
`PROJECT.json` maps each to its lines.

Contents: [1. The system](#1-the-system) · [2. Modules](#2-modules-and-the-code) ·
[3. Runs](#3-runs-and-bounds) · [4. Fairness](#4-fairness) · [5. Proofs](#5-proofs) ·
[6. Where the code and its documents disagree](#6-where-the-code-and-its-documents-disagree) ·
[7. Not modelled](#7-not-modelled-and-why) · [8. Plan](#8-plan)

## 1. The system

One FastAPI process (an asyncio event loop; worker threads only where a handler
calls `asyncio.to_thread`) and, optionally, an MCP server process over the same
files. A query enters at `api/routers/query.py`, runs once through a LangGraph
state graph (`workflows/graph.py`) and is answered; around that run stand
process-wide singletons that requests share.

| Component | Sources | State | Operations |
|---|---|---|---|
| Workflow graph | `workflows/graph.py`, `core/state.py` | one `EpistemicState` per run, handed from node to node | a node per step, four conditional edges, post-processing |
| Cynefin router | `workflows/router.py`, `api/routers/router_config.py` | a configured singleton the API replaces | gather hints, ask the model, boost causal language, apply a hint, apply the threshold, score |
| Guardian | `workflows/guardian.py`, `services/opa_service.py` | a configuration singleton the API replaces | five checks, verdict, CSL layer, OPA layer |
| Causal robustness | `services/causal.py`, `services/causal_sensitivity.py` | none | build evidence, summarise refuters, assess robustness |
| Human layer | `services/human_layer.py` | an escalation store | ask, answer by default without a client, time out, record |
| CSL policy service | `services/csl_policy_service.py`, `utils/currency.py` | lists of policies, lists of rules | map a session to a context, evaluate in a thread, fail closed, reload |
| CSL API, MCP Guardian tools | `api/routers/csl.py`, `mcp/tools/guardian.py` | the same lists | add, update, delete a rule; reload; evaluate |
| Federated policies | `services/federated_policy_service.py`, `api/routers/governance.py` | registry of policies and domains, conflicts | load files, add, update, remove, detect, resolve |
| Governance boards | `services/governance_board_service.py` | boards, templates | create, from templates too, update, delete, list |
| Result caches | `utils/cache.py`, `utils/posterior_cache.py` | `OrderedDict`s with times | look up, compute and insert, sweep, evict, clear |
| Agent memory | `services/agent_memory.py` | list, JSONL file, similarity index | append, recall, compact, load at start |
| ChimeraOracle | `services/chimera_oracle.py` | models in memory (LRU), metadata, pickle files | train, predict, clear, load at start |
| World model | `services/causal_world_model.py`, `services/counterfactual_engine.py` | equations, cached evaluation order | add an equation, evaluate, counterfactual, simulate |
| Smart reflector | `services/smart_reflector.py`, `mcp/tools/reflector.py` | none; it changes the action it is given | heuristic, LLM and hybrid repair |
| Simulations | `services/simulation.py`, `api/routers/simulation.py` | status per scenario id | run, run many, invalidate and re-run |
| Drift detector | `services/drift_detector.py` | ring of observations, baseline, alerts | record, check, reset |
| Rate limiter | `api/middleware.py` | request times per client | admit, refuse |
| Causal engine | `services/causal.py` | caches of proposals and estimates, the last hypothesis | propose, choose data, estimate, refute, interpret, save |
| Causal graphs | `services/neo4j_service.py` | variables, `CAUSES` edges and analyses in Neo4j | merge, create, link, read back |
| RAG service | `services/rag_service.py`, `services/document_processor.py` | documents, their vectors, a dirty flag | ingest policies, files and triples, rebuild, three ways to search |
| Datasets | `services/dataset_store.py`, `api/routers/datasets.py`, `query.py`, the cockpit's `withRetry` | CSV files, a SQLite registry | upload with retries, list, preview, load for a query |
| Experience buffer | `services/experience_buffer.py` | ring of experiences, a similarity index | add, search, clear |
| Neurosymbolic engine | `services/neurosymbolic_engine.py` | a knowledge base per run | extract facts, chain rules, conclude, correct, validate |
| Governance service | `services/governance_service.py`, `cost_intelligence_service.py`, `governance_graph_service.py` | two audit logs, costs, triples | map, price, resolve, save, timeline, aggregate |
| Semantic graph | `api/routers/governance.py` | none; it is drawn from boards, policies, conflicts and triples | build |
| Reports | `services/transparency.py`, `insights_service.py`, `api/routers/transparency.py` | none | summarise, assess, advise |
| Feedback | `api/routers/feedback.py`, `services/router_retraining_service.py`, the retraining script | feedback and overrides in SQLite; epochs in memory | submit, judge readiness, extract hints, export, watch convergence |
| Live log | `services/developer.py` | ring of records, list of websockets | log, broadcast, connect, leave |
| Circuit breaker | `utils/resiliency.py` | state, failure count, time of last failure | read, call, record success or failure |

`PROJECT.json` lists, beside these, every component that is not modelled.

**How they interact.** The graph's nodes call the services in order: router →
RAG → CSL pre-check → agent → Guardian (which calls CSL, then OPA) → reflector
(back to the router), governance, or human. The fast path asks the ChimeraOracle
instead of the causal engine; the Bayesian node goes through the posterior
cache. `run_carf` then feeds the drift detector, the agent's memory and the audit
log, and swallows what they raise. A query may name an uploaded dataset, whose rows
the endpoint puts into the context from which the causal engine chooses its data; the
engine saves what it found to Neo4j. Policies are ingested into the RAG index wherever
they are registered through the federated endpoints. The cockpit sends one finished
analysis to several report endpoints and draws policies and boards as one graph. The CSL service loads the federated policies
whenever it loads its own, so the two registries are written from both sides. The
API changes the Guardian's configuration, the CSL rules, the federated policies and
the boards while runs are in flight.

**What is hard.** Retries that meet state of an earlier pass; routing functions
that read fields other nodes left; a worker thread that iterates over lists which
handlers change; tasks that all missed the same cache key; overlapping calls
around one breaker; crashes between a truncation and a write; an upload whose answer
is lost and that is sent again; caches whose keys leave out what their values depend
on; an index that is stale, or holds older versions; several programs that count the
same rows by rules of their own; lists that change under the loop that walks them; a sliding window's edges; everything that swallows an exception.
`PROJECT.json` lists forty such hazards at their lines, with the properties that
would catch them going wrong.

**What makes it correct**, per component:

- *Graph*: nothing leaves without a clean verdict or a human; the retry budget holds; every escalation reaches the human layer; every run ends, below LangGraph's recursion limit.
- *Guardian*: no layer weakens another; a claim released is robust; a configuration swapped in mid-run does not open a gap.
- *CSL*: the rules in force are all applied, denials name rules that were in force, money that cannot be converted is stopped, the built-in rules are no wider than the files they stand in for.
- *Federation and boards*: contradictions are on record, files prevail at a reload, templates only add, and nothing depends on the iteration order of a set.
- *Router*: an expert's hint outweighs the model, the model outweighs the memory.
- *Stores*: what is alive stays, least recently used goes first, a fault costs what it must and no more, a model older than one already answered for comes back only from a training that overlapped.
- *Causal engine, datasets*: every request is answered from its own hypothesis and from the rows that were uploaded; its session reads back its own graph.
- *Retrieval*: the best match is heard, and every entry has the similarity of its own text.
- *Reasoning*: forward chaining derives exactly the closure.
- *Reports*: of all that the reports say against acting, the summary's advice to proceed overlooks only what it does not look at (named one by one), and better evidence makes none of them worse.
- *Feedback, live log*: what was accepted is kept and read alike by all readers; only disconnections lose records.
- *World model*: counterfactuals and simulations solve the model, however it was built and whatever order was cached.
- *Services*: no call while the breaker holds off, at most the limit per window, a lasting drift reported, a started simulation gets a final status, a violation counted once, a dashboard that agrees with its logs.

## 2. Modules and the code

One module per component; a module that has no variables is a library of pure
operators. Names of actions and operators are those of the Python functions where
TLA+ allows it.

| Module | Models | State | Actions |
|---|---|---|---|
| `CausalSensitivity` | evidence and its robustness | – | – |
| `Guardian` | `Guardian.evaluate` and its CSL and OPA layers | – | – |
| `CarfGraph` | a run of the graph | the fields of `EpistemicState` that nodes read, `pc`, supersteps, the configuration | one per node, with its outgoing edge; `NodeFails`; `UpdateGuardianConfig` |
| `Oversight` | what a run promises (abstract) | `phase`, `verdict`, `retries` | object, release, retry, ask, fail |
| `CslRules` | rule semantics and the five built-in policies | – | – |
| `CslSession` | a request judged again and again while it is revised | the request | raise, lower, reprice, approve, escalate |
| `CslPolicies` | rule edits beside a walking evaluation | policy lists, the walk, ghosts of what stood throughout | the API's and MCP's handlers, reload in two steps, one rule of the walk at a time |
| `FederatedPolicies` | the registry, its files and conflicts | registry, conflicts, files, enforced | the endpoints, a load of the CSL service |
| `GovernanceBoards` | boards and templates over that registry | + templates, boards | + board endpoints (extends `FederatedPolicies`) |
| `LruCache` | the `OrderedDict` operations two caches share | – | – |
| `AsyncCache` | `async_lru_cache` under concurrent tasks | cache, calls in flight | hit, miss, return, raise, clear, tick |
| `PosteriorCache` | the posterior cache and the inference around it | cache | infer, fail, invalidate, tick |
| `AgentMemory` | memory, file and index | list, file, torn tail, index | store in its steps, recall, compact in its steps, crash, restart |
| `ChimeraOracle` | trainings of two processes that overlap over one directory | models, metadata, files, what each process trains | read the data, open the file, save and cache, fail, predict, clear, stop, load |
| `WorldModel` | a structural causal model | equations, cached order | add an equation, use (which caches the order); counterfactuals and simulation are operators |
| `SmartReflector` | repairs with Python's aliasing | actions as references into `params` | propose, reflect, the MCP tool |
| `Simulation` | status of scenario runs | results, request positions | run, re-run, step, fail |
| `DriftDetector` | windows and baseline | ring, baseline, last snapshot, alerts | record (with the check), reset |
| `RateLimit` | the sliding window | kept times, history | admit, refuse, passes |
| `CynefinRouter` | one classification beside updates of the router | the singleton, the waiting request, what it put into the state | update, patch, classify, answer, give up |
| `CausalGraphStore` | the statements that save and read a graph | – (a database is a record) | – |
| `CausalEngine` | causal requests that share an engine and a database | caches, last hypothesis, progress and results per request, the database, the file's edition | a request's steps between its awaits, retries, an edit of the file |
| `RagIndex` | documents, vectors and three retrievals | policies, documents, vectors, backend, dirty flag | set, delete, boards' policies, ingest, upload, triples, search |
| `ExperienceBuffer` | the ring and its similarity index | ring, index and what it was built from | add, find, clear |
| `Datasets` | uploads, retries and what a query reads | files, rows of the registry, requests on their way, the clients' calls | send, lose, serve in steps, fail, crash, ask |
| `Neurosymbolic` | one run of the loop | facts, iteration, stage | reason, extract, deepen, correct, validate |
| `Reports` | the reports on one analysis | the analysis asked about | the next request, which differs in one field |
| `Feedback` | corrections and their three readers | feedback, overrides, the exported file | submit (answered, lost or stopped), export |
| `Convergence` | the watch over retraining | epochs, last verdict | record, ask, restart |
| `LogStream` | live log and its broadcasts | records, connections, broadcasts under way | log, connect, break, leave, send, finish |
| `GovernanceService` | records of finished runs | stage per run, two logs, costs, triples | a run's steps, policy events, seed |
| `SemanticGraph` | the graph the cockpit draws (extends `GovernanceBoards`) | – | – |
| `CircuitBreaker` | breaker around overlapping calls | state, count, age, calls | begin, succeed, fail, cancel, look, tick, recover |

`CarfGraph` extends `Guardian`, which extends `CausalSensitivity`: its
`GuardianNode` action evaluates the whole pipeline. `CslPolicies` and `CslSession`
extend `CslRules`. `GovernanceBoards` extends `FederatedPolicies`, so that boards
and policy edits interleave, and `SemanticGraph` extends it, so that a graph is drawn
from every state they reach. `CausalEngine` extends `CausalGraphStore`: the statements
of several requests interleave in one database. `MCStores` and `MCServices` put components that share
no state side by side: a variable says whose behaviour this is, and the others keep
an initial state, so that the states add up instead of multiplying.

Abstractions worth knowing:

- **Atomicity.** A handler runs without `await`: one action. Where it awaits, or
  runs in a worker thread, it is split exactly there (`AsyncCache` around the call,
  `CslPolicies` at every rule, `Simulation` at every await, `CircuitBreaker` around
  the call). File writes are split where a crash can fall (`AgentMemory`), and a training of
  the oracle where another process can read, open or write the same (`ChimeraOracle`).
- **Environment.** LLMs, refuters, csl-core, OPA, Neo4j and the clock are choices
  with `\E`: any answer of the type the code accepts, or an exception. In `MCStores` what they may
  answer is a small set of cases, named beside each instance.
- **Numbers.** Confidences and E-values are small sets around the code's thresholds,
  in percent; amounts likewise around the limits; a world model computes with integers. `DriftDetector` keeps counts and
  abstracts the KL divergence to whether it may exceed its threshold. `CynefinRouter` and
  `Reports` scale to integers, so ties at a threshold are exact where floats would round.
- **Identity.** Texts, ids and models are names or versions. Of a memory, a model or
  a policy only what distinguishes two of them is kept: of a document its id and its
  similarity to the one query that is asked, of a dataset whose rows it holds, of a
  report what it says and not how. In `SemanticGraph` a policy's name is distinct from
  the keys of namespaces.
- **Aliasing** is modelled where the code depends on it (`SmartReflector`'s shared
  nested dicts, `CslPolicies`' list the evaluation walks while handlers change it).

Ghost variables (`told`, `admitted`, `audience`, `leavers`, `still`, `given`, `thanked`, `standing`, `disturbed`, `seen`, `stored`,
`newest`, `answered`, `overlaps`, `inFlight`, `removed`, …) record history for properties and are
marked as such; no guard of the program depends on them.

## 3. Runs and bounds

| Run | Config | Checks | States |
|---|---|---|---|
| `carf_graph` | `CarfGraph.cfg` | type; nothing leaves without a clean verdict or a human; released claims are robust; the fast path is always seen by a human; retry budget; recursion limit | graph with governance, CSL, OPA, two configurations swapped at will |
| `carf_graph_live` | `CarfGraphLive.cfg` | every run ends; escalations reach the human; the graph implements `Oversight` | graph with a HumanLayer client |
| `csl_session` | `CslSession.cfg` | unconvertible money stopped; oversight; no wider than the budget file | 281 000 |
| `csl_policies` | `CslPolicies.cfg` | standing rules enforced; denials real | 52 000 |
| `governance` | `GovernanceBoards.cfg` | contradictions on record; order of a set irrelevant; the semantic graph whole | 274 000 |
| `stores` | `Stores.cfg` | fourteen properties of the fifteen parts of `MCStores` | 1 354 000 |
| `services` | `Services.cfg` | nine properties of the six services, three of them liveness or action properties | 404 000 |
| `csl_fails_closed` … | five more | one documented statement each, which the code violates (section 6) | – |

Bounds, and why they are enough:

- **Graph.** `MaxReflections = 2` and `RecursionLimit = 25` are the code's own values.
  Levels 75 and 97 lie between and above the Guardian's thresholds (0 comes from a
  reply that does not parse); E-values 1 and 2 lie below and at the profile's
  minimum. The run is otherwise unbounded: retries and human loops end by themselves.
- **CSL.** Amounts lie below, between and above the limits after conversion; `EUR`
  converts, `XXX` does not; effects have either sign. `CslPolicies`: two built-in policies, a federated one, two
  edits at any two of the walk's steps; two are needed for a rule to be deleted and
  another to move into its place, and a third edit repeats one of the pairs.
- **Governance.** Three domains; rules that contradict, contend and merely overlap;
  a file that breaks in its middle; `MaxEdits = 3`, `MaxLoads = 1`, `MaxBoards = 1`
  cover replace–remove–register with a load and a template between any two of them.
- **Stores.** Keys are interchangeable, which leaves up to a sixth of the
  states (`SYMMETRY`; no liveness is checked in this run). Two entries and three keys let every cache overflow; three callers miss
  one key while a third overwrites; `TTL = 2` with three ticks lets entries expire
  beside fresh ones; five memories in a list of two, three faults; two engines, three
  scenarios over two slots and four trainings (`MaxTrainings`), enough for two of one
  scenario to overlap between two others that evict. The world model: every graph of three
  variables, loops included, built and rebuilt in every order; three are needed for a
  chain, a fork and a collider, and linearity makes one coefficient as good as many. Retrieval: two policies, two versions
  of each that share a first line, four documents, one place in the answer: the smallest
  index in which an older version can crowd out a newer (`Namespaces`, `Wordings`, `OnDisk`,
`MaxDocuments`, `TopK`). The ring: two places, five
  experiences. Datasets: two clients, one retry each, two faults. The causal engine: two
  requests, a cache of one, two hypotheses of which one declares too little, three kinds
  of context. The neurosymbolic rules contain a chain that stands against its order, a
  loop and a negation; three rounds and three iterations exhaust them. Reports: values on
  both sides of every threshold that the summary and the reports it is compared with use, significance
  levels included, all neighbours of all analyses. Feedback: three items
  of which some are unusable, against readiness at three in all and two per domain.
  Convergence: changes below, at and above the threshold, six epochs against a window of
  three. The log: three clients for two places, three broadcasts at once. The router:
  thresholds below, between and above what hints are worth.
- **Services.** Three callers and a threshold of three (a late success, a failing
  probe and a call in between); a limit of two in a window of three over six seconds
  covers two windows; windows of three in a detector whose total wraps; two requests
  and two scenario ids, up to two per request; two reflections and one client repair; two runs that clash, stay
  clear or carry an amount that is no number, beside three policy events.

`CHECK_DEADLOCK FALSE` stands where the system stops: a run of the graph ends, a
bounded clock or a number of edits is used up.

Every property has a mutant in `PROJECT.json`: an operator, defined just before the
one it stands for, with a plausible mistake (a window one second short, an eviction
one tick early, a routing edge to the wrong node) that the property must catch.

## 4. Fairness

- `CarfGraph`: weak fairness of `Step`. The event loop resumes every ready node, and a
  node returns or raises: its LLM calls have client time-outs and bounded retries.
  Nothing is assumed of `UpdateGuardianConfig`.
- `CircuitBreaker` (`FairSpec`, `ServicesFairness`): time passes (`Tick`), callers keep
  calling (`Begin`), and a call of a service that is up is served again and again
  (strong fairness of `up /\ Succeed`: a cancelled or failing call may precede it, but
  not for ever). `ClosesAgain` is about a service that has recovered for good.
- `Simulation`: weak fairness of each request's `Step`; what it awaits, Neo4j and an
  LLM, answers or raises.
- Everything else is safety and assumes nothing.

## 5. Proofs

TLAPS proves, for every value of the constants that satisfies the assumptions:

| Module | Theorems |
|---|---|
| `CarfGraphProofs` | `TypeCorrect`, `ReleaseIsClean`, `ReleasedClaimsRobust`, `FastPathNeedsHuman`, `ReflectionBudget`, `NeverCutOff`; `RunKeepsPromise`: a step of the graph is a step of `Oversight` or a stutter |
| `CslPoliciesProofs` | `TypeCorrect`, `StandingRulesAreEnforced`, `DenialsNameRulesInForce` |
| `CslSessionProofs` | `UnknownMoneyIsStopped`, `AllowedIsOverseen`, `NoWiderThanTheFile` |
| `GovernanceProofs` | `ClashesAreOnRecord`, `TypesAreOrderless`, `GraphsAreWhole` |
| `StoresProofs` | `HintsKeepTheirWeight` (router), `ScoresAreOwn` (experience ring), `ClearedResultsWereInFlight` and `LiveResultsRemain` (caches), `PredictionsAreCurrent` (oracle), `SelectionsAreWhole` (datasets), `OnlyLeaversCost` (live log), `BestMatchesAreHeard` (retrieval) |
| `EvidenceProofs` | `EvidenceIsOwn` (causal engine and its graphs), `CounterfactualsArePearls` (world model), `ReportsAreConsistent` (the reports on one analysis) |
| `LearningProofs` | `MemoriesAreLostToFaults` (the agent's memory), `RetrainingIsToldTheTruth` (users' feedback, the router's retraining), `ChainingDerivesWhatFollows` (neurosymbolic engine) |
| `ServicesProofs` | `ClosedBreakerHealthy`, `CallsAreHeldOff` (breaker), `NoMoreThanLimit`, `WordIsKept` (rate limiter), `LastingShiftsAreReported` (drift detector), `DashboardIsRight` (governance service), `RepairsAccountForAll` (smart reflector) |

**The graph.** The released-state properties are not inductive: that an approval is
clean depends on the route by which the request came to the Guardian. `Inv` therefore
adds `Routed` (behind the router, a node runs only for a domain that leads to it, with
enough confidence), `Grounded` (an action keeps the evidence it was proposed with: a
recommendation has some, a prediction has the oracle's, which was never refuted) and
`Counted` (before a node, `6 * reflections + Position(pc)` supersteps were taken). Four
lemmas about the Guardian's pipeline (`EvaluateVerdict`, `ApprovedIsClean`,
`RejectedNamesWhy`, `CleanRequest`) carry the argument that no layer turns an
objection into an approval; each node's action then has a lemma. `NeverCutOff` follows
from `Counted` and the assumption `6 * (MaxReflections + 1) <= RecursionLimit`, which
says what the code silently relies on: raising the retry budget past three exceeds
LangGraph's default of 25. `RunKeepsPromise` needs `Judged` too: the verdict is empty
outside the nodes that follow the Guardian.

**CSL evaluation.** The evaluation walks a list that handlers change meanwhile.
`StillEnforced`: as long as nothing disturbed the walk, each rule that has stood throughout
is ahead of it, or holds, or something was denied already; `WasEnforced` says so of the
end, where nothing is ahead. `EditKeepsAhead` is the step that matters: an edit finds the
first policy and rule of a name and moves none, so that what was ahead still is. A
deletion does move rules back under the iterator, which is what `disturbed` marks.
`WalkedWasInForce` says that the walk meets only rules that were in force at some time.

**CSL sessions.** One lemma per built-in policy says what its verdict entails for a
request of any amounts and effects; the three properties combine them, because no
policy's permission overrides another's denial.

**Governance.** `Kept` is the inductive invariant: identifiers are given once and in
order, each policy lies under its own namespace, every clash a registration through the
API could see is on record (`OnRecord`), and what is on record names its parties truly
as long as they exist (`TrueTo`). `RegistrationKeeps` is the step; files, directories
and templates are walks of it (`FileKeeps`, `LoadKeeps`, `TemplateKeeps`). Such walks are
recursive functions over positions; `Counting` is the induction they use. `TypesAreOrderless`
needs that an order of a finite set meets every element (`OrdersMeetAll`) and that the
type after a walk depends only on the set it met (`WalkFindsType`). `GraphsAreWhole`
needs `TrueTo`, since the node of a policy is found by the names a conflict recorded.

**The stores.** Only the store that is named moves (`OneStoreMoves`), so that each has an
invariant of its own:

- *Router* (`RouterInv`): a waiting request carries the threshold it will be judged by and,
  if its scenario named a domain, that domain as its hint; what was answered was judged
  well (`ClassifiedIsWellJudged`, for whatever the model says).
- *Experience ring* (`RingInv`): an index that counts as fresh is of the entries as they
  are, or of none.
- *Result cache* (`CacheInv`): calls and entries from before a clear were awaiting at that
  clear. For `LiveResultsRemain` also the bound on the size.
- *Posterior cache* (`PosteriorInv`): keys differ and the list is in order of use. That
  eviction takes the right one needs that removing an element moves the others up by
  one or not at all (`RemovalMovesUp`, `RanksDiffer`).
- *Oracle* (`OracleInv`): what a file, a memory or a training in progress holds is no older
  than what any process has answered for (`Excused`), or overlapped with it. A training notes
  what it overlaps with only when it begins, so the invariant also carries, phase by phase,
  that every training begun later than one still running is noted beside it (`PassingNoted`),
  and that whatever may end up in a file two processes write is excused
  (`SharedExcused`).
- *Datasets* (`DataInv`): every attempt is served once, and is registered after its file
  was written; a client was told only of what is in the registry.
- *Causal engine* (`EvidenceInv`, `DbInv`): every entry of every cache answers its key, a
  request holds only what derives from its hypothesis; statements leave in order, and
  what a request has saved is still in the database unless two later sessions saved the
  same edge.
- *Live log* (`StreamInv`): who was sent the record stands where the walk has been or has
  left, and the clients it passed over are at most those that left since. `Shifted` is
  how a removal moves the list under the walk.

**The agent's memory.** Counting what is lost does not carry over a step: the process
trims to the latest `MemorySize`, so a memory that a fault cost makes an older one stay,
and later faults fall on another window. `MemoryInv` therefore says more (`Close`): above
some number, what is held and what was stored differ by at most one memory for each
fault, and either that number is 0 or there are enough memories above it. Storing,
trimming, tearing and reading back each preserve this (`CloseBoth`, `LastRemembered`,
`LineMissing`, `LineTorn`, `Reloaded`), and with it the latest memories lack no more than
there were faults (`CloseCovers`). A last line without its newline counts as a fault to
come (`OnFile`), because the next line that is appended spoils it. Without faults both
hold exactly the latest memories (`Exact`). The lines that parse are a recursive function
of the file; `Counting` is the induction over its length (`MemoriesAreLines`). A compaction
that was cut off is outside, as in the property: the file is truncated before it is
written.

**Feedback and retraining.** The rows are bags, and what the readers count is a tally of
what users sent. `FeedbackInv` says that the overrides are the tally of the labelled
corrections, that what was thanked for is stored, and that the exported file is a usable
part. One lemma says that one more row is one more in the tally (`TallyAdds`, over
`TotalAdds`: a bag's size is the number of its numbered copies), another that a row is
told just when it corrects a domain (`OverridesFollow`). On corrections in order the
exported data are the overrides, so the readers' totals agree (`ReadersDoAgree`, which
uses that the thresholds are ordered as they are in the code). `ConvergenceInv` describes
the standstill by the history: the last `still` epochs changed little and the one before
did not. The loop's count is then unique (`LoopCountsStandstill`), and a standstill as
long as `MaxPlateau` is no regression because the last change is one of the small ones.

**The breaker.** `ClosedIsHealthy` is inductive with the types; that calls hold off needs
`Probing`: half open with an unbroken run of failures means nothing failed since the
time-out.

**The rate limiter.** `AtMostLimitPerWindow` speaks of all admissions and the code keeps
only some. `WindowInv` says what is kept: a suffix of the admissions, all before it a
window or more in the past, and any two admissions `Limit` apart are a window apart.
`RetryAfterIsHonoured` needs `Word`: until its next admission a client's counter is exactly
full, since a refusal that removed a request would not have been one, and what it was
told is when the first of them has left the window.

**The drift detector.** A detection happens every `DetectionWindow` observations and looks
back one window. `Watched` says what the last one reported of the window it saw, which
lies `total % DetectionWindow` observations back; a lasting shift of two windows less one
covers that window whatever the phase. The total is folded in the model, so that lemmas
about remainders (`NextRemainder`, `FoldKeeps`) show that the fold changes nothing.

**Governance's dashboard.** A timeline merges two logs, sorts and cuts. The model says
where an entry comes by how many are newer (`Newest`), so that no sort has to be
followed: entries of different times have different ranks (`RanksFollowTime`) and every
rank below their number is taken (`EveryRankIsTaken`, by counting), hence what is shown are
the newest in order (`NewestShows`) and an entry that is not shown was crowded out by as
many newer ones as fit (`CrowdedOut`). For the costs, the sum of a function is the
cardinality of its numbered copies (`SumCounts`), so that sums over disjoint parts and over
a bijection follow from cardinalities (`SumOfParts`, `SumOverBijection`). `RecordsInv` is
inductive: both logs are dated, all entries differ in time, and each session in the costs
that was not seeded has exactly one cost entry, with its total. The priced timeline then
is a bijection between those sessions and what is shown (`AllPricesAreShown`,
`PricesAddUp`).

**Repairs.** `Those`, which splits a list of violations, is a recursive function of the
list; that it returns those of the kinds asked for, each as often as the list has it
(`ThoseCount`), is an induction over its length. Each of the reflector's paths then
accounts for all (`LlmAccounts`, `HeuristicAccounts`), and so does the merge of two
(`RepairAccounts`), for lists of any length and any order.

**The neurosymbolic loop.** `Follow(q, p)` says that the pairs q hold p, add only
conclusions of rules, and are in every closed set that holds p. It is transitive, adding
a fact keeps it, and so do firing one rule, a round over all rules and the chain of rounds
(`FactAdds`, `FireFollows`, `RoundFollows`, `ChainFollows`), although a new fact may
replace an older one with the same pair. A round that derived nothing leaves a closed set
(`Closed`). Both together are `ReasonerInv`, and what is known then is the closure
(`KnownIsClosure`); a negated condition is evaluated like the others.

**The world model.** The program evaluates in Kahn's order, and the order is cached.
`KahnIsQueued` follows the rounds of the algorithm: what was taken from the queue comes
after its parents, and the queue holds exactly what is unlocked (`FirstRound`, `NextRound`).
Without a cycle it ends with every variable (`KahnIsComplete`: a set that never unlocks has
in each variable a parent in the set, thus a cycle), so that the order is topological
(`OrderIsTopological`). `WorldInv` says so of the cached order, which every new equation
discards. An evaluation in such an order solves every equation (`EvaluationSolves`);
abduction leaves the noise that reproduces the observation (`NoiseIsAbducted`); the
difference of two solutions is the weighted sum of the parents' differences
(`ContributionsDiffer`), which is Pearl's counterfactual (`PearlsCounterfactual`). The
sums are by choice of an element, and `SumLaw` says that the choice does not matter.

**Retrieval.** The place a sort gives a result is how many are ahead of it, those of its
own score that stood before it included (`PlacesFollowScores`); a list so sorted falls
(`ByScoreSorts`). `Best(results, doc, x)` says that a result of `doc` has the score x and
every other document a smaller one. Search, boost and cut keep it (`FoundIsBest`,
`VectorIsBest`: a boost is monotone, and only the policy's own domain is boosted), fusion
by rank turns it into a place (`FusedPlace`, `HybridPlace`), and the symbolic results that
rank ahead push it down by their number (`AugmentedHears`). `RagInv` supplies that vectors
which count as fresh are those of the documents as they are, and that every policy in
force which was ingested is in the index. The proof found a limit of the statement: search
asks for twice what it answers and takes every copy of a document, and the fusion ranks
a document by its last copy. A policy ingested so often that 32 copies fill the search
(more than 15 results are asked of `hybrid`, more than 7 of `augmented`, which asks it for
twice as many) falls behind the graph's first result. `Unbeaten` is that bound; the graph
asks for at most 5, the endpoint of `augmented` takes any number.

**The reports.** `ReportInv` only says that every request so far was one that the
endpoints take (`IsRequest`); the rest is about functions of one or two requests. Division
and a chain of thresholds are monotone (`DivisionRises`, `LevelRises`), so every score and
level built of them is (`FactorsRise`, `ReliabilityRises`, `QualityRises`,
`ComplianceRises`, `WorkflowRises`). The advice is the first of seven conditions that
applies (`AdviceIs`), and better evidence satisfies no earlier one. Of the risks, each that
is left maps to one that was there or to a graver one of its kind, one to one, so that
there are not more (`FewerRisks`). The high warnings of all personas are four
(`WarningsAre`), and of those the advice to proceed excludes three. The attempt to prove
that it excludes the fourth failed for a reason: between three quarters and four fifths of
passed tests the summary proceeds and the analyst is warned. That band is one of several:
`RecommendedAction` looks at the verdict, the confidence, the domain and the rate of tests,
and at nothing else. `Reservations` collects what every report says against acting
(warnings, risks, key insights and steps, the finding's significance, action items, the
reliability, the Guardian's override), and `Overlooked` names, with the condition of each,
those that may stand beside "proceed". `ProceedIsUnopposed` says that there are no others:
none of a low confidence, a rejection, a quarter of the tests failed, a volatile or a complex
domain. A low reliability beside a confidence of 85 needs another weakness
(`LowHasWeakness`). The proof also brought out conditions of `CASE` that overlap, which TLC tries
in order but the logic does not: here, in CSL's risk level and constraints and in the
mapping to `Oversight` these are `IF` now, as in the code.

Assumptions (all evaluated by TLC in a run): `GraphAssumption`, the Guardian's
`ThresholdsAssumption`, `LimitsAssumption`, `ReflectionLimitAssumption` and
`ProfileAssumption`, `BreakerAssumption`, `RateLimitAssumption`, `CacheAssumption` and
`DriftAssumption` give constants their types; the last also asks that the history holds
the baseline, and two detection windows but one, as 500 holds 100 and 99 in the code.
`ServiceAssumption` and `SessionAssumption` say the same of CSL's rules, edits, amounts
and rates. `FederationAssumption` and `BoardAssumption` say that
files and templates are finite sequences, and that a constraint names finitely many
keys. `StoresAssumption` gives the stores' sizes and levels their types,
`CorrectionsAssumption` says that enough corrections to retrain are enough for a
domain and for hints (10, 3 and 5 in the code) and that no domain is called "", and
`CausalAssumption` says that a proposal's graph names each variable and edge once, as
`CausalGraph` builds it. `RulesAssumption` says that rules, facts and extractions come in
lists, `WorldAssumption` that coefficients and observations are integers,
`RetrievalAssumption` that there are finitely many policies, none named like the sources
of graph and symbolic results, and that similarities are percentages, and
`RecordAssumption` that runs and seeded sessions are finitely many and differ, and that a
finding has a level and an amount, or an amount that is no number. `ReportAssumption`
says what a request may hold: percentages, counts, at least one test where any was run,
one of the five domains and of the three verdicts.

**Only model-checked** is what speaks of fairness and of steps that are enabled, which is out of
the provers' reach: `Terminates`, `EscalationReachesHuman`, `ClosesAgain`, `Settles`, and the
fairness of `Oversight`. Every other property of a passing run is stated by a theorem.

## 6. Where the code and its documents disagree

Five statements of the documents have a run of their own, and a finding in
`PROJECT.json`:

- `csl_fails_closed`: a CSL evaluation that fails closed denies without naming a
  violation, and the Guardian recomputes its verdict from the violations.
- `all_rules_evaluated`: a reload publishes the built-in policies before the federated
  ones, and a deletion shifts the list under the walk; a rule that stood all the time is
  skipped.
- `oracle_bounded`: fast-path predictions are labelled `causal`, so the rules for
  `chimera` predictions never apply.
- `survives_restarts`: `compact` truncates the only copy before it writes.
- `reopens_on_failure`: a late success while the breaker is open resets the count, and the
  failed probe leaves it half open.

Others met on the way are stated in the modules and violated as well; the name put into
a configuration of the module shows the trace.

| Property (module) | Statement | What the code does |
|---|---|---|
| `StrictModeNeverEscalates` (CarfGraph) | guardian.py: strict mode rejects, never escalates | a CSL violation recomputes the verdict without strict mode |
| `DisorderReturnsToRouter` (CarfGraph) | graph.py: Disorder → Human → Router | a clarification sets IDLE, and the run ends |
| `RiskFollowsClassification` (CarfGraph) | graph.py: risk is derived from domain and confidence | only the first pass derives it |
| `PartialRefutationIsAWarning` (CarfGraph) | causal_sensitivity.py: partial counts as warning | the Guardian makes it a violation |
| `DeletionByAdmin`, `MirrorsFile`, `FlatContextEvaluated` (CslSession) | the built-in gate's message; "mirrors cross_cutting.csl"; `guardian_evaluate` takes a flat context | approver not looked at; two rules differ from the file; the flat context is read as a session |
| `NamesUnique`, `McpLeavesPolicies`, `DocumentedRuleBites` (CslPolicies) | unique names; MCP cannot modify policies; `{"op", "value"}` constraints | `guardian_add_rule` appends unchecked; it modifies them; such a constraint always holds |
| `AllClashesDetected`, `RemovedIsGone`, `UnresolvedAreCurrent` (FederatedPolicies) | detection across all policies; removed is gone; feedback | file-born policies are never compared; a CSL load brings them back; conflicts outlive their policies |
| `DiskIsListed` (GovernanceBoards) | templates on disk are listed | the first list is built before they are read |
| `StoredIsMostRecent` (AsyncCache) | true LRU | a key that is present keeps its old place |
| `MalformedAreSkipped` (AgentMemory, `SplitCharacters = TRUE`) | malformed entries are skipped | an undecodable line ends the loading |
| `TrainedIsListed` (ChimeraOracle) | list all trained models | a model evicted or cleared is listed again only after a restart |
| `OriginalPreserved`, `RepairIsJudged`, `UnknownIsRepaired`, `AmountIsReduced` (SmartReflector) | original preserved; repaired action judged; unknown violations repaired; amount reduced | shallow copies; agents propose anew; the LLM repair cannot import its model; every number is scaled |
| `NoChangeChangesNothing`, `PartialObservationsStand`, `InitialConditionsMatter` (WorldModel) | cycles are handled gracefully; missing observations are predicted; a simulation starts from initial conditions | parents in a cycle, or unobserved, count as zero in one step of a counterfactual and not in the other; without a cycle every step recomputes every variable from nothing |
| `RunsComplete`, `StatusIsCurrent`, `RerunRefreshes` (Simulation) | results can be retrieved; current status; re-run refreshes | every scenario fails on a wrong call; an older run overwrites; the result goes under another id |

The models keep what the code does, also where no property is stated. What a reader of
the documents, or of one of two places in the code, would not expect:

- **Router.** The hint from the wording is only logged; the thresholds per domain and the
  entropy limits are never read; the class says its default threshold is 0.85, it is 0.70.
  Indicators of columns accumulate across domains, so the second one decides for its own.
  A hint that disagrees with an unsure model is applied with 0.88, one that agrees leaves
  the request to Disorder. A hint that names no domain still displaces the data's.
- **RAG.** Superseded and deleted versions of a policy stay in the index; the fusion gives
  a document that occurs twice its later rank and older content; graph and vector ids
  never meet; `augmented` sorts fused scores of one scale beside absolute ones of
  another; policies registered by a board's template are not ingested;
  `rag_context_node` passes a Cynefin domain where a business domain is expected.
- **Datasets.** An upload sent again after a lost answer is registered twice; a failed
  insert leaves its file; Postgres mode cannot work (a psycopg2 connection has no
  `execute`); the streaming and transparent endpoints ignore `dataset_selection`; the
  cockpit waits for `details.result`, the stream ends with `result`.
- **Causal engine.** Estimates are cached by configuration, so a changed file gives the
  old answer (the model allows any edition the file has had); failures surface as
  `RetryError`, not as the documented errors; a malformed `causal_estimation` hides
  `benchmark_data`; `run_sensitivity_analysis` reports simulated passes without DoWhy.
- **Causal graphs.** An edge remembers its first and its latest session only (the middle
  one of three sessions that saved it does not find it again), and its effect is the
  latest session's; edges to undeclared variables are dropped, unless some
  session saved that variable; a failed `connect` leaves the driver set.
- **Neurosymbolic.** `import_csl_rules` reads an attribute CSL rules do not have, so no
  rule of the policies arrives; the validation compares with `!=` also where a condition
  is `<=`, and `violations` stays empty.
- **Governance.** The boards' audit log is not part of the timeline; `save_triple`
  swallows what it meets, so `save_triples_batch` over-counts; path queries are invalid
  Cypher; an amount that is no number makes `compute_cost` raise after MAP has logged;
  `governance_node` reads the token usage before `run_carf` sets it.
- **Reports.** A rejected analysis may be offered as a pilot programme; a fail-closed
  rejection shows "All policy checks passed"; an unknown sample scores higher than a
  known one of 100; a confidence or sample of exactly zero silences its warning, but the
  action items still ask for more data; "Low risk … confidence is adequate" does not look at
  the confidence. "Evidence supports proceeding" looks at neither the significance nor the
  Bayesian uncertainty, the sample, the entropy or an escalation: beside it the summary's
  own finding may say "statistical significance is weak" (p of .10 and more), the steps
  "gathering more data" (.05 and more; between .05 and .10 the finding calls the same effect
  marginally significant), the insights "interpret with caution" (one test failed of any number), several domains or
  a small sample, the risks a high uncertainty or Disorder, and between .75 and .8 of
  passed tests an insight warns. `ProceedIsUnopposed`, with the list in `Overlooked`, and `Better` say
  precisely which agreements do hold (section 5).
- **Oracle.** When two processes train one scenario at once, the one that ends last leaves its
  model in the file even if it read older data, and after a restart (or in its own memory)
  that model answers where a newer one was announced as trained; plainly "never older than
  answered" is false, so `OlderOnlyByOverlap` names that exception and no other. Two writers
  of one file may leave it unreadable, and the scenario without a model after a restart.
- **Feedback.** Readiness counts only the domains that occur, lower-cases but does not
  strip; the hints strip; the script does neither and rejects contradictions, so "Ready"
  may precede an empty export (`ReadersAgree` is about corrections in order). The cockpit
  never sends an override, and says "saved locally" where nothing is saved.
- **Convergence.** A fall of at most 0.5 % an epoch is called a marginal improvement or a
  plateau; the epochs are lost at a restart.
- **Live log.** Records from threads without a loop are never broadcast; an evicted client
  stays open and hears nothing; a clean-up stops at the first connection that is already
  gone; a client is passed over when one before it leaves.

## 7. Not modelled, and why

`PROJECT.json` gives the reason for each component. In short:

- *Numerics* (DoWhy's estimation, PyMC's sampling, forests, KL, embeddings, data
  generators, the loader's quality scores) enter as choices of their results.
- *Text* (explanations, roadmaps, prompts, wording, audit records, exports and scaffolds of
  policies) has no behaviour of its own.
- *One statement per request* (history, configuration, health, Neo4j's read queries)
  leaves interleavings to the database.
- *Nothing reads it*: Kafka's audit and provenance records, telemetry, traces.
- *No caller*: the agent tracker's executions, the token counter, the CSL tool guard,
  `run_deep_analysis`, the recording of queries and steps in the developer view.
- *External*: csl-core's and OPA's evaluators, LLMs, SQLite's and Neo4j's transactions.

Single paths of modelled components that are left out:

- `search` answers nothing when its scoring raises (`rag_service.py`); it changes nothing, and
  `BestMatchIsHeard` is about searches that are answered.
- `_persist` makes the directory before its `try` (`agent_memory.py`): if that raises, the
  memory is kept but `store` does not trim. The directory is taken to exist.

Two earlier TLA+ sketches under `src/tla_specs` describe the intended graph and
escalation; `CarfGraph` is written from the code instead and differs where it does
(governance node, fast path, failures, the shape of the human loop).

## 8. Plan

Done, in this order: graph with Guardian and robustness; the refinement to
`Oversight`; CSL rules, sessions and edits; stores; reflector; federation and boards;
breaker and limiter; drift and simulation; the world model; proofs of the graph, breaker
and limiter; then retrieval, the experience ring, datasets, the causal engine with its
graphs, the neurosymbolic engine, the governance service and its graph, the reports, the
router's retraining, the live log and the router's configuration.

Proved since: the CSL evaluation and sessions; of the stores the router, the experience
ring, both caches, the oracle, the datasets, the live log, the agent's memory and
the router's retraining with the feedback it is made of; the
causal engine with its database; federated policies, boards and their graph; the rate
limiter's word and the drift detector; then the neurosymbolic loop, the world model, the
retrieval, the repairs, the dashboard and the reports, for which `Newest`, `Kahn`, `Those`, `ByScore`
and the sums were written as functions over positions, ranks and choices that the provers
can reason about, in the place of operators of the libraries.

Next: the loader's quality score and the schema detector, once something reads what they keep.
