SPECIFICATION StoresSpec
CONSTANTS
  Callers = {c1, c2, c3}
  Keys = {k1, k2, k3}
  MaxSize = 2
  TTL = 2
  MaxTime = 3
  MaxClears = 1
  MaxPosteriors = 2
  PosteriorTTL = 1
  MaxInferences = 6
  Engines = {api, mcp}
  MemorySize = 2
  MaxMemories = 5
  MaxMemoryFaults = 3
  MaxModels = 2
  MaxTrainings = 4
  Intercepts = {1}
  Weights = {2}
  Observables = {0, 1}
  Namespaces = {"a", "b"}
  Wordings <- MCWordings
  OnDisk <- MCOnDisk
  TopK = 1
  MaxDocuments = 4
  RingSize = 2
  MaxAdded = 5
  Users = {ann, bob}
  MaxRetries = 1
  MaxFailures = 2
  Queries = {"why", "how"}
  Contexts <- MCContexts
  Proposals <- MCProposals
  Reports <- MCReports
  Trials <- MCTrials
  MaxCached = 1
  MaxEditions = 1
  Askable <- MCAskable
  Rules <- MCRules
  GraphFacts <- MCGraphFacts
  Extractions <- MCExtractions
  Numbers = {0, 1, 2, 3}
  Substrings <- MCSubstrings
  MaxRounds = 3
  MaxIterations = 3
  ItemTypes = {"domain_override", "issue"}
  ItemLabels <- MCLabels
  ItemQueries = {"", "why", "late order"}
  KnownDomains = {"clear", "chaotic"}
  QueryWords <- MCWords
  ReadyTotal = 3
  PerDomain = 2
  HintTotal = 2
  TopWords = 1
  MaxItems = 3
  Accuracies = {0, 1, 2, 4}
  Epsilon = 2
  MaxPlateau = 3
  MaxEpochs = 6
  MaxConnections = 2
  MaxLogs = 2
  MaxRecords = 4
  MaxTasks = 3
  Thresholds = {20, 70, 90}
  Levels = {0, 20, 23, 60, 95}
  MaxUpdates = 1
SYMMETRY Symmetry
INVARIANTS
  OnlyInFlightSurvivesClear
  OnlyFaultsLose
  OlderOnlyByOverlap
  CounterfactualIsPearls
  EvidenceIsItsOwn
  BestMatchIsHeard
  OwnScores
  DerivesWhatFollows
  SelectedRowsAreAnalysed
  RetrainingIsInformed
  HintsKeepTheirPlace
  RecordsAreLostToLeavers
PROPERTIES LiveResultsStay ReportsAgree
CHECK_DEADLOCK FALSE
