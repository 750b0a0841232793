SPECIFICATION Spec
CONSTANTS
  None = None
  ConfidenceThresholds <- MCThresholds
  FinancialLimits <- MCLimits
  ReflectionLimit = 3
  AlwaysEscalate = {"delete_data"}
  MinEValue = 2
  RequireFull = FALSE
  Production = FALSE
  Levels <- MCLevels
  EValues <- MCEValues
  RouterThreshold = 70
  MaxReflections = 2
  RecursionLimit = 25
  Configs <- MCConfigs
  Queries <- MCQueries
  CslRules = {"high_risk_requires_approval"}
  CslEnabled = TRUE
  CslFailClosed = TRUE
  OpaEnabled = TRUE
  GovernanceEnabled = TRUE
  HumanClient = FALSE
INVARIANTS
  TypeOK
  ReleasedCleanly
  ReleasedClaimsAreRobust
  FastPathSeenByHuman
  ReflectsWithinBudget
  WithinRecursionLimit
\* A run of the graph ends.
CHECK_DEADLOCK FALSE
