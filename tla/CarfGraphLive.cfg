SPECIFICATION Spec
CONSTANTS
  None = None
  ConfidenceThresholds <- MCThresholds
  FinancialLimits <- MCLimits
  ReflectionLimit = 2
  AlwaysEscalate = {"delete_data"}
  MinEValue = 2
  RequireFull = FALSE
  Production = FALSE
  Levels = {97}
  EValues <- MCEValues
  RouterThreshold = 70
  MaxReflections = 2
  RecursionLimit = 25
  Configs <- MCOneConfig
  Queries <- MCOneQuery
  CslRules = {"high_risk_requires_approval"}
  CslEnabled = TRUE
  CslFailClosed = TRUE
  OpaEnabled = TRUE
  GovernanceEnabled = FALSE
  HumanClient = TRUE
PROPERTIES
  Terminates
  EscalationReachesHuman
  KeepsPromise
\* A run of the graph ends.
CHECK_DEADLOCK FALSE
