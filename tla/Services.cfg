SPECIFICATION ServicesSpec
CONSTANTS
  Callers = {a, b, c}
  FailureThreshold = 3
  RecoveryTimeout = 2
  Clients = {a, b}
  Limit = 2
  Window = 3
  MaxTime = 6
  None = None
  Scenarios = {s1, s2}
  Requests = {r1, r2}
  DriftDomains = {"clear", "chaotic"}
  BaselineWindow = 3
  DetectionWindow = 3
  MaxHistory = 9
  ShiftPercent = 10
  MaxAlerts = 2
  ViolationsListed = 2
  Sessions = {"s", "t"}
  Seeds = {"seed"}
  PolicyDomains = {"hr", "it"}
  Findings <- MCFindings
  NotANumber = 999
  TimelineLimit = 2
  MaxPolicyEvents = 3
INVARIANTS
  ClosedIsHealthy
  AtMostLimitPerWindow
  RetryAfterIsHonoured
  LastingShiftIsReported
  EveryViolationAccounted
  DashboardAgrees
PROPERTIES
  CallsHoldOff
  ClosesAgain
  Settles
CHECK_DEADLOCK FALSE
