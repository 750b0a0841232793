SPECIFICATION Spec
CONSTANTS
  Callers = {a, b}
  FailureThreshold = 2
  RecoveryTimeout = 2
PROPERTY ReopensOnFailure

