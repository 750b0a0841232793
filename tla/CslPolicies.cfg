SPECIFICATION Spec
CONSTANTS
  Builtin <- MCBuiltin
  Federated <- MCFederated
  Contexts <- MCContexts
  NewRules <- MCNewRules
  Constraints <- MCConstraints
  FailClosed = TRUE
  MaxEdits = 2
INVARIANTS StandingRulesEnforced DenialsAreReal
CHECK_DEADLOCK FALSE
