SPECIFICATION Spec
CONSTANTS
  Builtin <- MCBuiltin
  Federated <- MCFederated
  Contexts <- MCContexts
  NewRules <- MCNewRules
  Constraints <- MCConstraints
  FailClosed = TRUE
  MaxEdits = 1
INVARIANT AllRulesEvaluated
CHECK_DEADLOCK FALSE
