SPECIFICATION Spec
CONSTANTS
  Domains = {"Clear", "Complicated", "Complex", "Chaotic", "Disorder"}
  Confidences = {40, 65, 90}
  Types = {"transfer", "delete_data", "halt", ""}
  Amounts = {0, 1, 2, 30, 60}
  Currencies = {"USD", "EUR", "XXX"}
  Roles = {"junior", "admin"}
  Risks = {"LOW"}
  Magnitudes = {0, 50, 300}
  Unbounded = FALSE
INVARIANTS UnknownMoneyStopped AllowedHasOversight NoWiderThanBudgetFile
CHECK_DEADLOCK FALSE
