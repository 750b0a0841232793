SPECIFICATION Spec
CONSTANTS
  Domains = {"Clear", "Complicated", "Complex", "Chaotic", "Disorder"}
  Confidences = {40, 90}
  Types = {"transfer", "delete_data", "halt", ""}
  Amounts = {0, 2}
  Currencies = {"USD"}
  Roles = {"junior", "admin"}
  Risks = {"LOW"}
  Magnitudes = {0, 50, 300}
  Unbounded = TRUE
INVARIANT OracleBounded
CHECK_DEADLOCK FALSE
