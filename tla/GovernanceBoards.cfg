SPECIFICATION BoardSpec
CONSTANTS
  FileVersions <- MCFileVersions
  NewPolicies <- MCNewPolicies
  Builtin <- MCBuiltin
  OnDisk <- MCOnDisk
  Mentions <- MCMentions
  MaxEdits = 3
  MaxLoads = 1
  MaxBoards = 1
INVARIANTS ClashesOnRecord OrderIsIrrelevant GraphIsWhole
CHECK_DEADLOCK FALSE
