SPECIFICATION Spec
CONSTANTS
  MaxEntries = 2
  SplitCharacters = FALSE
  MaxMemories = 5
  MaxFaults = 2
INVARIANTS SurvivesRestarts
