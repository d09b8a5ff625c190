\* A signed less-than before an equality.
SPECIFICATION Verification
CONSTANTS
  Programs <- MixedPrograms
  MaxHints = 5
  MaxEdges = 12
INVARIANT ReplayFollows
CHECK_DEADLOCK FALSE
