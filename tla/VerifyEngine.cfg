\* Programs whose conditions are compiled in forms the engine can tell apart.
SPECIFICATION Verification
CONSTANTS
  Programs <- SafePrograms
  MaxHints = 5
  MaxEdges = 12
INVARIANTS
  TypeOK
  ReplayFollows
  CrashMeansKilled
PROPERTY ReplayEnds
CHECK_DEADLOCK FALSE
