\* Nova on programs of one to four functions; what it instruments is executed.
CONSTANTS
  Value <- MCValue
  Function <- MCFunction
  Null = "NULL"
  Programs <- MCPrograms
  MaxDepth = 5
  MaxFrames = 3
SPECIFICATION NovaSpec
INVARIANTS
  PassTypeOK
  TraversalsNest
  ScanIsBounded
  PointsToSound
  ScopeRaisesNoAlarm
  ScopeReadsAreChecked
PROPERTY
  PassEnds
CHECK_DEADLOCK FALSE
