SPECIFICATION Spec
CONSTANTS
  B = 4
  W = 8
  OutBytes = 2
  OutLens = {0, 1, 2, 3}
  KeyBytes = 2
  Keys <- MCKeys
  Chunks <- MCChunks
  MaxBytes = 18
INVARIANTS
  TypeOK
  LastBlockHeld
  CounterExact
PROPERTY ImplementsStream
