SPECIFICATION Spec
CONSTANTS
  Session = {s1}
  Word = {0, 1}
  Events <- AllEvents
  ClientTypes <- MCClientTypes
  Capacity <- MCCapacity
  BufCost <- MCBufCost
  NodeCost = 1
  HeapSize = 9
  HashmapSize = 2
  StorageModes = {TRUE}
  Disciplined = TRUE
  MaxCommands = 6
  NoValue = NoValue
PROPERTY RecordedSurvives
