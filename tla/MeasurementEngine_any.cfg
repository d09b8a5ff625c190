\* One client that calls the commands in any order, on storage that may fail.
SPECIFICATION Spec
CONSTANTS
  Session = {s1}
  Word = {0, 1}
  Events <- AllEvents
  ClientTypes <- MCClientTypes
  Capacity <- MCCapacity
  BufCost <- MCBufCost
  NodeCost = 1
  HeapSize = 5
  HashmapSize = 2
  StorageModes = {TRUE, FALSE}
  Disciplined = FALSE
  MaxCommands = 4
  NoValue = NoValue
INVARIANTS
  TypeOK
  BufferInBounds
  NoSilentAccept
PROPERTY PanicExplained
