\* Two clients that follow the trampoline's protocol, sharing the objects.
SPECIFICATION Spec
CONSTANTS
  Session = {s1, s2}
  Word = {0, 1}
  Events <- FewEvents
  ClientTypes <- MCClientTypes
  Capacity <- MCCapacity
  BufCost <- MCBufCost
  NodeCost = 1
  HeapSize = 3
  HashmapSize = 2
  StorageModes = {TRUE, FALSE}
  Disciplined = TRUE
  MaxCommands = 6
  NoValue = NoValue
SYMMETRY Symmetry
PROPERTY ImplementsLog
