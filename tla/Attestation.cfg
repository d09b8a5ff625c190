\* A program with one thread; the parameter types of the two sides agree.
SPECIFICATION System
CONSTANTS
  Thread = {main}
  Main = main
  Half = 2
  Session = {s1, s2}
  Events <- MCEvents
  None = None
  Capacity <- MCCapacity
  BufCost <- MCBufCost
  NodeCost = 1
  HeapSize = 3
  HashmapSize = 2
  StorageModes = {FALSE}
  MaxCommands = 4
  NoValue = NoValue
  Aligned = TRUE
  Reg <- MCReg
  Word <- MCWord
  Site <- MCSite
  Contents <- MCContents
  Leftovers <- MCLeftovers
INVARIANTS
  TypeOK
  EventsAsSent
  HintsAreTheTrace
  RegistersKept
  TransfersAttested
PROPERTIES
  DisciplinedClients
  ExitExplained
  CrashExplained
