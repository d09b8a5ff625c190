\* A callback thread reports events next to the main thread, as in the light controller.
SPECIFICATION System
CONSTANTS
  Thread = {main, callback}
  Main = main
  Half = 2
  Session = {s1, s2}
  Events <- TwoEvents
  None = None
  Capacity <- MCCapacity
  BufCost <- MCBufCost
  NodeCost = 1
  HeapSize = 3
  HashmapSize = 2
  StorageModes = {FALSE}
  MaxCommands = 4
  NoValue = NoValue
  Aligned = TRUE
  Reg <- MCReg
  Word <- MCWord
  Site <- NoSites
  Contents <- MCContents
  Leftovers <- MCLeftovers
INVARIANT EventsAsSent
