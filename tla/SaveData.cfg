\* Two instances save two chunks each, on one object, with failing calls.
SPECIFICATION Spec
CONSTANTS
  Instance = {i1, i2}
  None = None
  ChunkLen = 1
  MaxSaves = 2
  MayFail = TRUE
INVARIANTS
  NoLeakedHandle
  NothingLostUnlessRefused
PROPERTY MatchesOutcomes
CHECK_DEADLOCK FALSE
