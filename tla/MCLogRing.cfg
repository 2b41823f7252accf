SPECIFICATION Spec
CONSTANTS
  Writers = {w1, w2}
  Handler = h
  Size = 16
  MaxEntry = 4
  FramHalf = 8
  OffMod = 32
  DebugBuild = TRUE
  MaxCalls = 7
  FatalAt = {2, 7}
  MaxOverlaps = 1
SYMMETRY Symmetry
INVARIANTS
  RingBounded
  EntriesIntact
  MessagesInBuffer
  NoCallFails
  DumpMovesOn
  ChainReachesHead
  CleanDumpIsNewest
CHECK_DEADLOCK FALSE
