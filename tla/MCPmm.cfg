SPECIFICATION PmmSpec
CONSTANTS
  BLOCK_SIZE = 2
  BYTE_BITS = 2
  Blocks <- MCBlocks
  Memmaps <- MCMemmaps
  OldMemory <- MCOldMemory
  NULL = NULL
INVARIANTS
  PmmTypeOK
  HandedOutIsUsable
  BitmapNotHandedOut
  NothingLost
PROPERTY ImplementsBlockPool
