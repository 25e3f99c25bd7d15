SPECIFICATION VmmSpec
CONSTANTS
  BLOCK_SIZE = 2
  BYTE_BITS = 8
  Blocks <- MCBlocks
  Memmaps <- MCMemmaps
  OldMemory <- MCOldMemory
  NULL = NULL
  RADIX = 4
  HhdmOffsets <- MCHhdmOffsets
  KernelAddresses <- MCKernelAddresses
  Sections <- MCSections
  IdentityTop = 26
  lapic_addr = 14
  ClientPages <- MCClientPages
  OldTables <- MCOldTables
INVARIANTS
  VmmTypeOK
  TablesAreATree
  BlocksAccountedFor
  BitmapStaysReachable
  TablesStayReachable
  KernelStaysMapped
PROPERTIES
  UsesPmmProperly
  ImplementsAddressSpace
