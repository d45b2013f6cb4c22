CONSTANTS
  PMM_BLOCK_SIZE = 2
  PMM_BITS_PER_ENTRY = 2
  EntryBytes = 1
  AddressSpace = 32
  MemoryMaps <- MCMaps
SPECIFICATION Spec
INVARIANTS
  TypeOK
  Ownership
  FreeCountSkew
  OwnedIsUsable
  InitStaysInBitmap
PROPERTIES
  NullMeansFull
