CONSTANTS
  PMM_BLOCK_SIZE = 2
  PMM_BITS_PER_ENTRY = 8
  EntryBytes = 1
  AddressSpace = 256
  MemoryMaps <- MCMaps
  Priority = 10
  LowWords <- MCWords
  Image <- MCImage
  MaxBytes = 2
SPECIFICATION BootSpec
INVARIANTS
  KeyboardFound
  Handover
PROPERTIES
  BootEnds
CHECK_DEADLOCK FALSE
