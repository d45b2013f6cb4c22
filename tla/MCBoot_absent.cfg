CONSTANTS
  PMM_BLOCK_SIZE = 2
  PMM_BITS_PER_ENTRY = 8
  EntryBytes = 1
  AddressSpace = 256
  MemoryMaps <- MCSmall
  Priority = 10
  LowWords <- MCWord
  Image <- MCImage
  MaxBytes = 1
SPECIFICATION BootSpec
PROPERTY AbsentIsNoticed
CHECK_DEADLOCK FALSE
