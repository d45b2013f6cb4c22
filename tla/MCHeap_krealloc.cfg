CONSTANTS
  PageEntries = 6
  DirEntries = 3
  FirstPage = 12
  PAGE_SIZE = 12
  HeaderSize = 2
  HEAP_ALIGNMENT = 2
  HEAP_EXPAND_SIZE = 24
  MaxHeld = 3
  FrameSets <- MCOneSet
  DirtySets <- MCClean
  Requests <- MCGrowing
SPECIFICATION Spec
INVARIANTS
  LockReleased
CHECK_DEADLOCK FALSE
