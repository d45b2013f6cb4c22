CONSTANTS
  PageEntries = 6
  DirEntries = 4
  FirstPage = 12
  FrameSets <- MCFrameSets
SPECIFICATION Spec
INVARIANTS
  FramesConserved
  IdentityKept
PROPERTIES
  CleanFailure
  FaultOnlyBeyondLowMemory
CHECK_DEADLOCK FALSE
