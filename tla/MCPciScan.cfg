CONSTANTS
  Buses = 3
  Slots = 2
  Funcs = 2
  StackDepth = 3
  Machines <- MCMachines
SPECIFICATION Spec
INVARIANTS
  ScanIsExact
  StackSuffices
PROPERTIES
  ScanEnds
CHECK_DEADLOCK FALSE
