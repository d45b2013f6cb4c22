CONSTANTS
  Lines <- MCLines
  Drivers <- MCDrivers
  Exceptions <- MCExceptions
  MaxEvents = 4
  MaxDepth = 3
SPECIFICATION Spec
INVARIANTS
  ReturnsClean
  StopCause
PROPERTIES
  Served
CHECK_DEADLOCK FALSE
