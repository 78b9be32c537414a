SPECIFICATION Spec
CONSTANTS
  MaxEvents = 2
  ReadUnits = 2
  KeepUnits = 1
  MaxStream = 3
INVARIANTS
  LogExcerptIsTail
CHECK_DEADLOCK FALSE
