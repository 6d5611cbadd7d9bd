SPECIFICATION Spec
CONSTANTS
  MaxRecords = 2
  PipeSize = 1
  MaxInterrupts = 1
  Lazy = {TRUE, FALSE}
INVARIANTS
  AllConverted
  OldDataKept
PROPERTIES
  OperfEnds
  AppReleased
CHECK_DEADLOCK FALSE
