SPECIFICATION MainSpec
CONSTANTS
  MaxSamples = 2
  MaxSignals = 1
  MaxDumps = 2
  DumpFileErrors = FALSE
INVARIANTS
  BufferStored
PROPERTIES
  DumpReturns
  KillEnds
CHECK_DEADLOCK FALSE
