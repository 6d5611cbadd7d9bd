SPECIFICATION Spec
CONSTANTS
  PageGap = 2
  ULL = 1024
  Threads = {t1, t2}
  Loads <- MCLoads
  start_time = 2
  MaxTime = 2
  MaxRecords = 2
  MaxRuns = 1
INVARIANT
  RecordsWhole
PROPERTIES
  SuccessMeansConverted
  ConversionEnds
CHECK_DEADLOCK FALSE
