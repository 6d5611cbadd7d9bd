SPECIFICATION Spec
CONSTANTS
  Modes = {"app", "pid", "all"}
  Tgid <- MCTgid
  PidToProfile = 1
  NumCpus = 2
  NumEvents = 2
  CpuMinusOne = {TRUE, FALSE}
  ToFile = {TRUE, FALSE}
  RingSize = 4
  PipeSize = 3
  MmapWindow = 4
  PageSize = 2
  Sizes = {2, 3}
  MaxRecords = 2
INVARIANTS
  RecordsDelivered
  EventKnown
PROPERTY
  ReaderEnds
CHECK_DEADLOCK FALSE
