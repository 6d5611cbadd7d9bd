CONSTANTS
  Load <- MCLoad
  Cpus <- MCCpus
  Bits <- MCBits
  MaxLines = 6
  IbsFetches <- MCIbsFetches
  IbsOps <- MCIbsOps
  IbsStale <- MCIbsStale
  MaxIbs = 2
  NrCounters = 4
  Available = {0, 1, 2}
  Filter = {7}
  TimerFs = TRUE
  MAX_UNIT_MASK = 8
SPECIFICATION Spec
INVARIANT MaskProgrammed
CHECK_DEADLOCK FALSE
