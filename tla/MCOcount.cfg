CONSTANTS
  CpuDescrs <- MCCpuDescrs
  Numerals <- MCNumerals
  Cpus = {0, 1, 2}
  Tasks = {101, 102}
  Hosts <- MCHosts
  Starts <- MCStarts
  ThreadsOf <- MCThreadsOf
  Foreign = {101}
  NrEvents = 2
  PerTick = 10
  PerSec = 2
  U32 = 16
  MaxCount = 2
  MaxOutputs = 3
SPECIFICATION Spec
INVARIANTS IntervalsAddUp AppNotLeft CpusCounted
PROPERTY OcountEnds
CHECK_DEADLOCK FALSE
