SPECIFICATION Spec
CONSTANTS
  Pids = {1, 2, 3}
  app_PID = 0
  AllStarts = {10, 20}
  Matching <- MCMatching
  Length <- MCLength
  Ids = {7, 8, 9}
  NoUser = {2}
  EventOf <- MCEventOf
  Kernels <- MCKernels
  Exes = {"gone", "exe"}
  Mapped <- MCMapped
  Samples <- MCSamples
  MaxForks = 2
  MaxComms = 1
  MaxMaps = 2
  MaxSamples = 2
  MaxThrottles = 1
  MaxRecords = 4
INVARIANTS
  Attribution
  SamplesAccounted
  Inherited
CHECK_DEADLOCK FALSE
