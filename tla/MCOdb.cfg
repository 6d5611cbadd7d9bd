SPECIFICATION Spec
CONSTANTS
  Keys <- MCKeys
  Offsets <- One
  Mix <- MCMix
  DEFAULT_NODE_NR = 4
  MaxSize = 8
  MaxCount = 2
  ValueBits = 3
  LongBits = 4
  KillPoints <- CleanKillPoints
INVARIANTS
  IndInv
  ReaderSeesWritten
  ReportBounded
  OdbCheckHash
PROPERTIES
  CountsSpec
CHECK_DEADLOCK FALSE
