SPECIFICATION FairSpec
CONSTANTS
  KernelSfiles = {"k"}
  OtherSfiles = {"a", "b"}
  MaxFds = 3
  MaxEntries = 2
  LRU_AMOUNT = 2
INVARIANTS
  LruComplete
  InUseLive
PROPERTIES
  OpenEnds
CHECK_DEADLOCK FALSE
