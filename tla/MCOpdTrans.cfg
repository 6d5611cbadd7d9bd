SPECIFICATION Spec
CONSTANTS
  Load <- Loads
  Events = {0}
  VmlinuxRange <- VmlinuxAt5
  XenRange <- XenAt7
  MaxRegions = 2
  Ignored = {}
  LRU_SIZE = 3
  LRU_AMOUNT = 0
  MaxSfiles = 2
INVARIANTS
  Attribution
  NoDangling
PROPERTIES
  ArcConsecutive
CHECK_DEADLOCK FALSE
