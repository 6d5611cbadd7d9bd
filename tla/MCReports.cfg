CONSTANTS
  Sfiles <- MCSfiles
  Events <- MCEvents
  Modes <- MCModes
  SamplesDir <- MCSamplesDir
  Merges <- MCMerges
  JitFiles <- MCJitFiles
  MaxFiles = 2
  Loads <- MCLoads
  MaxLoads = 3
  MaxTime = 3
  StartTime = 2
  LineTables <- MCLineTables
  MaxTables = 3
  UINT = 65536
  ULONG = 65536
  Binaries <- MCBinaries
  Keys = {3, 4, 8, 10, 11, 13, 14}
  MaxSamples = 3
  Lines <- MCLines
  Arcs <- MCArcs
  Parts <- MCParts
  SourceLength = 2
  Specs <- MCSpecs
  Store <- MCStore
  ImagePaths <- MCImagePaths
  Real <- MCReal
  DebugFiles <- MCDebugFiles
  Outdirs <- MCOutdirs
  PageGap = 2
  ULL = 16
  U16 = 4
SPECIFICATION Spec
INVARIANTS FilesArranged SpecsMatch ElfRight SamplesKept ReportsAgree Annotated
CHECK_DEADLOCK FALSE
