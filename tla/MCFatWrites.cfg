SPECIFICATION FairSpec
CONSTANTS
  a = a
  b = b
  s = s
  NoName = NoName
  Root = 2
  BufClusters = 4
  WordSize = 1024
  HalfWord = 64
  TotalClusters = 13
  DataEnd = 11
  SPC = 1
  SlotsPerSector = 2
  EntriesPerSlot = 2
  TableLen = 24
  LowKept = 8
  Volumes <- SmallVolumes
  Names = {a, b, s}
  DirPaths <- RootAndSub
  BadNames = {s}
  ShortNames = {b}
  Sizes = {0, 1, 2, 4}
  Offsets = {}
  MaxCalls = 2
  MaxFaults = 1
  MaxCrashes = 1
INVARIANTS
  TypeOK
  ChainsWellFormed
  EntriesOwnUntilCut
  ShortFilesKept
PROPERTIES
  ChainsOnlyGrow
  WrittenFilesStay
  CallsReturn
