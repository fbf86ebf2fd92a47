SPECIFICATION Spec
CONSTANTS
  a = a
  b = b
  s = s
  NoName = NoName
  Root = 2
  BufClusters = 4
  WordSize = 1024
  HalfWord = 64
  TotalClusters = 13
  DataEnd = 11
  SPC = 1
  SlotsPerSector = 2
  EntriesPerSlot = 2
  TableLen = 24
  LowKept = 8
  Volumes <- SmallVolumes
  Names = {a, b, s}
  DirPaths <- RootAndSub
  BadNames = {}
  ShortNames = {}
  Sizes = {1}
  Offsets = {}
  MaxCalls = 3
  MaxFaults = 1
  MaxCrashes = 0
PROPERTIES
  ChainsOnlyGrowAlways
