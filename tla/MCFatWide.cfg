SPECIFICATION Spec
CONSTANTS
  a = a
  b = b
  s = s
  NoName = NoName
  Root = 2
  BufClusters = 4
  WordSize = 1024
  HalfWord = 64
  TotalClusters = 8
  DataEnd = 7
  SPC = 2
  SlotsPerSector = 2
  EntriesPerSlot = 4
  TableLen = 16
  LowKept = 16
  Volumes <- WideVolumes
  Names = {a, b, s}
  DirPaths <- RootAndSub
  BadNames = {s}
  ShortNames = {}
  Sizes = {0, 1, 3, 4}
  Offsets = {0, 1, 2, 3, 4}
  MaxCalls = 3
  MaxFaults = 1
  MaxCrashes = 1
INVARIANTS
  GetFileDelivers
  StaysInBuffer
PROPERTIES
  LaterSectorsKept
