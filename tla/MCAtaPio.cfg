SPECIFICATION FairSpec
CONSTANTS
  PartStart = 1
  PartLength = 2
  DiskEnd = 4
  WordSize = 16
  MaxBlocks = 2
  PollLimit = 3
  Requests <- SmallRequests
  Failing = {"read"}
  Drops = FALSE
  MaxCalls = 4
  MaxErrors = 1
  MaxCrashes = 1
INVARIANTS
  ZeroMeansDone
PROPERTIES
  StaysInPartition
  ImplementsDevice
  CallsEnd
