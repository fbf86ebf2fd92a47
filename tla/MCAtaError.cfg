\* The drive may fail to write a sector.
SPECIFICATION Spec
CONSTANTS
  PartStart = 1
  PartLength = 2
  DiskEnd = 4
  WordSize = 16
  MaxBlocks = 2
  PollLimit = 2
  Requests <- SmallRequests
  Failing = {"write"}
  Drops = FALSE
  MaxCalls = 2
  MaxErrors = 1
  MaxCrashes = 0
INVARIANTS
  ZeroMeansDone
