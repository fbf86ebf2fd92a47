SPECIFICATION Spec
CONSTANTS
  Digits = 2
  Keys = {49, 97, 70, 10}
  MaxTyped = 3
  Text <- MCText
  Tasks = {0, 1, 2}
  MaxSwitches = 4
  Cells <- MCCells
  Shapes <- MCShapes
  Frequencies = {7040, 10}
  MaxPortCalls = 4
  Firmware <- MCFirmware
  LoaderStacks = {0, 4, 1030, 32767}
  NameInputs <- MCNameInputs
  ListInputs <- MCListInputs
  VolumeInputs <- MCVolumeInputs
  MoveInputs <- MCMoveInputs
  StringInputs <- MCStringInputs
  FormatInputs <- MCFormatInputs
  NumberInputs <- MCNumberInputs
  PageInputs <- MCPageInputs
  DrawInputs <- MCDrawInputs
  PacketInputs <- MCPacketInputs
  CardInputs <- MCCardInputs
  WordInputs <- MCWordInputs
  StatusInputs <- MCStatusInputs
  UnitInputs <- MCUnitInputs
  First <- SmallFirst
  Count <- SmallCount
  Times <- SmallTimes
  Formats <- AllFormats
  QuietReads = 14
  CURRENT_YEAR = 2023
  MaxFiles = 2
  MaxDrives = 2
  BLOCK_SIZE = 2
  TableLen = 6
  Volumes <- SmallVolumes
  Names = {"a", "b"}
  Contents <- SmallContents
  Unset <- SomeUnset
  MaxCrashes = 1
INVARIANTS
  NamesKept
  ListsTheDirectory
  VolumeAsFormatted
  StringsWhole
  PrintsWhole
  PixelsInPlace
  PacketsVerify
  CodesInvert
  SerialLineWhole
  TasksKept
  EntrySafe
  PortsKept
  TimeDelivered
  StoreTypeOK
  ReadsFirstWritten
  ClustersOwned
PROPERTIES
  OutputDrains
  ReadEnds
  EntriesStay
  MarkedDataKept
CHECK_DEADLOCK FALSE
