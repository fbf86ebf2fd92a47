SPECIFICATION Spec
CONSTANTS
  VGA_WIDTH = 5
  VGA_HEIGHT = 4
  BufLen = 4
  WordSize = 16
  UserLen = 1
  HostLen = 1
  Deco = 1
  NullLen = 2
  Margin = 2
  UnOffset = 1
  TextLens = {6}
  MaxEvents = 4
  Keys <- AllKeys
INVARIANTS
  IndexInBuffer
