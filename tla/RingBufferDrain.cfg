CONSTANTS
  Byte = {a, b}
  Capacity = 4
  SizeMod = 16
  NoByte = none
SPECIFICATION Ring
INVARIANTS SlotReserved
