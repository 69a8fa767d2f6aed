CONSTANTS
  Byte = {a, b}
  Capacity = 5
  SizeMod = 16
  NoByte = none
SPECIFICATION CharRing
INVARIANTS RingTypeOK SlotReserved
PROPERTIES RefinesFifo
