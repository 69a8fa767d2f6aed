CONSTANTS
  RingSize = 5
  MaxBytes = 12
  MaxStops = 2
SPECIFICATION Body
INVARIANTS WireIsFrame WrittenInOrder
PROPERTIES SenderFinishes
