CONSTANTS
  Packet = {a, b}
  Blank = Blank
  capacity = 3
  MaxOffers = 7

SPECIFICATION MCSpec

INVARIANTS
  TypeOK
  OneServer

PROPERTIES
  IsDropTailLink

CHECK_DEADLOCK FALSE
