CONSTANTS
  Time = {0, 1, 2}
  MaxPushes = 7

SPECIFICATION MCSpec

INVARIANTS
  TypeOK
  HeapOrdered
  NothingLost

PROPERTIES
  IsAgenda

CHECK_DEADLOCK FALSE
