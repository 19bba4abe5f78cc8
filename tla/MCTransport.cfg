CONSTANTS
  packets_total = 3
  window_pkts = 2
  max_attempts = 3
  Paced = FALSE

SPECIFICATION Spec

INVARIANTS
  TypeOK
  WindowHolds
  OneTimer
  NoOrphan
  AckedDelivered
  CompleteMeansAll

PROPERTIES
  FailedIsSilent
  SlidesTheWindow

CHECK_DEADLOCK FALSE
