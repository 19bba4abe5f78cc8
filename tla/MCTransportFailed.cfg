CONSTANTS
  packets_total = 2
  window_pkts = 1
  max_attempts = 2
  Paced = FALSE

SPECIFICATION Spec

INVARIANTS
  FailedNeverCompletes

CHECK_DEADLOCK FALSE
