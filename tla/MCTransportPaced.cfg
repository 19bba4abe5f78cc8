CONSTANTS
  packets_total = 3
  window_pkts = 2
  max_attempts = 2
  Paced = TRUE

SPECIFICATION FairSpec

INVARIANTS
  RingSound
  OneInject
  NoStall

PROPERTIES
  FlowSettles

CHECK_DEADLOCK FALSE
