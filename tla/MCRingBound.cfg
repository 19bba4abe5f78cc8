CONSTANTS
  Scenarios <- MixedSims
  Claims <- MixedClaims
  HashRange = 16

SPECIFICATION Spec

INVARIANTS
  RingBound
