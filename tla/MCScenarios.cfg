CONSTANTS
  Scenarios <- MCSims
  Claims <- MCClaims
  HashRange = 16

SPECIFICATION Spec

INVARIANTS
  ClosedForms
  TimeoutMeansLoss
  NearestRank
