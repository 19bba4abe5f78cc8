CONSTANTS
  Scenarios <- MCScenarios
  HashRange = 4

SPECIFICATION Spec

INVARIANTS
  Conserved
  RunAsserts
  WaitsForDependency
  InOrder
  EndsSettled
  RunsRepeat

PROPERTIES
  PortsAreLinks
  SendersAreTransports
