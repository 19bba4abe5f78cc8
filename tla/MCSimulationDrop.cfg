CONSTANTS
  Scenarios <- MCScenarios
  HashRange = 4

SPECIFICATION Spec

INVARIANTS
  DropIsFinal
