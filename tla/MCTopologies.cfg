CONSTANTS
  Arities = {2, 4}
  LeafSpines <- Tuples
  Blueprints <- Fabrics
  kUnreachable = 255

SPECIFICATION MCSpec

INVARIANTS
  PortsPaired
  LevelOrder
  TableRight
  NeverStrays
  HopsAsPromised
  PathsAsPromised
  RingCrossesPods
