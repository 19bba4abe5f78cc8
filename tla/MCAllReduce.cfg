CONSTANTS
  Rings = {2, 3, 4}

SPECIFICATION Spec

INVARIANTS
  Reduced
  StableWhileSent
