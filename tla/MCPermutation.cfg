CONSTANTS
  N = 6
  Word = 32

SPECIFICATION Spec

INVARIANTS
  OneCycle
