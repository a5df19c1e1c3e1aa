SPECIFICATION Spec
CONSTANTS
  Callers = {c1, c2}
  N = 3
  Extra = 1
  Good = {2}
  Short = 1
  Long = 3
  Second = 2
  None = none
SYMMETRY Symmetry
INVARIANTS
  PoolInv
  GoodKeyServes
PROPERTIES
  LeasesHold
