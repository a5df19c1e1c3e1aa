SPECIFICATION Spec
CONSTANTS
  Applies = {a1, a2}
  Rollbacks = {b1}
  Branches = {branch}
  MaxRev = 2
  None = none
SYMMETRY Symmetry
INVARIANTS
  RepoInv
  MergesAreGuarded
PROPERTIES
  KeepsLog
