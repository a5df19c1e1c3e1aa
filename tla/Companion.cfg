SPECIFICATION Spec
CONSTANTS
  Procs = {p1, p2}
  People = {ann, bob}
  MaxProfiles = 3
  MaxStarts = 3
  MaxTracked = 1
SYMMETRY Symmetry
CHECK_DEADLOCK FALSE
INVARIANTS
  CompanionInv
  GoneForGood
  
