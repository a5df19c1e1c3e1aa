SPECIFICATION VaultSpec
CONSTANTS
  Procs = {p1, p2}
  Nodes = {1, 2, 3}
  MaxStarts = 2
SYMMETRY Symmetry
CHECK_DEADLOCK FALSE
INVARIANTS
  DiskInv
  BackupHolds
  ActiveBranch
