SPECIFICATION FairSpec
CONSTANTS
  Agents = {a1, a2}
  Watchers = {w1}
  Capacity = 1
  MaxIters = 2
  None = none
CHECK_DEADLOCK FALSE
INVARIANTS
  AgentsInv
  CancelSticks
PROPERTIES
  AgentsSettle
