SPECIFICATION ManagerSpec
CONSTANTS
  Goals = {g1, g2}
  Tasks = {t1, t2}
  Operators = {o1}
  Loop = loop
  None = none
  Asked = {"ready", "active", "completed", "failed"}
INVARIANTS
  LedgerInv
PROPERTIES
  PlansOnlyWhenDue
  WritesHold
  LedgerSettles
