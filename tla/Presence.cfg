SPECIFICATION FairSpec
CONSTANTS
  Clients = {c1, c2}
  Listeners = {l1, l2}
  Events = {e1, e2}
  Speak = {e1}
  Window = 1
  QueueMax = 1
  OutboxMax = 1
  SeenMax = 2
  Young = TRUE
  MaxLog = 4
  MaxChanges = 2
  MaxGhosts = 1
  None = none
  Waiting = waiting
INVARIANTS
  PresenceInv
  ReportsAlternate
PROPERTIES
  PresenceSettles
