SPECIFICATION FairSpec
CONSTANTS
  Turns = {u1}
  Server = {safe, risky}
  Risky = {risky, script}
  Experts = {expert}
  Remote = {script}
  Reach = {safe, risky, script}
  MaxIters = 3
  ExpertIters = 2
  MaxCalls = 2
  RecentN = 2
  MaxPast = 2
  MaxLate = 1
  None = none
CHECK_DEADLOCK FALSE
INVARIANTS
  LoopInv
  ApprovedOnly
  ConversationHolds
PROPERTIES
  NothingNewOnceGone
  TurnEnds
