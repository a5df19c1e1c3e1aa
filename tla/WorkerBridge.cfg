CONSTANTS
  None = none
  Commands = {c1, c2}
  Workers = {w1, w2}
  Streaming = {c1}
  Mortal = {w2}
  Budget = 1
  Slack = 0
  MaxGhosts = 1
  Prompt = FALSE
SPECIFICATION LoopSpec
INVARIANTS
  BridgeInv
PROPERTIES
  KeepsPromise
  NarratedWhileOpen
  BridgeSettles
