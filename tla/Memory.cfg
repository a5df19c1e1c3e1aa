SPECIFICATION MemorySpec
CONSTANTS
  Callers = {c1, c2}
  Texts = {plain, secret}
  Secrets = {secret}
  PageSize = 1
  MaxMemories = 3
  MaxStarts = 2
  MaxForgets = 1
  K = 2
  Fanout = 2
  Floor = 2
  Similarities <- MCSimilarities
  Sizes = {1, 3}
  Room = 2
SYMMETRY Symmetry
CHECK_DEADLOCK FALSE
INVARIANTS
  MemoryInv
  ExportComplete
  AnswerIsRanked
