SPECIFICATION StreamSpec
CONSTANTS
  Replies <- MCReplies
  TagStart <- MCTagStart
  TagEnd <- MCTagEnd
  MinChunk = 3
  Width = 2
  DrainAfter = 1
  HexDigits = 2
CHECK_DEADLOCK FALSE
INVARIANTS
  ShownInv
  CutAnywhere
