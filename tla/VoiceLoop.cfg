SPECIFICATION VoiceSpec
CONSTANTS
  MaxTurns = 2
  MaxPhrases = 2
  BargeIn = TRUE
  MinSpeech = 1
  PreRoll = 1
  Silence = 1
  MaxFrames = 2
CHECK_DEADLOCK FALSE
INVARIANTS
  PlayerInv
  OneConversation
PROPERTY
  TurnEnds
