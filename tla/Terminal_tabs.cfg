SPECIFICATION FairSpec
CONSTANTS
  v1 = v1
  Viewer = {v1, v2}
  v2 = v2
  MAX_BUFFERED_TERMINAL_MESSAGES = 2
  MaxOut = 2
  MaxSizes = 1
  MaxKills = 0
  MaxDrops = 0
  HalfOpen = FALSE
CHECK_DEADLOCK FALSE
INVARIANTS TerminalTypeOK OutputInOrder
PROPERTIES ExitedCollected EndIsSeen
