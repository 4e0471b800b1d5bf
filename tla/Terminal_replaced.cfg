SPECIFICATION Spec
CONSTANTS
  v1 = v1
  Viewer = {v1}
  v2 = v2
  MAX_BUFFERED_TERMINAL_MESSAGES = 1
  MaxOut = 1
  MaxSizes = 1
  MaxKills = 0
  MaxDrops = 1
  HalfOpen = FALSE
CHECK_DEADLOCK FALSE
INVARIANT ReplacementKept
