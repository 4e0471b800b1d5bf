\* TerminalInv, on which the proofs rest, on a small instance.
SPECIFICATION Spec
CONSTANTS
  Viewer = {v1}
  MAX_BUFFERED_TERMINAL_MESSAGES = 1
  MaxOut = 1
  MaxSizes = 2
  MaxKills = 0
  MaxDrops = 1
  HalfOpen = TRUE
CHECK_DEADLOCK FALSE
INVARIANTS TerminalInv
