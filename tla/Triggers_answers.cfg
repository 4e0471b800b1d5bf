SPECIFICATION Spec
CONSTANTS
  MaxTurns = 1
  MaxAsks = 1
  MaxNews = 0
  MaxUpsets = 1
  MAX_CANCELLATION_RETRIES = 2
CHECK_DEADLOCK FALSE
INVARIANTS AnsweredIsAnswered
