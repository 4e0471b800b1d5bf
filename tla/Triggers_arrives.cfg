SPECIFICATION FairSpec
CONSTANTS
  MaxTurns = 1
  MaxAsks = 0
  MaxNews = 0
  MaxUpsets = 1
  MAX_CANCELLATION_RETRIES = 2
CHECK_DEADLOCK FALSE
PROPERTIES CompletionArrives
