SPECIFICATION FairSpec
CONSTANTS
  MaxTurns = 2
  MaxAsks = 1
  MaxNews = 1
  MaxUpsets = 2
  MAX_CANCELLATION_RETRIES = 2
CHECK_DEADLOCK FALSE
INVARIANTS TriggerTypeOK OnceEach FiredIsRelayed
PROPERTIES CompletionReaches WaitsEnd
