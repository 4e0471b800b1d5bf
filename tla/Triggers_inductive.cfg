SPECIFICATION Spec
CONSTANTS
  MaxTurns = 1
  MaxAsks = 1
  MaxNews = 2
  MaxUpsets = 3
  MAX_CANCELLATION_RETRIES = 2
CHECK_DEADLOCK FALSE
INVARIANTS FirstConversation SecondConversation DelinkIsLast OnceInv FiredIsRelayed
