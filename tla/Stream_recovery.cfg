SPECIFICATION FairSpec
CONSTANTS
  Transcript <- Compacted
  CHUNK_THRESHOLD = 5
  CHUNK_BYTE_LIMIT = 6
  CHUNK_SIZE = 2
  MAX_MESSAGE_SIZE = 5
  MaxEmits = 1
  MaxMarks = 1
  MaxCuts = 0
  MaxDrops = 0
CHECK_DEADLOCK FALSE
PROPERTIES RecoveryIsRedundant
\* FramesFit, as INVARIANT, is violated here too.
