SPECIFICATION FairSpec
CONSTANTS
  Transcript <- Compacted
  CHUNK_THRESHOLD = 5
  CHUNK_BYTE_LIMIT = 6
  CHUNK_SIZE = 2
  MAX_MESSAGE_SIZE = 5
  MaxEmits = 1
  MaxMarks = 1
  MaxCuts = 1
  MaxDrops = 1
CHECK_DEADLOCK FALSE
INVARIANTS StreamTypeOK WholeSnapshots CleanMeansCovered
PROPERTIES ImplementsStore CatchesUp
