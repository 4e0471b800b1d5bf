SPECIFICATION Spec
CONSTANTS
  EVENT_BUFFER = 1
  HYDRATION_MAX_RETRIES = 1
  MaxMsg = 1
  MaxTicks = 1
  MaxFaults = 1
INVARIANTS ViewerInv HoleInv
CHECK_DEADLOCK FALSE
