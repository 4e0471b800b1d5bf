SPECIFICATION Spec
CONSTANTS
  EVENT_BUFFER = 2
  HYDRATION_MAX_RETRIES = 1
  MaxMsg = 1
  MaxTicks = 0
  MaxFaults = 1
CHECK_DEADLOCK FALSE
INVARIANTS ResumeIsComplete
