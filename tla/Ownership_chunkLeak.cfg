SPECIFICATION Spec
CONSTANTS
  s1 = s1
  s2 = s2
  s3 = s3
  n1 = n1
  n2 = n2
  u1 = u1
  u2 = u2
  None = None
  Sock = {s1, s2}
  Node = {n1}
  NodeOf <- OneNode
  UserOf <- OneUser
  Ephemeral = TRUE
  LeaseMayLapse = FALSE
  SweepsOn = TRUE
  MaxEvents = 1
  MaxCrashes = 0
  MaxFaults = 0
CHECK_DEADLOCK FALSE
INVARIANTS NoChunkLeak
