SPECIFICATION Spec
CONSTANTS
  c1 = c1
  c2 = c2
  d1 = d1
  d2 = d2
  None = None
  Child = {c1}
  Slot = {d1}
  Traffic = FALSE
  MaxNew = 1
  MaxDrops = 2
  MaxFaults = 0
CHECK_DEADLOCK FALSE
PROPERTIES NoRelink
