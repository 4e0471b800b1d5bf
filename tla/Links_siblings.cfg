SPECIFICATION FairSpec
CONSTANTS
  c1 = c1
  c2 = c2
  d1 = d1
  d2 = d2
  None = None
  Child = {c1, c2}
  Slot = {d1}
  Traffic = FALSE
  MaxNew = 1
  MaxDrops = 0
  MaxFaults = 1
CHECK_DEADLOCK FALSE
PROPERTIES DelinkSettles
