SPECIFICATION Spec
CONSTANTS
  c1 = c1
  c2 = c2
  d1 = d1
  d2 = d2
  None = None
  Child = {c1}
  Slot = {d1, d2}
  Traffic = TRUE
  MaxNew = 2
  MaxDrops = 1
  MaxFaults = 0
CHECK_DEADLOCK FALSE
INVARIANTS LinksTypeOK SeveredStays LinksInv
