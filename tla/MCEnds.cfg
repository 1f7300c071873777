CONSTANTS
  Tenant = {t1}
  Purpose = {p1}
  Credential = {c1, c2}
  Defaulted = {t1}
  List = {l1, l2, l3}
  Chosen = {}
  Index = {i1, i2}
  RollAt = 2
  Attempts = 1
  Slot = {s1, s2}
  MaxClock = 0
  None = None
SPECIFICATION Spec
PROPERTY EveryAllocationEnds
