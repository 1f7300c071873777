CONSTANTS
  Tenant = {t1, t2}
  Purpose = {p1, p2}
  Credential = {c1}
  Defaulted = {t1}
  List = {l1, l2}
  Chosen = {l1}
  Index = {i1, i2}
  RollAt = 1
  Attempts = 2
  Slot = {s1, s2}
  MaxClock = 1
  None = None
SYMMETRY MCSymmetry
SPECIFICATION Safety
INVARIANTS
  TypeOK
  AllocationMatchesList
PROPERTY EntriesAreForLife
