CONSTANTS
  Tenant = {t1, t2}
  Purpose = {p1, p2}
  Credential = {c1}
  List = {l1}
  Index = {i1}
  Slot = {s1, s2}
  Verifier = {v1}
  MaxVersion = 3
  None = None
SYMMETRY MCSymmetry
SPECIFICATION Spec
INVARIANTS
  TypeOK
  FreshAfterAnswer
  StrandedOnlyByLoss
PROPERTY KeepsTheLedger
