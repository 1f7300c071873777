CONSTANTS
  List = {l1}
  Index = {i1, i2}
  BeyondEnd = BeyondEnd
  Instance = {d1}
  Url = {u1}
  Server = {s1, s2}
  Request = {r1, r2, r3}
  Client = {}
  None = None
  r1 = r1
  s1 = s1
  s2 = s2
  Home <- MCHome
SYMMETRY MCSymmetry
SPECIFICATION Safety
CHECK_DEADLOCK FALSE
INVARIANTS
  TypeOK
  RowLockHolds
  VersionsHaveOneWriter
  NoLostFlip
  RedundantAnswerIsTrue
PROPERTY RequestsAreAtomic
