CONSTANTS
  List = {l1}
  Index = {i1}
  BeyondEnd = BeyondEnd
  Instance = {d1, d2}
  Url = {u1, u2}
  Server = {s1}
  Request = {r1, r2}
  Client = {c1, c2}
  None = None
  r1 = r1
  s1 = s1
  s2 = s2
  Home <- MCHome
SPECIFICATION Spec
CHECK_DEADLOCK FALSE
INVARIANTS
  CredentialPublishesBits
  VersionNamesCredential
PROPERTY EveryRequestEnds
