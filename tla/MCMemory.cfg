CONSTANTS
  List = {l1}
  Index = {i1}
  BeyondEnd = BeyondEnd
  Instance = {d1}
  Url = {u1}
  Server = {s1}
  Request = {r1, r2, r3}
  Claim = {c1, c2}
  Client = {k1}
  MaxLives = 2
  None = None
SPECIFICATION Spec
CHECK_DEADLOCK FALSE
INVARIANTS
  TypeOK
  WritersTakeTurns
  QueuesAreDropped
  EntriesAgree
  VersionNamesCredential
PROPERTIES
  UpdatesAreAtomic
  EveryUpdateSettles
