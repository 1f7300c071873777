CONSTANTS
  Request = {r1, r2}
  List = {l1, l2}
  PoolSizes = {1, 2}
  None = None
  Instance = {d1, d2}
  Id = {default}
  Key = {k1, k2}
  IdOf <- MCIdOf
  KeyOf <- MCKeyOf
  InstanceOf <- MCInstanceOf
  Nobody = Nobody
  l1 = l1
  d1 = d1
  d2 = d2
  k1 = k1
  k2 = k2
  default = default
SPECIFICATION Spec
INVARIANTS
  TypeOK
  NothingLeaks
  WaitsEnd
  SignedByOwnKey
PROPERTIES
  FailureIsShared
  EveryRequestAnswered
