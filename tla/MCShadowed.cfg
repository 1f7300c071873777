CONSTANTS
  Tenant = {t1, t2}
  Cli = {c1, c2}
  Domain = {d1}
  Host <- MCHost
  Slug = {s1, s2}
  File = {f1}
  Database = {}
  InMemory = InMemory
  Unset = Unset
  NoSlug = NoSlug
  None = None
  Refused = Refused
  RefusedConfig = RefusedConfig
  Missing = Missing
  Down = Down
  MaxBlocks = 0
  MaxLists = 0
  Environments <- MCEnvironments
  d1 = d1
  own = own
  f1 = f1
SPECIFICATION Spec
INVARIANT
  LatestBlockShadows
