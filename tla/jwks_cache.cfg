SPECIFICATION FairSpec
CONSTANTS
  r1 = r1
  r2 = r2
  u1 = u1
  u2 = u2
  u3 = u3
  k1 = k1
  k2 = k2
  p1 = p1
  p2 = p2
  None = None
  Cleaner = Cleaner
  Realms = {r2}
  Uris = {u1, u2, u3}
  Kids = {k1}
  UrisOf <- Providers
  Procs = {p1, p2}
  Interval = 1
  Retention = 5
  MaxTime = 3
INVARIANTS
  TypeOK
  OwnKeysOnly
PROPERTIES
  RefreshThrottled
  LookupsAnswered
