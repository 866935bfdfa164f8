SPECIFICATION FairSpec
CONSTANTS
  s1 = s1
  c1 = c1
  r1 = r1
  p1 = p1
  p2 = p2
  NoRow = NoRow
  SessionIds = {s1}
  Realms = {r1}
  Clients = {c1}
  RealmOf <- OneRealm
  ClientOf <- Client1
  MaxAge <- Ages
  MaxStale <- Idles
  Procs = {p1, p2}
  Lag = 1
  MaxTime = 5
INVARIANTS
  TypeOK
  RefreshCapped
  IdleBounded
PROPERTIES
  ImplementsLifecycle
  ExpiredRowsCollected
