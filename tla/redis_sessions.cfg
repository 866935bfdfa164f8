SPECIFICATION Spec
CONSTANTS
  s1 = s1
  s2 = s2
  o1 = o1
  r1 = r1
  p1 = p1
  p2 = p2
  NoKey = NoKey
  Never = Never
  SessionIds = {s1}
  Realms = {r1}
  Owners = {o1}
  OwnerOf <- OneOwner
  RealmOf <- OneRealm
  MaxAge <- Ages
  MaxStale <- Idles
  Procs = {p1, p2}
  Lag = 2
  MaxTime = 7
SYMMETRY Symmetry
INVARIANTS
  TtlCapped
PROPERTY
  RedisImplementsLifecycle
