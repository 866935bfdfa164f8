SPECIFICATION Spec
CONSTANTS
  i1 = i1
  w1 = w1
  w2 = w2
  r1 = r1
  u1 = u1
  s1 = s1
  s2 = s2
  dept = dept
  iss = iss
  p1 = p1
  p2 = p2
  None = None
  Ips = {i1}
  Workers = {w1, w2}
  BurstSize = 1
  Realms = {r1}
  RealmRows <- MCRealmRows
  Users = {u1}
  Sids = {s1}
  ClaimNames = {dept, iss}
  Reserved = {iss}
  Extras <- MCExtras
  Bodies <- MCBodies
  Procs = {p1, p2}
  Leeway = 1
  MaxTime = 3
  MaxChanges = 1
SYMMETRY Symmetry
INVARIANTS
  TypeOK
  AttemptsBounded
  RefusedOnlyIfSlow
PROPERTIES
  CertifiedWhileLive
