SPECIFICATION Spec
CONSTANTS
  adm = adm
  r1 = r1
  root = root
  n1 = n1
  p1 = p1
  p2 = p2
  None = None
  Realms = {adm, r1}
  AdminRealm = adm
  Names = {root, n1}
  Root = root
  Links = {n1}
  Procs = {p1, p2}
  MaxRequests = 0
PROPERTY
  SeededAtStart
