SPECIFICATION Spec
CONSTANTS
  r1 = r1
  r2 = r2
  q1 = q1
  q2 = q2
  a1 = a1
  a2 = a2
  p1 = p1
  p2 = p2
  None = None
  Realms = {r1, r2}
  Requests = {q1, q2}
  Assertions = {a1, a2}
  Procs = {p1, p2}
  PendingSecs = 2
  Delay = 3
  Skew = 1
  MaxTime = 5
SYMMETRY Symmetry
INVARIANTS
  TypeOK
  RequestOnce
  AssertionOnce
  ReplayRemembered
