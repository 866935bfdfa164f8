SPECIFICATION Spec
CONSTANTS
  n1 = n1
  i1 = i1
  i2 = i2
  x1 = x1
  k1 = k1
  k2 = k2
  p1 = p1
  p2 = p2
  None = None
  Names = {n1}
  RoleIds = {i1, i2}
  SecretIds = {x1}
  Tokens = {k1}
  Procs = {p1, p2}
  TokenTtls = {0, 1}
  SecretTtls = {0, 1}
  NumUses = {0, 2}
  Lag = 1
  MaxTime = 3
SYMMETRY Symmetry
INVARIANTS
  TypeOK
  UsesBounded
  SecretsHaveRoles
  NonExpiringStays
  RevokedRefused
PROPERTY
  ExpiredStaysExpired
