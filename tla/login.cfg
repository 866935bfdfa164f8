SPECIFICATION ProvisionedSpec
CONSTANTS
  r1 = r1
  u1 = u1
  w1 = w1
  w2 = w2
  none = none
  ops = ops
  x1 = x1
  x2 = x2
  p1 = p1
  p2 = p2
  None = None
  Realms = {r1}
  Users = {u1}
  Passwords = {w1, w2}
  Roles = {none, ops}
  NoRoles = none
  Secrets = {x1, x2}
  Procs = {p1}
  MaxChanges = 2
SYMMETRY Symmetry
INVARIANT
  TypeOK
PROPERTIES
  PasswordHeld
  FactorHeld
  RolesOwned
