SPECIFICATION RealmSpec
CONSTANTS
  r1 = r1
  admin = admin
  q1 = q1
  a1 = a1
  a2 = a2
  p1 = p1
  p2 = p2
  old = old
  new = new
  mail = mail
  app = app
  other = other
  plain = plain
  None = None
  Realms = {r1, admin}
  ADMIN_REALM = admin
  Requests = {q1}
  Assertions = {a1, a2}
  Procs = {p1, p2}
  PendingSecs = 1
  Delay = 2
  Skew = 0
  MaxTime = 4
  Backends = {"sqlite", "mysql", "redis"}
  Certs = {old, new}
  Attributes = {mail}
  ClaimNames = {"mail", "sub"}
  Reserved = {"sub"}
  Origins = {app, other, plain}
  HttpsOrigins = {app, other}
  Bodies <- MCBodies
  Content <- MCContent
  MaxChanges = 1
SYMMETRY Symmetry
PROPERTIES
  SamlLoginSpec
  StoreContract
  TrustedDuringAcs
  RedirectAllowed
  IdentitySound
