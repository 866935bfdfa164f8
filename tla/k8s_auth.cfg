SPECIFICATION K8sSpec
CONSTANTS
  n1 = n1
  good = good
  plain = plain
  local = local
  k1 = k1
  k2 = k2
  k3 = k3
  kidA = kidA
  kidB = kidB
  dev = dev
  prod = prod
  sa1 = sa1
  sa2 = sa2
  iss1 = iss1
  iss2 = iss2
  aud1 = aud1
  aud2 = aud2
  star = star
  t1 = t1
  t2 = t2
  p1 = p1
  p2 = p2
  None = None
  Names = {n1}
  Urls = {good, plain, local}
  HttpsUrls = {good, local}
  PrivateUrls = {local}
  Keys = {k1, k2, k3}
  Kids = {kidA, kidB}
  KidOf <- MCKidOf
  Namespaces = {dev, prod}
  Accounts = {sa1, sa2}
  Issuers = {iss1, iss2}
  Audiences = {aud1, aud2}
  Any = star
  Jwts <- MCJwts
  Requests <- MCRequests
  Tokens = {t1}
  Procs = {p1}
  Leeway = 1
  MaxTime = 3
  MaxChanges = 3
INVARIANT
  K8sTypeOK
PROPERTIES
  GrantOfOneRole
  KeyServedDuringLogin
