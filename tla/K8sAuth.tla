------------------------------- MODULE K8sAuth -------------------------------
(***************************************************************************)
(* The Kubernetes auth method: the handlers of endpoints/kubernetes.rs and *)
(* the tables k8s_roles and app_tokens behind them (database/impls).       *)
(*                                                                         *)
(* A login reads the role, downloads the key set its URL publishes, waits, *)
(* decides, and stores a token: four steps, between which administrators   *)
(* change or delete the role and the cluster rotates its keys.  A JWT is   *)
(* the key that signed it with the fields the decision looks at; each of   *)
(* the claims iss, aud, nbf and exp may be absent.  The life of a token    *)
(* after its issue is the subject of AppAuth.                              *)
(***************************************************************************)
EXTENDS AppTokens

CONSTANTS
  Urls,         \* JWKS URLs
  HttpsUrls,    \* those that start with https://
  PrivateUrls,  \* those whose host parses as a private or loopback address
  Keys,         \* signing keys of the clusters
  Kids, KidOf,  \* key ids, and the one each key is published with, or None
  Namespaces, Accounts, Issuers, Audiences,
  Any,          \* the entry "*" of a list of names or namespaces
  Jwts,         \* the service-account tokens presented
  Requests,     \* the bodies of POST /auth/kubernetes/role/{name}
  Leeway,       \* the default leeway of jsonwebtoken
  MaxChanges    \* bound on the changes of roles and keys

ALLOWED_K8S_ALGORITHMS == {"RS256", "RS384", "RS512", "ES256", "ES384"}

\* A token: a claim it does not carry is None, and so is a sub that does not
\* have the form system:serviceaccount:<namespace>:<name>.
Jwt == [alg : ALLOWED_K8S_ALGORITHMS \cup {"HS256"}, kid : Kids \cup {None}, key : Keys,
        sub : (Namespaces \X Accounts) \cup {None}, iss : Issuers \cup {None},
        aud : {None} \cup SUBSET Audiences, nbf : {None} \cup Nat, exp : {None} \cup Nat]
K8sRoleRequest == [jwks_url : Urls, names : SUBSET (Accounts \cup {Any}),
                   namespaces : SUBSET (Namespaces \cup {Any}), token_ttl : Int,
                   issuer : Issuers \cup {None}, audiences : SUBSET Audiences]

\* The URLs a role can have.
Allowed == HttpsUrls \ PrivateUrls

\* A row of k8s_roles, as the checks and the normalisation of
\* k8s_create_role leave it.
K8sRole == [jwks_url : Allowed,
            names : (SUBSET (Accounts \cup {Any})) \ {{}},
            namespaces : (SUBSET (Namespaces \cup {Any})) \ {{}}, token_ttl : Nat,
            issuer : Issuers \cup {None}, audiences : SUBSET Audiences]
AppToken == [entity : Namespaces \X Accounts, expiry : Nat, lease : Nat]

ASSUME K8sUrlAssumption == HttpsUrls \subseteq Urls
ASSUME K8sDataAssumption ==
  Jwts \subseteq Jwt /\ Requests \subseteq K8sRoleRequest /\ KidOf \in [Keys -> Kids \cup {None}]
ASSUME K8sBoundAssumption == Leeway \in Nat /\ MaxTime \in Nat /\ MaxChanges \in Nat
ASSUME K8sNoneAssumption ==
  /\ None \notin K8sRole /\ None \notin AppToken
  /\ None \notin Issuers /\ None \notin Kids /\ None \notin Namespaces \X Accounts
  /\ None \notin [pc : {"fetch", "validate", "issue"}, name : Names, role : K8sRole,
                  jwt : Jwts, keys : SUBSET Keys, row : AppToken \cup {None}]

VARIABLES
  k8s_role,     \* table k8s_roles
  app_token,    \* table app_tokens
  published,    \* the key set each URL serves
  login,        \* the login each process is handling
  changes,      \* the number of changes of roles and key sets so far
  held          \* history: what held at some moment of each login

k8sVars == <<now, k8s_role, app_token, published, login, changes, held>>

\* What a login keeps: the name and the JWT of its body, the role row it read,
\* the key set it downloaded and the token row it is about to store.
K8sCall == [pc : {"fetch", "validate", "issue"}, name : Names, role : K8sRole,
            jwt : Jwts, keys : SUBSET Keys, row : AppToken \cup {None}]

\* The rows its role name had, and the keys its role's URL served, during a
\* login.
Held == [roles : SUBSET (K8sRole \cup {None}), keys : SUBSET Keys]

K8sTypeOK ==
  /\ now \in Nat
  /\ k8s_role \in [Names -> K8sRole \cup {None}]
  /\ app_token \in [Tokens -> AppToken \cup {None}]
  /\ published \in [Allowed -> SUBSET Keys]
  /\ login \in [Procs -> K8sCall \cup {None}]
  /\ changes \in Nat
  /\ held \in [Procs -> Held]

Nothing == [roles |-> {}, keys |-> {}]

K8sInit ==
  /\ now = 0
  /\ k8s_role = [n \in Names |-> None]
  /\ app_token = [k \in Tokens |-> None]
  /\ published \in [Allowed -> SUBSET Keys]
  /\ login = [p \in Procs |-> None]
  /\ changes = 0
  /\ held = [p \in Procs |-> Nothing]

Proceed(p, c) == login' = [login EXCEPT ![p] = c]
Reads == UNCHANGED <<now, k8s_role, app_token, published, changes>>

-----------------------------------------------------------------------------
get_k8s_role(n) == k8s_role[n]

\* POST /auth/kubernetes/login: the role of the body, as it is now, if any ...
k8s_login(p, n, j) ==
  /\ login[p] = None
  /\ Proceed(p, IF get_k8s_role(n) = None THEN None
                ELSE [pc |-> "fetch", name |-> n, role |-> get_k8s_role(n), jwt |-> j,
                      keys |-> {}, row |-> None])
  /\ Reads

\* ... its URL answers with the keys it serves at that moment (a timeout, a
\* redirect or another status: k8s_abandon) ...
fetch_jwks(p) ==
  /\ login[p] # None /\ login[p].pc = "fetch"
  /\ Proceed(p, [login[p] EXCEPT !.pc = "validate", !.keys = published[login[p].role.jwks_url]])
  /\ Reads

\* The keys the signature is tried with: those with the kid of the header, all
\* of them if there is no such key or no kid.
Candidates(j, keys) ==
  LET matching == {k \in keys : j.kid # None => KidOf[k] = j.kid}
  IN IF matching = {} THEN keys ELSE matching

\* exp is the one claim that is required; nbf counts when it is there.
InForce(j, t) ==
  /\ j.exp # None /\ j.exp >= t - Leeway
  /\ j.nbf # None => j.nbf <= t + Leeway

\* The issuer if the role has one, one of the audiences if it lists any: only
\* exp is in required_spec_claims, and the library compares no claim that the
\* JWT does not carry.
Bound(j, r) ==
  /\ r.issuer # None /\ j.iss # None => j.iss = r.issuer
  /\ r.audiences # {} /\ j.aud # None => j.aud \cap r.audiences # {}

\* Mutant: a key with the right kid stands for a verified signature.
validate_k8s_jwt_KidOnly(j, keys, r, t) ==
  /\ j.alg \in ALLOWED_K8S_ALGORITHMS
  /\ \E k \in Candidates(j, keys) : KidOf[k] = j.kid \/ k = j.key
  /\ InForce(j, t)
  /\ Bound(j, r)

validate_k8s_jwt(j, keys, r, t) ==
  /\ j.alg \in ALLOWED_K8S_ALGORITHMS
  /\ j.key \in Candidates(j, keys)
  /\ InForce(j, t)
  /\ Bound(j, r)

\* parse_k8s_sub and the two lists of the role.
Admits(r, j) ==
  /\ j.sub # None
  /\ Any \in r.names \/ j.sub[2] \in r.names
  /\ Any \in r.namespaces \/ j.sub[1] \in r.namespaces

\* The row of a new token.
TokenFor(r, j, t) ==
  [entity |-> j.sub, lease |-> r.token_ttl, expiry |-> ExpiryAt(t, r.token_ttl)]

\* ... the JWT is checked against that row and those keys, and the token's row
\* computed, or the login is refused ...
decide(p) ==
  /\ login[p] # None /\ login[p].pc = "validate"
  /\ LET c == login[p]
     IN Proceed(p, IF validate_k8s_jwt(c.jwt, c.keys, c.role, now) /\ Admits(c.role, c.jwt)
                   THEN [c EXCEPT !.pc = "issue", !.row = TokenFor(c.role, c.jwt, now)]
                   ELSE None)
  /\ Reads

\* Mutant: the lease is the one the role has when the token is stored.
k8s_issue_FreshLease(p) ==
  /\ login[p] # None /\ login[p].pc = "issue"
  /\ LET r == k8s_role[login[p].name]
         row == [login[p].row EXCEPT !.lease = IF r = None THEN @ ELSE r.token_ttl]
     IN \E k \in Tokens : app_token[k] = None /\ app_token' = [app_token EXCEPT ![k] = row]
  /\ Proceed(p, None)
  /\ UNCHANGED <<now, k8s_role, published, changes>>

\* ... and stored.
k8s_issue(p) ==
  /\ login[p] # None /\ login[p].pc = "issue"
  /\ \E k \in Tokens : app_token[k] = None /\ app_token' = [app_token EXCEPT ![k] = login[p].row]
  /\ Proceed(p, None)
  /\ UNCHANGED <<now, k8s_role, published, changes>>

\* The download or a statement fails, or the server stops.
k8s_abandon(p) ==
  /\ login[p] # None
  /\ Proceed(p, None)
  /\ Reads

-----------------------------------------------------------------------------
Change ==
  /\ changes < MaxChanges
  /\ changes' = changes + 1
  /\ UNCHANGED <<now, app_token, login>>

\* Mutant: an empty list is stored as it is, and admits nobody.
OrAny_Empty(list) == list

\* "omitting a field means allow all".
OrAny(list) == IF list = {} THEN {Any} ELSE list

RoleOf(q) ==
  [jwks_url |-> q.jwks_url, names |-> OrAny(q.names), namespaces |-> OrAny(q.namespaces),
   token_ttl |-> q.token_ttl, issuer |-> q.issuer, audiences |-> q.audiences]

\* POST /auth/kubernetes/role/{name}: the checks of the body, and the row
\* inserted or every column of it replaced.
k8s_create_role(n, q) ==
  /\ q.jwks_url \in HttpsUrls
  /\ q.jwks_url \notin PrivateUrls
  /\ q.token_ttl >= 0
  /\ Change
  /\ k8s_role' = [k8s_role EXCEPT ![n] = RoleOf(q)]
  /\ UNCHANGED published

\* DELETE /auth/kubernetes/role/{name}; tokens issued under it stay.
k8s_delete_role(n) ==
  /\ Change
  /\ k8s_role' = [k8s_role EXCEPT ![n] = None]
  /\ UNCHANGED published

\* The cluster publishes another key set.
rotate(u, keys) ==
  /\ Change
  /\ published' = [published EXCEPT ![u] = keys]
  /\ UNCHANGED k8s_role

K8sTick ==
  /\ now < MaxTime
  /\ now' = now + 1
  /\ UNCHANGED <<k8s_role, app_token, published, login, changes>>

-----------------------------------------------------------------------------
\* History: while a login is under way, what is stored and served is noted,
\* in the states before and after each step.
HeldNow(p, c) ==
  [roles |-> held[p].roles \cup {k8s_role[c.name]},
   keys |-> held[p].keys \cup published[c.role.jwks_url]]

Observe ==
  held' = [p \in Procs |-> IF login'[p] = None THEN Nothing
                           ELSE IF login[p] = None
                                THEN [roles |-> {k8s_role[login'[p].name]}, keys |-> {}]
                                ELSE HeldNow(p, login[p])]

Login(p) ==
  \/ \E n \in Names, j \in Jwts : k8s_login(p, n, j)
  \/ fetch_jwks(p) \/ decide(p) \/ k8s_issue(p)
  \/ k8s_abandon(p)

K8sNext ==
  /\ \/ \E p \in Procs : Login(p)
     \/ \E n \in Names, q \in Requests : k8s_create_role(n, q)
     \/ \E n \in Names : k8s_delete_role(n)
     \/ \E u \in Allowed, keys \in SUBSET Keys : rotate(u, keys)
     \/ K8sTick
  /\ Observe

K8sSpec == K8sInit /\ [][K8sNext]_k8sVars

-----------------------------------------------------------------------------
\* The login of p gets its token k.
Issued(p, k) ==
  /\ login[p] # None /\ login[p].pc = "issue" /\ login'[p] = None
  /\ app_token[k] = None /\ app_token'[k] # None

\* A token is issued on the terms of one version of the role, stored under its
\* name at some moment of the login: that version admits the account, its issuer
\* and audiences agree with the iss and the aud the JWT carries, if it carries
\* them, and the lease is its token_ttl, whatever replaced or deleted the role in
\* between (k8s_login, k8s_create_role).
GrantOfOneRole ==
  [][\A p \in Procs, k \in Tokens : Issued(p, k) =>
       \E r \in held[p].roles \ {None} :
         /\ Admits(r, login[p].jwt) /\ Bound(login[p].jwt, r)
         /\ r.token_ttl = app_token'[k].lease
         /\ app_token'[k].entity = login[p].jwt.sub]_k8sVars

\* The key that signed the JWT was served by the role's URL at some moment of
\* the login: nothing is cached, so a key the cluster withdrew before the login
\* began is never accepted (fetch_jwks, validate_k8s_jwt).
KeyServedDuringLogin ==
  [][\A p \in Procs, k \in Tokens : Issued(p, k) => login[p].jwt.key \in held[p].keys]_k8sVars
=============================================================================
