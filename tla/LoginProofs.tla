----------------------------- MODULE LoginProofs -----------------------------
(***************************************************************************)
(* Proofs about Login.  The inductive invariant CallsEntitled says, for    *)
(* every point a login has reached, which of the facts in `held` are       *)
(* already established: a read establishes a fact for the moment it runs   *)
(* at, and `held` only grows while the login lasts, so what administrators *)
(* change afterwards cannot take it away.                                  *)
(***************************************************************************)
EXTENDS Login, TLAPS

\* An admin that the TOTP statements see has a row (Linked).
LEMMA AdminType ==
  ASSUME TypeOK, NEW u \in Users, Linked(u)
  PROVE  admin[u] \in Admin
BY DEF TypeOK, Linked

\* The roles of a credential that may have gone are still a list of roles.
LEMMA RolesType ==
  ASSUME TypeOK, NEW c \in Call
  PROVE  RolesIn(RowOf(c)) \in Roles
<1>1. RowOf(c) \in UserPass \cup {None}
  BY DEF TypeOK, RowOf, Call
<1> QED
  BY <1>1, LoginNoneAssumption DEF RolesIn, UserPass

\* The variables of every login step keep their types.
LEMMA LoginTypes ==
  ASSUME TypeOK, Logins
  PROVE  call' \in [Procs -> Call \cup {None}] /\ session' \subseteq Claims
<1>1. PICK p \in Procs :
        \/ \E r \in Realms, u \in Users, pw \in Passwords \cup {None},
              code \in Secrets \cup {None} : ExtractRealm(p, r, u, pw, code)
        \/ validate_userpass(p) \/ JwtAuth(p)
        \/ is_totp_enabled(p) \/ get_totp_secret(p)
        \/ get_userpass(p) \/ issue_token(p)
        \/ abandon(p)
  BY DEF Logins
<1>2. \A c \in Call \cup {None} : Continue(p, c) => call' \in [Procs -> Call \cup {None}]
  BY DEF TypeOK, Continue
<1>3. call[p] # None => call[p] \in Call
  BY DEF TypeOK
<1>4. ASSUME NEW r \in Realms, NEW u \in Users, NEW pw \in Passwords \cup {None},
             NEW code \in Secrets \cup {None}, ExtractRealm(p, r, u, pw, code)
      PROVE  call' \in [Procs -> Call \cup {None}] /\ session' = session
  <2>1. (IF realm[r] = None THEN None
         ELSE [pc |-> IF pw = None THEN "jwt" ELSE "userpass", realm |-> r,
               user |-> u, password |-> pw, code |-> code,
               params |-> realm[r], roles |-> NoRoles]) \in Call \cup {None}
    BY LoginNoneAssumption DEF TypeOK, Call
  <2> QED
    BY <1>2, <1>4, <2>1 DEF ExtractRealm, Reads
<1>5. CASE validate_userpass(p)
  <2>1. call[p] # None => [call[p] EXCEPT !.pc = "totp"] \in Call
    BY <1>3 DEF Call
  <2> QED
    BY <1>2, <1>5, <2>1 DEF validate_userpass, Reads, TypeOK
<1>6. CASE JwtAuth(p)
  <2>1. call[p] # None => [call[p] EXCEPT !.pc = "totp"] \in Call
    BY <1>3 DEF Call
  <2> QED
    BY <1>2, <1>6, <2>1 DEF JwtAuth, Reads, TypeOK
<1>7. call[p] # None => Factored(call[p]) \in Call
  BY <1>3 DEF Call, Factored
<1>8. CASE is_totp_enabled(p)
  <2>1. call[p] # None => [call[p] EXCEPT !.pc = "secret"] \in Call
    BY <1>3 DEF Call
  <2> QED
    BY <1>2, <1>7, <1>8, <2>1 DEF is_totp_enabled, Reads, TypeOK
<1>9. CASE get_totp_secret(p)
  BY <1>2, <1>7, <1>9 DEF get_totp_secret, Reads, TypeOK
<1>10. CASE get_userpass(p)
  <2>1. [call[p] EXCEPT !.pc = "issue", !.roles = RolesIn(RowOf(call[p]))] \in Call
    <3>1. call[p] \in Call
      BY <1>3, <1>10 DEF get_userpass
    <3> QED
      BY <3>1, RolesType DEF Call
  <2> QED
    BY <1>2, <1>10, <2>1 DEF get_userpass, Reads, TypeOK
<1>11. CASE issue_token(p)
  <2>1. ClaimsOf(call[p]) \in Claims
    BY <1>3, <1>11 DEF issue_token, Call, ClaimsOf, Claims, SchemeOf, Scheme
  <2> QED
    BY <1>2, <1>11, <2>1 DEF issue_token, TypeOK
<1>12. CASE abandon(p)
  BY <1>2, <1>12 DEF abandon, Reads, TypeOK
<1> QED
  BY <1>1, <1>4, <1>5, <1>6, <1>8, <1>9, <1>10, <1>11, <1>12 DEF TypeOK

\* Logins write no table.
LEMMA LoginFrame ==
  ASSUME Logins
  PROVE  UNCHANGED tables /\ UNCHANGED changes
BY DEF Logins, ExtractRealm, validate_userpass, JwtAuth, is_totp_enabled,
       get_totp_secret, get_userpass, issue_token, abandon, Reads

\* The tables keep their types under every administrator's change.
LEMMA ChangeTypes ==
  ASSUME TypeOK, Changes
  PROVE  /\ realm' \in [Realms -> RealmRow \cup {None}]
         /\ userpass' \in [Realms \X Users -> UserPass \cup {None}]
         /\ admin' \in [Users -> Admin \cup {None}]
         /\ changes' \in Nat
         /\ UNCHANGED <<session, call>>
<1>1. Change
  BY DEF Changes, create_realm, update_realm, delete_realm, create_userpass,
         update_userpass, update_userpass_metadata, delete_userpass,
         enable_totp, disable_totp, create_admin, update_admin, delete_admin
<1>2. changes' \in Nat /\ UNCHANGED <<session, call>>
  BY <1>1 DEF Change, TypeOK
<1>3. ASSUME NEW r \in Realms, NEW row \in RealmRow,
             create_realm(r, row) \/ update_realm(r, row) \/ delete_realm(r)
      PROVE  /\ realm' \in [Realms -> RealmRow \cup {None}]
             /\ userpass' \in [Realms \X Users -> UserPass \cup {None}]
             /\ admin' = admin
  BY <1>3 DEF create_realm, update_realm, delete_realm, TypeOK
<1>4. ASSUME NEW x \in Realms \X Users, NEW row \in UserPass \cup {None}
      PROVE  [userpass EXCEPT ![x] = row] \in [Realms \X Users -> UserPass \cup {None}]
  BY DEF TypeOK
<1>5. ASSUME NEW r \in Realms, NEW u \in Users, NEW row \in UserPass,
             create_userpass(r, u, row) \/ update_userpass(r, u, row) \/ delete_userpass(r, u)
      PROVE  /\ userpass' \in [Realms \X Users -> UserPass \cup {None}]
             /\ UNCHANGED <<realm, admin>>
  BY <1>4, <1>5 DEF create_userpass, update_userpass, delete_userpass, TypeOK
<1>6. ASSUME NEW r \in Realms, NEW u \in Users, NEW change \in BOOLEAN, NEW roles \in Roles,
             update_userpass_metadata(r, u, change, roles)
      PROVE  /\ userpass' \in [Realms \X Users -> UserPass \cup {None}]
             /\ UNCHANGED <<realm, admin>>
  <2>1. CASE userpass[<<r, u>>] = None
    BY <1>6, <2>1 DEF update_userpass_metadata, TypeOK
  <2>2. CASE userpass[<<r, u>>] # None
    <3>1. userpass[<<r, u>>] \in UserPass
      BY <2>2 DEF TypeOK
    <3>2. [userpass[<<r, u>>] EXCEPT !.change_password = change, !.roles = roles] \in UserPass
      BY <3>1 DEF UserPass
    <3>3. userpass' = [userpass EXCEPT ![<<r, u>>] =
             [userpass[<<r, u>>] EXCEPT !.change_password = change, !.roles = roles]]
      BY <1>6, <2>2, <3>1 DEF update_userpass_metadata, TypeOK, UserPass
    <3>4. <<r, u>> \in Realms \X Users
      OBVIOUS
    <3>5. [userpass EXCEPT ![<<r, u>>] =
             [userpass[<<r, u>>] EXCEPT !.change_password = change, !.roles = roles]]
               \in [Realms \X Users -> UserPass \cup {None}]
      BY <1>4, <3>2, <3>4, Zenon
    <3> QED
      BY <1>6, <3>3, <3>5, Zenon DEF update_userpass_metadata
  <2> QED
    BY <2>1, <2>2
<1>7. ASSUME NEW u \in Users, NEW secret \in Secrets \cup {None},
             enable_totp(u, secret) \/ disable_totp(u)
      PROVE  admin' \in [Users -> Admin \cup {None}] /\ UNCHANGED <<realm, userpass>>
  <2>1. Linked(u) =>
          /\ [admin[u] EXCEPT !.totp_enabled = TRUE, !.totp_secret = secret] \in Admin
          /\ [admin[u] EXCEPT !.totp_enabled = FALSE, !.totp_secret = None] \in Admin
    BY AdminType DEF Admin
  <2> QED
    BY <1>7, <2>1 DEF enable_totp, disable_totp, TypeOK
<1>8. ASSUME NEW u \in Users, NEW row \in Admin,
             create_admin(u, row) \/ update_admin(u, row) \/ delete_admin(u)
      PROVE  admin' \in [Users -> Admin \cup {None}] /\ UNCHANGED <<realm, userpass>>
  BY <1>8 DEF create_admin, update_admin, delete_admin, TypeOK
<1>9. ASSUME NEW r \in Realms, delete_realm(r)
      PROVE  /\ realm' \in [Realms -> RealmRow \cup {None}]
             /\ userpass' \in [Realms \X Users -> UserPass \cup {None}]
             /\ admin' = admin
  BY <1>9 DEF delete_realm, TypeOK
<1>10. ASSUME NEW r \in Realms, NEW u \in Users, delete_userpass(r, u)
       PROVE  /\ userpass' \in [Realms \X Users -> UserPass \cup {None}]
              /\ UNCHANGED <<realm, admin>>
  BY <1>4, <1>10 DEF delete_userpass
<1>11. ASSUME NEW u \in Users, delete_admin(u)
       PROVE  admin' \in [Users -> Admin \cup {None}] /\ UNCHANGED <<realm, userpass>>
  BY <1>11 DEF delete_admin, TypeOK
<1> QED
  <2>1. UNCHANGED <<userpass, admin>> => userpass' = userpass /\ admin' = admin
    OBVIOUS
  <2> QED
    BY <1>2, <1>3, <1>5, <1>6, <1>7, <1>8, <1>9, <1>10, <1>11, LoginNoneAssumption
       DEF Changes, TypeOK

\* The history variable keeps its type.
LEMMA HeldType ==
  ASSUME TypeOK, Observe
  PROVE  held' \in [Procs -> Held]
<1>1. Nothing \in Held
  BY DEF Nothing, Held
<1>2. ASSUME NEW p \in Procs, call[p] # None
      PROVE  HeldNow(p, call[p]) \in Held
  <2>1. call[p] \in Call
    BY <1>2 DEF TypeOK
  <2>2. RolesIn(RowOf(call[p])) \in Roles
    BY <2>1, RolesType
  <2>3. held[p] \in Held
    BY DEF TypeOK
  <2>4. /\ (held[p].password \/ HoldsPassword(call[p])) \in BOOLEAN
        /\ (held[p].factor \/ HoldsFactor(call[p])) \in BOOLEAN
    BY Zenon
  <2>5. held[p].roles \cup {RolesIn(RowOf(call[p]))} \in SUBSET Roles
    BY <2>2, <2>3 DEF Held
  <2> QED
    BY <2>4, <2>5, Zenon DEF Held, HeldNow
<1> QED
  BY <1>1, <1>2 DEF Observe

\* Every reachable state of the login pipeline is well typed: in particular no
\* interleaving leaves a login without a value where the code reads a column.
THEOREM LoginTypeCorrect == Spec => []TypeOK
<1>1. Init => TypeOK
  <2> HAVE Init
  <2>1. Nothing \in Held
    BY DEF Nothing, Held
  <2> QED
    BY <2>1 DEF Init, TypeOK
<1>2. TypeOK /\ [Next]_vars => TypeOK'
  <2> SUFFICES ASSUME TypeOK, [Next]_vars PROVE TypeOK'
    OBVIOUS
  <2>1. CASE Logins /\ Observe
    BY <2>1, LoginTypes, LoginFrame, HeldType DEF TypeOK, tables
  <2>2. CASE Changes /\ Observe
    BY <2>2, ChangeTypes, HeldType DEF TypeOK
  <2>3. CASE UNCHANGED vars
    BY <2>3 DEF vars, TypeOK
  <2> QED
    BY <2>1, <2>2, <2>3 DEF Next
<1> QED
  BY <1>1, <1>2, PTL DEF Spec

-----------------------------------------------------------------------------
\* What a login at this point has established.
Entitled(c, h) ==
  /\ c.pc = "userpass" => SchemeOf(c) = "up"
  /\ c.pc = "jwt" => SchemeOf(c) = "jwt"
  /\ (SchemeOf(c) = "up" /\ c.pc # "userpass") => h.password
  /\ c.pc \in {"roles", "issue"} => h.factor
  /\ c.pc = "roles" => SchemeOf(c) = "up"
  /\ c.pc # "issue" => c.roles = NoRoles
  /\ c.pc = "issue" => c.roles \in (IF SchemeOf(c) = "up" THEN h.roles ELSE {NoRoles})

\* The inductive invariant.
CallsEntitled == \A p \in Procs : call[p] # None => Entitled(call[p], held[p])

\* What has been observed of a login stays observed while it lasts.
LEMMA HeldGrows ==
  ASSUME TypeOK, Observe, NEW p \in Procs, call[p] # None, call'[p] # None
  PROVE  /\ held'[p].password <=> (held[p].password \/ HoldsPassword(call[p]))
         /\ held'[p].factor <=> (held[p].factor \/ HoldsFactor(call[p]))
         /\ held'[p].roles = held[p].roles \cup {RolesIn(RowOf(call[p]))}
<1>1. held'[p] = HeldNow(p, call[p])
  BY DEF Observe
<1> DEFINE a == held[p].password \/ HoldsPassword(call[p])
           b == held[p].factor \/ HoldsFactor(call[p])
           r == held[p].roles \cup {RolesIn(RowOf(call[p]))}
<1>2. held'[p] = [password |-> a, factor |-> b, roles |-> r]
  BY <1>1 DEF HeldNow
<1> HIDE DEF a, b, r
<1>3. held'[p].password = a /\ held'[p].factor = b /\ held'[p].roles = r
  BY <1>2
<1> QED
  BY <1>3, Zenon DEF a, b, r

\* Nothing that happens elsewhere takes from a login what it has established.
LEMMA EntitledKept ==
  ASSUME TypeOK, CallsEntitled, Observe, NEW p \in Procs, call'[p] # None,
         call'[p] = call[p]
  PROVE  Entitled(call'[p], held'[p])
<1>1. Entitled(call[p], held[p])
  BY DEF CallsEntitled
<1> QED
  BY <1>1, HeldGrows DEF Entitled

\* Each step of a login establishes what the next point asks for.
LEMMA StepEntitled ==
  ASSUME TypeOK, CallsEntitled, Observe, NEW p \in Procs, call[p] # None, call'[p] # None,
         \/ validate_userpass(p) \/ JwtAuth(p) \/ is_totp_enabled(p)
         \/ get_totp_secret(p) \/ get_userpass(p) \/ issue_token(p) \/ abandon(p)
  PROVE  Entitled(call'[p], held'[p])
<1> DEFINE c == call[p]
<1>1. c \in Call
  BY DEF TypeOK
<1>2. Entitled(c, held[p])
  BY DEF CallsEntitled
<1>3. \A d : Continue(p, d) => call'[p] = d
  BY DEF TypeOK, Continue
<1>4. \A d \in Call : SchemeOf(Factored(d)) = SchemeOf(d) /\ Factored(d).roles = d.roles
                     /\ Factored(d).pc = IF SchemeOf(d) = "up" THEN "roles" ELSE "issue"
  BY DEF Call, Factored, SchemeOf
<1>5. CASE validate_userpass(p)
  <2>1. call'[p] = [c EXCEPT !.pc = "totp"] /\ c.pc = "userpass" /\ HoldsPassword(c)
    BY <1>3, <1>5 DEF validate_userpass, Authenticates, HoldsPassword
  <2>2. call'[p].pc = "totp" /\ call'[p].roles = c.roles /\ SchemeOf(call'[p]) = SchemeOf(c)
    BY <1>1, <2>1 DEF Call, SchemeOf
  <2> QED
    BY <1>2, <2>1, <2>2, HeldGrows DEF Entitled
<1>6. CASE JwtAuth(p)
  <2>1. call'[p] = [c EXCEPT !.pc = "totp"] /\ c.pc = "jwt"
    BY <1>3, <1>6 DEF JwtAuth
  <2>2. call'[p].pc = "totp" /\ call'[p].roles = c.roles /\ SchemeOf(call'[p]) = SchemeOf(c)
    BY <1>1, <2>1 DEF Call, SchemeOf
  <2> QED
    BY <1>2, <2>1, <2>2, HeldGrows DEF Entitled
<1>7. CASE is_totp_enabled(p)
  <2>1. CASE TotpInForce(c.user)
    <3>1. call'[p] = [c EXCEPT !.pc = "secret"] /\ c.pc = "totp"
      BY <1>3, <1>7, <2>1 DEF is_totp_enabled, TotpInForce
    <3>2. call'[p].pc = "secret" /\ call'[p].roles = c.roles /\ SchemeOf(call'[p]) = SchemeOf(c)
      BY <1>1, <3>1 DEF Call, SchemeOf
    <3> QED
      BY <1>2, <3>1, <3>2, HeldGrows DEF Entitled
  <2>2. CASE ~TotpInForce(c.user)
    <3>1. call'[p] = Factored(c) /\ c.pc = "totp"
      BY <1>3, <1>7, <2>2 DEF is_totp_enabled, TotpInForce
    <3>2. HoldsFactor(c)
      BY <2>2 DEF HoldsFactor
    <3> QED
      BY <1>1, <1>2, <1>4, <3>1, <3>2, HeldGrows DEF Entitled
  <2> QED
    BY <2>1, <2>2
<1>8. CASE get_totp_secret(p)
  <2>1. call'[p] = Factored(c) /\ c.pc = "secret" /\ Matches(c, admin[c.user].totp_secret)
    BY <1>3, <1>8 DEF get_totp_secret
  <2>2. HoldsFactor(c)
    BY <2>1 DEF HoldsFactor, Matches
  <2> QED
    BY <1>1, <1>2, <1>4, <2>1, <2>2, HeldGrows DEF Entitled
<1>9. CASE get_userpass(p)
  <2>1. call'[p] = [c EXCEPT !.pc = "issue", !.roles = RolesIn(RowOf(c))] /\ c.pc = "roles"
    BY <1>3, <1>9 DEF get_userpass
  <2>2. call'[p].pc = "issue" /\ call'[p].roles = RolesIn(RowOf(c))
          /\ SchemeOf(call'[p]) = SchemeOf(c)
    BY <1>1, <2>1 DEF Call, SchemeOf
  <2> QED
    BY <1>2, <2>1, <2>2, HeldGrows DEF Entitled
<1>10. CASE issue_token(p)
  BY <1>3, <1>10 DEF issue_token
<1>11. CASE abandon(p)
  BY <1>3, <1>11 DEF abandon
<1> QED
  BY <1>5, <1>6, <1>7, <1>8, <1>9, <1>10, <1>11

\* At every point of every login, the facts that point rests on were observed:
\* what every statement of login and its middlewares leaves to the next one.
THEOREM EntitledInvariance == Spec => []CallsEntitled
<1>1. Init => CallsEntitled
  BY DEF Init, CallsEntitled
<1>2. TypeOK /\ CallsEntitled /\ [Next]_vars => CallsEntitled'
  <2> SUFFICES ASSUME TypeOK, CallsEntitled, [Next]_vars, NEW p \in Procs, call'[p] # None
               PROVE  Entitled(call'[p], held'[p])
    BY DEF CallsEntitled
  <2>1. CASE UNCHANGED vars
    BY <2>1 DEF vars, CallsEntitled
  <2>2. CASE Next
    <3>1. Observe
      BY <2>2 DEF Next
    <3>2. CASE Changes
      <4>1. call' = call
        BY <3>2, ChangeTypes
      <4> QED
        BY <3>1, <4>1, EntitledKept
    <3>3. CASE Logins
      <4>1. PICK q \in Procs :
              \/ \E r \in Realms, u \in Users, pw \in Passwords \cup {None},
                    code \in Secrets \cup {None} : ExtractRealm(q, r, u, pw, code)
              \/ validate_userpass(q) \/ JwtAuth(q)
              \/ is_totp_enabled(q) \/ get_totp_secret(q)
              \/ get_userpass(q) \/ issue_token(q)
              \/ abandon(q)
        BY <3>3 DEF Logins
      <4>2. CASE p # q
        <5>1. \E d : Continue(q, d)
          BY <4>1 DEF ExtractRealm, validate_userpass, JwtAuth, is_totp_enabled,
                      get_totp_secret, get_userpass, issue_token, abandon
        <5>2. call'[p] = call[p]
          BY <4>2, <5>1 DEF Continue, TypeOK
        <5> QED
          BY <3>1, <5>2, EntitledKept
      <4>3. CASE p = q /\ call[p] = None
        <5>1. PICK r \in Realms : \E u \in Users, pw \in Passwords \cup {None},
                code \in Secrets \cup {None} : ExtractRealm(p, r, u, pw, code)
          BY <4>1, <4>3 DEF validate_userpass, JwtAuth, is_totp_enabled,
                      get_totp_secret, get_userpass, issue_token, abandon
        <5>2. call'[p].roles = NoRoles
                /\ call'[p].pc = IF call'[p].password = None THEN "jwt" ELSE "userpass"
          BY <5>1 DEF ExtractRealm, Continue, TypeOK
        <5> QED
          BY <5>2 DEF Entitled, SchemeOf
      <4>4. CASE p = q /\ call[p] # None
        <5>1. \/ validate_userpass(p) \/ JwtAuth(p) \/ is_totp_enabled(p)
              \/ get_totp_secret(p) \/ get_userpass(p) \/ issue_token(p) \/ abandon(p)
          BY <4>1, <4>4 DEF ExtractRealm
        <5> QED
          BY <3>1, <4>4, <5>1, StepEntitled
      <4> QED
        BY <4>2, <4>3, <4>4
    <3> QED
      BY <2>2, <3>2, <3>3 DEF Next
  <2> QED
    BY <2>1, <2>2
<1> QED
  BY <1>1, <1>2, LoginTypeCorrect, PTL DEF Spec

-----------------------------------------------------------------------------
\* A password login's session rests on a password that was stored for the user
\* at a moment of the login, for any number of logins and changes.
THEOREM PasswordHeldAlways == Spec => PasswordHeld
<1>1. CallsEntitled =>
        (\A p \in Procs : (Issued(p) /\ SchemeOf(call[p]) = "up") => held[p].password)
  BY DEF CallsEntitled, Entitled, Issued
<1> QED
  BY <1>1, EntitledInvariance, PTL DEF PasswordHeld

\* No session is issued unless TOTP was not in force, or the code was computed
\* from the secret in force, at a moment of the login.
THEOREM FactorHeldAlways == Spec => FactorHeld
<1>1. CallsEntitled => (\A p \in Procs : Issued(p) => held[p].factor)
  BY DEF CallsEntitled, Entitled, Issued
<1> QED
  BY <1>1, EntitledInvariance, PTL DEF FactorHeld

\* A session carries roles of the credential that authenticated, or none.
THEOREM RolesOwnedAlways == Spec => RolesOwned
<1>1. CallsEntitled =>
        (\A p \in Procs : Issued(p) =>
           call[p].roles \in (IF SchemeOf(call[p]) = "up" THEN held[p].roles ELSE {NoRoles}))
  BY DEF CallsEntitled, Entitled, Issued
<1> QED
  BY <1>1, EntitledInvariance, PTL DEF RolesOwned
=============================================================================
