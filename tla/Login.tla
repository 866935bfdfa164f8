-------------------------------- MODULE Login --------------------------------
(***************************************************************************)
(* POST /login: the middlewares ExtractRealm, UsernamePasswordAuth,        *)
(* JwtAuth and EnsureAuth in the order auth_verifier.rs wraps them, and    *)
(* the handler login of client_endpoints.rs, with the second factor of     *)
(* totp.rs.                                                                *)
(*                                                                         *)
(* Every statement a login runs is one step: the realm, the credential,    *)
(* the TOTP flag, the TOTP secret and the roles are read one after the     *)
(* other, and administrators change any of them in between.  Every writing *)
(* operation of the trait Database is one step, and any of them may follow *)
(* any other: this includes every sequence the administrators' handlers    *)
(* run, which are the subject of RealmAdmin.  A one-time code is the       *)
(* secret it was computed from, None a code that matches no secret or no   *)
(* code at all.                                                            *)
(***************************************************************************)
EXTENDS Integers

CONSTANTS
  Realms, Users, Passwords,
  Roles,        \* values of the roles column
  NoRoles,      \* the empty list of roles
  Secrets,      \* TOTP secrets
  Procs,        \* logins being handled concurrently
  MaxChanges,   \* bound on the number of administrators' changes
  None

\* A realm row: how username and password are allowed, with or without expired
\* passwords, and whether providers of bearer tokens are configured.
RealmRow == [userpass : {"off", "strict", "lenient"}, jwt : BOOLEAN]
UserPass == [password : Passwords, change_password : BOOLEAN, roles : Roles]
\* linked: a userpass or jwt value is set, without which TOTP does not apply; a
\* NULL in totp_enabled reads as FALSE.
Admin == [linked : BOOLEAN, totp_enabled : BOOLEAN, totp_secret : Secrets \cup {None}]
Scheme == {"up", "jwt"}

ASSUME LoginBoundAssumption == MaxChanges \in Nat
ASSUME LoginNoneAssumption ==
  /\ NoRoles \in Roles
  /\ None \notin RealmRow /\ None \notin UserPass /\ None \notin Admin
  /\ None \notin Secrets /\ None \notin Passwords

VARIABLES
  realm,        \* table realm
  userpass,     \* table userpass
  admin,        \* table admin
  session,      \* the sessions stored, as their claims
  call,         \* the login each process is handling
  changes,      \* the number of administrators' changes so far
  held          \* history: what held at some moment of each login

tables == <<realm, userpass, admin>>
vars == <<realm, userpass, admin, session, call, changes, held>>

Claims == [realm : Realms, user : Users, scheme : Scheme, roles : Roles]

\* What a login keeps between statements: the pair it is for, the password of
\* a Basic header or None for a bearer token, the code, the realm row that
\* ExtractRealm read, and the roles.
Call == [pc : {"userpass", "jwt", "totp", "secret", "roles", "issue"},
         realm : Realms, user : Users, password : Passwords \cup {None},
         code : Secrets \cup {None}, params : RealmRow, roles : Roles]

Held == [password : BOOLEAN, factor : BOOLEAN, roles : SUBSET Roles]
Nothing == [password |-> FALSE, factor |-> FALSE, roles |-> {}]

TypeOK ==
  /\ realm \in [Realms -> RealmRow \cup {None}]
  /\ userpass \in [Realms \X Users -> UserPass \cup {None}]
  /\ admin \in [Users -> Admin \cup {None}]
  /\ session \subseteq Claims
  /\ call \in [Procs -> Call \cup {None}]
  /\ changes \in Nat
  /\ held \in [Procs -> Held]

Init ==
  /\ realm \in [Realms -> RealmRow]
  /\ userpass = [x \in Realms \X Users |-> None]
  /\ admin = [u \in Users |-> None]
  /\ session = {}
  /\ call = [p \in Procs |-> None]
  /\ changes = 0
  /\ held = [p \in Procs |-> Nothing]

RowOf(c) == userpass[<<c.realm, c.user>>]

Continue(p, c) == call' = [call EXCEPT ![p] = c]
Reads == UNCHANGED <<tables, session, changes>>

-----------------------------------------------------------------------------
\* ExtractRealm reads the realm of the query, if it exists; UsernamePasswordAuth takes a
\* Basic header and lets a bearer token pass to JwtAuth.
ExtractRealm(p, r, u, pw, code) ==
  /\ call[p] = None
  /\ Continue(p, IF realm[r] = None THEN None
                 ELSE [pc |-> IF pw = None THEN "jwt" ELSE "userpass", realm |-> r,
                       user |-> u, password |-> pw, code |-> code,
                       params |-> realm[r], roles |-> NoRoles])
  /\ Reads

\* Mutant: an expired password is accepted in every realm.
Authenticates_Expired(c, row) == row # None /\ row.password = c.password

\* validate_userpass, and what the middleware makes of its answer.
Authenticates(c, row) ==
  /\ row # None
  /\ row.password = c.password
  /\ row.change_password => c.params.userpass = "lenient"

\* UsernamePasswordAuth.  Without a result the request reaches EnsureAuth
\* unauthenticated, or is answered here; either way it ends.
validate_userpass(p) ==
  /\ call[p] # None /\ call[p].pc = "userpass"
  /\ Continue(p, IF call[p].params.userpass # "off" /\ Authenticates(call[p], RowOf(call[p]))
                 THEN [call[p] EXCEPT !.pc = "totp"] ELSE None)
  /\ Reads

\* JwtAuth: the realm's providers vouch for the user (or do not: abandon).
JwtAuth(p) ==
  /\ call[p] # None /\ call[p].pc = "jwt"
  /\ Continue(p, IF call[p].params.jwt THEN [call[p] EXCEPT !.pc = "totp"] ELSE None)
  /\ Reads

SchemeOf(c) == IF c.password = None THEN "jwt" ELSE "up"

\* Mutant: the roles of the credential are given to every scheme.
Factored_AllRoles(c) == [c EXCEPT !.pc = "roles"]

\* The login goes on once the second factor is settled.
Factored(c) == [c EXCEPT !.pc = IF SchemeOf(c) = "up" THEN "roles" ELSE "issue"]

\* The WHERE clause of the TOTP statements: they look at admins only.
Linked(u) == admin[u] # None /\ admin[u].linked

\* login asks is_totp_enabled; enabled without a code is answered TotpRequired.
is_totp_enabled(p) ==
  /\ call[p] # None /\ call[p].pc = "totp"
  /\ LET u == call[p].user
     IN Continue(p, IF ~(Linked(u) /\ admin[u].totp_enabled) THEN Factored(call[p])
                    ELSE IF call[p].code = None THEN None
                    ELSE [call[p] EXCEPT !.pc = "secret"])
  /\ Reads

\* Mutant: an admin without a secret passes.
Matches_NoSecret(c, secret) == secret \in {None, c.code}

\* Totps::validate_token on the stored secret.
Matches(c, secret) == secret # None /\ secret = c.code

get_totp_secret(p) ==
  /\ call[p] # None /\ call[p].pc = "secret"
  /\ LET u == call[p].user
     IN Continue(p, IF Linked(u) /\ Matches(call[p], admin[u].totp_secret)
                    THEN Factored(call[p]) ELSE None)
  /\ Reads

\* Mutant: a credential that has gone leaves the roles undefined.
RolesIn_Null(row) == IF row = None THEN None ELSE row.roles

RolesIn(row) == IF row = None THEN NoRoles ELSE row.roles

get_userpass(p) ==
  /\ call[p] # None /\ call[p].pc = "roles"
  /\ Continue(p, [call[p] EXCEPT !.pc = "issue", !.roles = RolesIn(RowOf(call[p]))])
  /\ Reads

ClaimsOf(c) == [realm |-> c.realm, user |-> c.user, scheme |-> SchemeOf(c), roles |-> c.roles]

\* issue_token and upsert_session.
issue_token(p) ==
  /\ call[p] # None /\ call[p].pc = "issue"
  /\ session' = session \cup {ClaimsOf(call[p])}
  /\ Continue(p, None)
  /\ UNCHANGED <<tables, changes>>

\* A statement fails, or the bearer token is refused.
abandon(p) ==
  /\ call[p] # None
  /\ Continue(p, None)
  /\ Reads

-----------------------------------------------------------------------------
\* The operations of Database that administrators' requests call.
Change ==
  /\ changes < MaxChanges
  /\ changes' = changes + 1
  /\ UNCHANGED <<session, call>>

update_realm(r, row) ==
  /\ Change
  /\ realm' = IF realm[r] = None THEN realm ELSE [realm EXCEPT ![r] = row]
  /\ UNCHANGED <<userpass, admin>>

create_realm(r, row) ==
  /\ Change
  /\ realm[r] = None
  /\ realm' = [realm EXCEPT ![r] = row]
  /\ UNCHANGED <<userpass, admin>>

\* DELETE FROM realm takes its credentials with it.
delete_realm(r) ==
  /\ Change
  /\ realm' = [realm EXCEPT ![r] = None]
  /\ userpass' = [x \in Realms \X Users |-> IF x[1] = r THEN None ELSE userpass[x]]
  /\ UNCHANGED admin

create_userpass(r, u, row) ==
  /\ Change
  /\ realm[r] # None /\ userpass[<<r, u>>] = None
  /\ userpass' = [userpass EXCEPT ![<<r, u>>] = row]
  /\ UNCHANGED <<realm, admin>>

\* PUT with a password, and without one: the metadata alone.
update_userpass(r, u, row) ==
  /\ Change
  /\ userpass' = IF userpass[<<r, u>>] = None THEN userpass
                 ELSE [userpass EXCEPT ![<<r, u>>] = row]
  /\ UNCHANGED <<realm, admin>>

update_userpass_metadata(r, u, change, roles) ==
  /\ Change
  /\ userpass' = IF userpass[<<r, u>>] = None THEN userpass
                 ELSE [userpass EXCEPT ![<<r, u>>].change_password = change,
                                       ![<<r, u>>].roles = roles]
  /\ UNCHANGED <<realm, admin>>

delete_userpass(r, u) ==
  /\ Change
  /\ userpass' = [userpass EXCEPT ![<<r, u>>] = None]
  /\ UNCHANGED <<realm, admin>>

\* totp_verify stores the secret its code was computed from.
enable_totp(u, secret) ==
  /\ Change
  /\ admin' = IF Linked(u)
              THEN [admin EXCEPT ![u].totp_enabled = TRUE, ![u].totp_secret = secret]
              ELSE admin
  /\ UNCHANGED <<realm, userpass>>

disable_totp(u) ==
  /\ Change
  /\ admin' = IF Linked(u)
              THEN [admin EXCEPT ![u].totp_enabled = FALSE, ![u].totp_secret = None]
              ELSE admin
  /\ UNCHANGED <<realm, userpass>>

create_admin(u, row) ==
  /\ Change
  /\ admin[u] = None
  /\ admin' = [admin EXCEPT ![u] = row]
  /\ UNCHANGED <<realm, userpass>>

\* UPDATE admin writes every column, the TOTP columns of the body included.
update_admin(u, row) ==
  /\ Change
  /\ admin' = IF admin[u] = None THEN admin ELSE [admin EXCEPT ![u] = row]
  /\ UNCHANGED <<realm, userpass>>

delete_admin(u) ==
  /\ Change
  /\ admin' = [admin EXCEPT ![u] = None]
  /\ UNCHANGED <<realm, userpass>>

-----------------------------------------------------------------------------
\* History: did the tables, at this moment, entitle the login to its session?
TotpInForce(u) == Linked(u) /\ admin[u].totp_enabled

HoldsPassword(c) ==
  /\ RowOf(c) # None /\ RowOf(c).password = c.password
  /\ RowOf(c).change_password => c.params.userpass = "lenient"

HoldsFactor(c) ==
  TotpInForce(c.user) => (c.code # None /\ admin[c.user].totp_secret = c.code)

HeldNow(p, c) == [password |-> held[p].password \/ HoldsPassword(c),
                  factor |-> held[p].factor \/ HoldsFactor(c),
                  roles |-> held[p].roles \cup {RolesIn(RowOf(c))}]

\* While a login is under way, everything that holds is noted.
Observe ==
  held' = [p \in Procs |-> IF call[p] = None \/ call'[p] = None THEN Nothing
                           ELSE HeldNow(p, call[p])]

Logins ==
  \E p \in Procs :
    \/ \E r \in Realms, u \in Users, pw \in Passwords \cup {None},
          code \in Secrets \cup {None} : ExtractRealm(p, r, u, pw, code)
    \/ validate_userpass(p) \/ JwtAuth(p)
    \/ is_totp_enabled(p) \/ get_totp_secret(p)
    \/ get_userpass(p) \/ issue_token(p)
    \/ abandon(p)

Changes ==
  \/ \E r \in Realms : delete_realm(r)
  \/ \E r \in Realms, row \in RealmRow : create_realm(r, row) \/ update_realm(r, row)
  \/ \E r \in Realms, u \in Users, row \in UserPass :
       create_userpass(r, u, row) \/ update_userpass(r, u, row)
  \/ \E r \in Realms, u \in Users, change \in BOOLEAN, roles \in Roles :
       update_userpass_metadata(r, u, change, roles)
  \/ \E r \in Realms, u \in Users : delete_userpass(r, u)
  \/ \E u \in Users, secret \in Secrets : enable_totp(u, secret)
  \/ \E u \in Users : disable_totp(u) \/ delete_admin(u)
  \/ \E u \in Users, row \in Admin : create_admin(u, row) \/ update_admin(u, row)

Next == (Logins \/ Changes) /\ Observe

Spec == Init /\ [][Next]_vars

-----------------------------------------------------------------------------
\* The login of p gets its session.
Issued(p) ==
  /\ call[p] # None /\ call[p].pc = "issue" /\ call'[p] = None
  /\ ClaimsOf(call[p]) \in session'

\* A session of the username and password scheme is only given to a login
\* whose password was, at some moment of the login, the one stored for that
\* user in that realm and not expired where the realm refuses expired ones,
\* whatever credentials and realms were changed around it (validate_userpass).
PasswordHeld ==
  [][\A p \in Procs : (Issued(p) /\ SchemeOf(call[p]) = "up") => held[p].password]_vars

\* No session without the second factor: at some moment of the login TOTP was
\* not in force for the user, or the code was computed from the secret stored
\* at that moment, although the flag and the secret are read one after the
\* other and may change in between (is_totp_enabled, get_totp_secret).
FactorHeld == [][\A p \in Procs : Issued(p) => held[p].factor]_vars

\* "a userpass row's roles are only trustworthy for the identity that actually
\* authenticated against it": the claims of a password login carry roles the
\* credential had during the login, those of a bearer token none, even when a
\* credential of the same name exists (login, get_userpass).
RolesOwned ==
  [][\A p \in Procs : Issued(p) =>
       call[p].roles \in (IF SchemeOf(call[p]) = "up" THEN held[p].roles ELSE {NoRoles})]_vars
=============================================================================
