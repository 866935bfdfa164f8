------------------------------- MODULE AppAuth -------------------------------
(***************************************************************************)
(* The AppRole auth method and the app tokens it issues: the handlers of   *)
(* server/endpoints/approle.rs and auth_token.rs, the AppTokenExtract      *)
(* middleware, and the tables approle_roles, app_secret_ids and app_tokens *)
(* behind them (database/impls).                                           *)
(*                                                                         *)
(* A database call is one step, except that consume_secret_id is one       *)
(* transaction that locks the row; handlers that make several calls        *)
(* interleave.  A statement carries a clock reading up to Lag old.  Names  *)
(* of policies are left out; every token of this method is renewable.      *)
(***************************************************************************)
EXTENDS AppTokens, FiniteSets

CONSTANTS
  RoleIds, SecretIds,  \* random values; a secret id is its accessor too
  TokenTtls,    \* values of token_ttl, 0 = non-expiring
  SecretTtls,   \* values of secret_id_ttl and of the ttl override
  NumUses,      \* values of num_uses in a request
  Lag           \* seconds from reading the clock to running the statement

ASSUME AppTtlAssumption ==
  /\ TokenTtls \subseteq Nat /\ SecretTtls \subseteq Nat /\ NumUses \subseteq Int
ASSUME AppClockAssumption == Lag \in Nat /\ MaxTime \in Nat
ASSUME AppNoneAssumption ==
  /\ None \notin [role_id : RoleIds, secret_id_ttl : SecretTtls,
                  token_ttl : TokenTtls, bind_secret_id : BOOLEAN]
  /\ None \notin [role_name : Names, expiry : Nat, uses : Int]
  /\ None \notin [expiry : Nat, lease : TokenTtls]

VARIABLES
  role,         \* table approle_roles
  secret,       \* table app_secret_ids
  token,        \* table app_tokens
  call,         \* the request each process is handling
  drawn,        \* random values already generated
  granted,      \* history: the uses each secret id was created with
  logins,       \* history: how often a limited secret id was accepted
  revoked       \* history: the tokens that were revoked

vars == <<now, role, secret, token, call, drawn, granted, logins, revoked>>

Role == [role_id : RoleIds, secret_id_ttl : SecretTtls, token_ttl : TokenTtls,
         bind_secret_id : BOOLEAN]
Secret == [role_name : Names, expiry : Nat, uses : Int]
Token == [expiry : Nat, lease : TokenTtls]

\* What a handler keeps between its calls: the role it read or will write, the
\* secret id it was given or has made, and the token of the request.
Call == [pc : {"idle", "create_role", "insert_secret", "consume", "issue",
               "renew", "revoke"},
         name : Names \cup {None}, role : Role \cup {None},
         sid : SecretIds \cup {None}, row : Secret \cup {None},
         token : Tokens \cup {None}]

TypeOK ==
  /\ now \in Nat
  /\ role \in [Names -> Role \cup {None}]
  /\ secret \in [SecretIds -> Secret \cup {None}]
  /\ token \in [Tokens -> Token \cup {None}]
  /\ call \in [Procs -> Call]
  /\ drawn \subseteq RoleIds \cup SecretIds \cup Tokens
  /\ granted \in [SecretIds -> Int]
  /\ logins \in [SecretIds -> Nat]
  /\ revoked \subseteq Tokens

Holding(pc, n, r, x, row, k) ==
  [pc |-> pc, name |-> n, role |-> r, sid |-> x, row |-> row, token |-> k]

Idle == Holding("idle", None, None, None, None, None)

Init ==
  /\ now = 0
  /\ role = [n \in Names |-> None]
  /\ secret = [x \in SecretIds |-> None]
  /\ token = [k \in Tokens |-> None]
  /\ call = [p \in Procs |-> Idle]
  /\ drawn = {}
  /\ granted = [x \in SecretIds |-> 0]
  /\ logins = [x \in SecretIds |-> 0]
  /\ revoked = {}

\* The clock readings a statement running now may carry.
Readings == {t \in (now - Lag)..now : t >= 0}

\* WHERE expiry = 0 OR expiry > now.
Unexpired(row, t) == row.expiry = 0 \/ row.expiry > t

Continue(p, c) == call' = [call EXCEPT ![p] = c]
Finish(p) == Continue(p, Idle)

-----------------------------------------------------------------------------
\* POST /auth/approle/role/{name}: the role_id of the row that exists, or a new
\* one ...
approle_create_role(p, n, secret_ttl, token_ttl, bind) ==
  /\ call[p].pc = "idle"
  /\ \E id \in RoleIds :
       /\ IF role[n] # None
          THEN id = role[n].role_id /\ UNCHANGED drawn
          ELSE id \notin drawn /\ drawn' = drawn \cup {id}
       /\ LET r == [role_id |-> id, secret_id_ttl |-> secret_ttl,
                     token_ttl |-> token_ttl, bind_secret_id |-> bind]
          IN Continue(p, Holding("create_role", n, r, None, None, None))
  /\ UNCHANGED <<now, role, secret, token, granted, logins, revoked>>

\* ... then INSERT ... ON CONFLICT(name) DO UPDATE of every column.
create_approle(p) ==
  /\ call[p].pc = "create_role"
  /\ role' = [role EXCEPT ![call[p].name] = call[p].role]
  /\ Finish(p)
  /\ UNCHANGED <<now, secret, token, drawn, granted, logins, revoked>>

\* Mutant: the secret ids of the role stay behind.
delete_approle_NoCascade(n) ==
  /\ role' = [role EXCEPT ![n] = None]
  /\ UNCHANGED <<now, secret, token, call, drawn, granted, logins, revoked>>

\* DELETE of the row; its secret ids go with it, tokens do not.
delete_approle(n) ==
  /\ role' = [role EXCEPT ![n] = None]
  /\ secret' = [x \in SecretIds |->
                  IF secret[x] # None /\ secret[x].role_name = n
                  THEN None ELSE secret[x]]
  /\ UNCHANGED <<now, token, call, drawn, granted, logins, revoked>>

\* Mutant: the number of uses is left out.
UsesFor_Null(n) == IF n > 0 THEN n ELSE None

\* A number of uses that is not positive means unlimited, stored as -1.
UsesFor(n) == IF n > 0 THEN n ELSE -1

\* POST .../secret-id: the role is read, the row computed ...
approle_generate_secret_id(p, n, ttl, num_uses) ==
  /\ call[p].pc = "idle"
  /\ role[n] # None
  /\ \E x \in SecretIds \ drawn :
       /\ drawn' = drawn \cup {x}
       /\ LET life == IF ttl > 0 THEN ttl ELSE role[n].secret_id_ttl
              row == [role_name |-> n, expiry |-> ExpiryAt(now, life),
                      uses |-> UsesFor(num_uses)]
          IN Continue(p, Holding("insert_secret", None, None, x, row, None))
  /\ UNCHANGED <<now, role, secret, token, granted, logins, revoked>>

\* ... and inserted, unless the role has gone: role_name is a foreign key.
create_secret_id(p) ==
  /\ call[p].pc = "insert_secret"
  /\ LET x == call[p].sid
     IN IF role[call[p].row.role_name] = None
        THEN UNCHANGED <<secret, granted>>
        ELSE /\ secret' = [secret EXCEPT ![x] = call[p].row]
             /\ granted' = [granted EXCEPT ![x] = call[p].row.uses]
  /\ Finish(p)
  /\ UNCHANGED <<now, role, token, drawn, logins, revoked>>

\* POST .../secret-id/destroy.
destroy_secret_id(n, x) ==
  /\ secret' = [secret EXCEPT ![x] =
                  IF @ # None /\ @.role_name = n THEN None ELSE @]
  /\ UNCHANGED <<now, role, token, call, drawn, granted, logins, revoked>>

-----------------------------------------------------------------------------
\* POST /auth/approle/login: the role is looked up by its role_id.  A request
\* without a secret id is refused if the role binds one, and a secret id is
\* ignored if it does not ...
approle_login(p, n, x) ==
  /\ call[p].pc = "idle"
  /\ role[n] # None
  /\ role[n].bind_secret_id => x # None
  /\ Continue(p, IF role[n].bind_secret_id
                 THEN Holding("consume", n, role[n], x, None, None)
                 ELSE Holding("issue", n, role[n], None, None, None))
  /\ UNCHANGED <<now, role, secret, token, drawn, granted, logins, revoked>>

\* Mutant: the last use is counted down like the others.
AfterUse_CountToZero(row) == IF row.uses > 0 THEN [row EXCEPT !.uses = @ - 1] ELSE row

\* What consume_secret_id leaves of the row it matched.
AfterUse(row) ==
  IF row.uses = 1 THEN None
  ELSE IF row.uses > 1 THEN [row EXCEPT !.uses = @ - 1]
  ELSE row

\* ... its secret id is consumed, in one transaction ...
consume_secret_id(p) ==
  /\ call[p].pc = "consume"
  /\ LET x == call[p].sid
     IN \E t \in Readings :
          IF /\ secret[x] # None
             /\ secret[x].role_name = call[p].name
             /\ Unexpired(secret[x], t)
          THEN /\ secret' = [secret EXCEPT ![x] = AfterUse(secret[x])]
               /\ logins' = [logins EXCEPT ![x] =
                              IF granted[x] > 0 THEN @ + 1 ELSE @]
               /\ Continue(p, Holding("issue", call[p].name, call[p].role,
                                        None, None, None))
          ELSE /\ Finish(p)
               /\ UNCHANGED <<secret, logins>>
  /\ UNCHANGED <<now, role, token, drawn, granted, revoked>>

\* ... and a token is issued, on the terms of the role that was read.
issue_app_token(p) ==
  /\ call[p].pc = "issue"
  /\ \E k \in Tokens \ drawn, t \in Readings :
       /\ drawn' = drawn \cup {k}
       /\ token' = [token EXCEPT ![k] =
                     [expiry |-> ExpiryAt(t, call[p].role.token_ttl),
                      lease |-> call[p].role.token_ttl]]
  /\ Finish(p)
  /\ UNCHANGED <<now, role, secret, granted, logins, revoked>>

-----------------------------------------------------------------------------
\* AppTokenExtract: the token of a renew-self or revoke-self request is looked
\* up before the handler runs.
AppTokenExtract(p, k, op) ==
  /\ call[p].pc = "idle"
  /\ token[k] # None
  /\ \E t \in Readings : Unexpired(token[k], t)
  /\ Continue(p, Holding(op, None, None, None, None, k))
  /\ UNCHANGED <<now, role, secret, token, drawn, granted, logins, revoked>>

\* Mutants: expired tokens are renewed; non-expiring tokens are renewed.
Renewable_Expired(row, t) == row.expiry > 0
Renewable_NonExpiring(row, t) == Unexpired(row, t)

\* WHERE renewable = 1 AND expiry > 0 AND expiry > now.
Renewable(row, t) == row.expiry > 0 /\ row.expiry > t

\* UPDATE of the expiry; the answer is a second, read-only, lookup.
renew_app_token(p) ==
  /\ call[p].pc = "renew"
  /\ LET k == call[p].token
     IN \E t \in Readings :
          token' = IF token[k] # None /\ Renewable(token[k], t)
                   THEN [token EXCEPT ![k] =
                          [expiry |-> t + token[k].lease, lease |-> token[k].lease]]
                   ELSE token
  /\ Finish(p)
  /\ UNCHANGED <<now, role, secret, drawn, granted, logins, revoked>>

\* Mutant: the token is made to expire instead of being deleted.
revoke_app_token_Expire(p) ==
  /\ call[p].pc = "revoke"
  /\ LET k == call[p].token
     IN /\ token' = IF token[k] = None THEN token
                    ELSE [token EXCEPT ![k] =
                           [expiry |-> now, lease |-> token[k].lease]]
        /\ revoked' = revoked \cup {k}
  /\ Finish(p)
  /\ UNCHANGED <<now, role, secret, drawn, granted, logins>>

revoke_app_token(p) ==
  /\ call[p].pc = "revoke"
  /\ token' = [token EXCEPT ![call[p].token] = None]
  /\ revoked' = revoked \cup {call[p].token}
  /\ Finish(p)
  /\ UNCHANGED <<now, role, secret, drawn, granted, logins>>

-----------------------------------------------------------------------------
\* A database call fails, or the server stops, after an earlier call succeeded.
abandon(p) ==
  /\ call[p].pc # "idle"
  /\ Finish(p)
  /\ UNCHANGED <<now, role, secret, token, drawn, granted, logins, revoked>>

Tick ==
  /\ now < MaxTime
  /\ now' = now + 1
  /\ UNCHANGED <<role, secret, token, call, drawn, granted, logins, revoked>>

Handle(p) ==
  \/ \E n \in Names, st \in SecretTtls, tt \in TokenTtls, b \in BOOLEAN :
       approle_create_role(p, n, st, tt, b)
  \/ create_approle(p)
  \/ \E n \in Names, ttl \in SecretTtls, u \in NumUses :
       approle_generate_secret_id(p, n, ttl, u)
  \/ create_secret_id(p)
  \/ \E n \in Names, x \in SecretIds \cup {None} : approle_login(p, n, x)
  \/ consume_secret_id(p)
  \/ issue_app_token(p)
  \/ \E k \in Tokens, op \in {"renew", "revoke"} : AppTokenExtract(p, k, op)
  \/ renew_app_token(p)
  \/ revoke_app_token(p)
  \/ abandon(p)

Next ==
  \/ \E p \in Procs : Handle(p)
  \/ \E n \in Names : delete_approle(n)
  \/ \E n \in Names, x \in SecretIds : destroy_secret_id(n, x)
  \/ Tick

Spec == Init /\ [][Next]_vars

-----------------------------------------------------------------------------
\* "preventing replay": a secret id is accepted at most as often as it was
\* created for, however many logins present it at once and whichever of them
\* fail later (consume_secret_id).
UsesBounded ==
  \A x \in SecretIds : granted[x] > 0 => logins[x] <= granted[x]

\* Every secret id belongs to a role that exists, also when a role is deleted
\* while a secret id is being generated for it (delete_approle, create_secret_id).
SecretsHaveRoles ==
  \A x \in SecretIds : secret[x] # None => role[secret[x].role_name] # None

\* A token is non-expiring exactly when its lease is zero: a renewal never
\* turns a non-expiring token into one that has expired (renew_app_token).
NonExpiringStays ==
  \A k \in Tokens : token[k] # None => (token[k].expiry = 0 <=> token[k].lease = 0)

\* A revoked token is refused by every later lookup, whatever renewals of it
\* were already under way (revoke_app_token, renew_app_token).
RevokedRefused ==
  \A k \in revoked : token[k] = None \/ \A t \in Readings : ~Unexpired(token[k], t)

\* A token that has expired is never renewed: a request that passed the
\* middleware before the expiry comes too late (renew_app_token).
ExpiredStaysExpired ==
  [][\A k \in Tokens :
       (token[k] # None /\ token[k].expiry > 0 /\ token[k].expiry <= now - Lag)
         => token'[k] \in {token[k], None}]_vars
=============================================================================
