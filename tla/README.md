# A formal model of the Cosmian authentication server

TLA+ specifications of the authentication server in `server/` (with the types of
`client/` that it shares), the TLC configurations that model-check them, and proofs that
TLAPS checks. Paths below are relative to the repository; `PROJECT.json` maps every
definition to the lines it models.

```
tlc -workers 2 -config sql_sessions.cfg MCSqlSessionStore     # one of the runs
tlapm SqlSessionStoreProofs.tla                               # the proofs of a module
```

## 1. The system

The server answers HTTP requests on several worker threads. Each handler is an `async`
function that makes one or more calls to shared stores; another request, or a background
task, can run between any two of them. Nearly nothing is a transaction: the exceptions are
the use of an AppRole secret id and, on MySQL, taking a pending SAML request. That is
where the difficulty of this code lies, and it is what the models are about: *which
statements a handler runs, in which order, with values read how long ago*.

| Component | State | Operations | Interacts with |
|---|---|---|---|
| SQL session stores (`session/impls/{sqlite,postgres,mysql}.rs`) | table `session` | `upsert_session`, `get_session` (SELECT, then UPDATE or DELETE), `get_sessions_for_clients`, `delete_sessions`, `delete_expired_sessions`, `delete_sessions_for_realm` | login, SAML login and the cookie middleware; the collector task |
| Redis session store (`session/impls/redis.rs`) | keys with a time to live, one index set per client | the same trait, several commands per operation | the same callers |
| Session endpoints and collector (`server/endpoints/sessions_endpoints.rs`, `stale_session_collector.rs`) | none of their own | look-up with optional logout; periodic purge | session stores |
| AppRole and app tokens (`server/endpoints/{approle,auth_token}.rs`, `app_token_extract.rs`) | tables `approle_roles`, `app_secret_ids`, `app_tokens` | create/delete role, generate/destroy secret id, login, renew, revoke | database |
| JWKS cache and JWT middleware (`middleware/jwt/`) | a map of realms to key sets behind an `RwLock` | `has_realm`, `upsert_realm`, `find_jwk`, `set_jwks`, `remove_realm`, clean-up task | identity providers over HTTP |
| SAML login (`saml/`) | the realm's SAML settings; tables (or Redis keys) of pending requests and of consumed assertions | save settings, start, consume a response, purge | identity providers, session stores |
| Realm and admin management (`server/endpoints/{super_admins,admin,realms}_endpoints.rs`, `database/trait.rs`) | tables `realm`, `admin`, `admin_realms`, `userpass` | create/update/delete of each, memberships, authorisation, first start | everything that reads realms and admins |
| Login pipeline and second factor (`middleware/{extract_realm,username_password,ensure_auth}.rs`, `client_endpoints.rs`, `totp.rs`) | none of its own: reads `realm`, `userpass`, `admin`, writes a session | `POST /login` | realm management changes what it reads; session stores |
| Cookie authentication and certificates (`middleware/cookie_auth.rs`, `whoami` and `certify` in `client_endpoints.rs`) | none of its own | session look-up for a request, certificate | session stores, realms |
| Login rate limit (`middleware/login_rate_limit.rs`, `auth_verifier.rs`) | a token bucket per worker and address | admit or refuse | `/login`, SAML scope |
| Kubernetes auth method (`server/endpoints/kubernetes.rs`) | table `k8s_roles` | role management, login with a service-account token | app tokens; key sets over HTTP |
| TLS, parameters, client library, admin UI | configuration or presentation | | |

**What makes each part correct**

- *Sessions*: served only within their maximum age and idle time, never after they
  ended, and eventually removed.
- *AppRole*: a secret id is good for as many logins as it was created for; revoked and
  expired tokens stay dead; no secret id without a role.
- *JWKS*: a realm only gets keys of its own providers, failing providers are not called
  at every request, and no request waits for ever.
- *SAML*: one session per request, one use per assertion, for as long as the assertion could
  be accepted, on every store; trust, redirection and identity follow settings in force during
  the login.
- *Kubernetes*: a token on the terms of one version of the role, for a service-account token
  signed with a key the cluster served during the login.
- *Gateway*: attempts within the buckets, certificates only for live sessions, and a live
  session answered with an error only if more time than the leeway passed between its clocks.
- *Administration*: references between tables hold, and nobody hands out a realm without
  authority over it.
- *Login*: no session without the password, the second factor and the roles that the tables
  held during the login.

The `hazards` of `PROJECT.json` list, at its line, everything in this code that a test
would hardly reach, with the property that would catch it going wrong, or the reason why
there is none yet.

## 2. The modules

Every module has the shape: `CONSTANTS` with named assumptions, the state as `VARIABLES`,
one action per statement (or per handler that makes one statement), `Next`, `Spec`, and the
properties at the end. A variable `call` holds, for every process in `Procs`, the request it
is handling (`login` in `K8sAuth`): the program counter and the values it read. Variables
marked *history* in their declaration are not in the program and no action's guard reads them.
Definitions that end in `_Name` are deliberately wrong variants of the definition below
them, used to show that the property they are listed with can fail.

| Module | Models | Extended or used by |
|---|---|---|
| `SessionLifecycle` | abstract: what a session store promises | `SqlSessionStore`, `RedisSessionStore` (as `INSTANCE`) |
| `SqlSessionStore` | SQL stores, session endpoints, collector | `MCSqlSessionStore`, `SqlSessionStoreProofs` |
| `RedisSessionStore` | Redis store, session endpoints | `MCRedisSessionStore`, `RedisSessionStoreProofs` |
| `AppTokens` | what the two methods that issue app tokens share: clock, names, the rule for `expiry` | `AppAuth`, `K8sAuth` (`EXTENDS`) |
| `AppAuth` | AppRole and app tokens | `MCAppAuth`, `AppAuthProofs` |
| `JwksManager` | key cache, its lock, requests, clean-up task, providers | `MCJwksManager`, `JwksManagerProofs` |
| `SamlLogin` | SAML login, its store and purge | `MCSamlLogin`, `SamlRealm` (`EXTENDS`) |
| `RealmAdmin` | administration, its authorisation, first start and restarts | `MCRealmAdmin`, `RealmAdminProofs` |
| `Login` | `POST /login` with TOTP, against every writer of what it reads | `MCLogin`, `LoginProofs` |
| `SamlRequestStore` | abstract: what the SAML store promises | `SamlRealm` (as `INSTANCE`) |
| `SamlRealm` | a realm's SAML settings, identity mapping, and the three kinds of store, on top of `SamlLogin` (`EXTENDS`) | `MCSamlRealm`, `SamlLoginProofs` |
| `K8sAuth` | Kubernetes roles and login | `MCK8sAuth`, `AppAuthProofs` |
| `LoginRateLimit` | the limiter of `/login` and `/saml` | `Gateway` (`EXTENDS`) |
| `Gateway` | composition: limiter, login, session store, cookie, `DELETE /sessions`, `certify` | `MCGateway`, `GatewayProofs` |

**SqlSessionStore.** `session` is the table (`created_at`, `stale_at`), `now` the clock,
`seen` the history of last uses. `get_session` is `get_session_select` followed by
`get_session_update` or `get_session_purge` with values computed from the SELECT.
`POST /sessions/{id}` with an action goes on to `get_sessions_for_clients` and
`logout_listed`. `delete_expired_sessions` is the collector. A statement may carry a clock
reading up to `Lag` seconds old. The realm and the client are functions of the identifier,
which is the digest of a token naming both. So are the columns `max_age_seconds` and
`max_stale_age_seconds`: sessions of one realm may have different ages, but an identifier
stored again has the ages it had before (section 6).

**RedisSessionStore.** `key` and `index` are the session keys and the index sets, each with
its expiry. Every Redis command is a step, so `upsert_session` is three, `get_session` up to
three, and listings and deletions clean the index one member at a time. The SCAN of
`delete_sessions_for_realm` is one step that returns the keys of that moment.

**AppAuth.** `role`, `secret`, `token` are the tables. Handlers that read and then write are
two actions (`approle_create_role`/`create_approle`,
`approle_generate_secret_id`/`create_secret_id`, `approle_login`/`consume_secret_id`/
`issue_app_token`, `AppTokenExtract`/`renew_app_token`). `consume_secret_id` is one step,
being one transaction that locks the row. Expiry 0 is "never". Random values are drawn once
(`drawn`).

**JwksManager.** `cache` is the map; `guard` and `doomed` are the clean-up task's read guard
and its list; `CanRead` and `CanWrite` are the lock. A waiting writer keeps new readers out,
as the standard library's lock does on Linux. `fetch_all` runs without the lock and may fail
for any provider; `rotate` changes the keys of a provider at any time. Whether a provider's
signature and claim checks accept a token is left open, so a request may go on to the next
provider.

**SamlLogin.** `pending` and `seen` are the tables. `take_pending_request` is the
`DELETE ... RETURNING`, `record_assertion_id` the INSERT that refuses a known assertion;
`validate_saml_response` lies between them. The clock counts half seconds because issue
instants have fractions and the store keeps whole seconds. Every statement may run any time
after the clock was read for it. XML parsing, signatures and the mapping of attributes are a
nondeterministic refusal (`abandon`).

**RealmAdmin.** `realms`, `admin`, `member`, `creds` are the tables, `boot` the progress of
the start. `AdminAuth` and `Requester` authenticate; `Check` and `CheckAdmin` are
`can_manage_realm` and `can_manage_admin_realms`, whose claim check reads the admins and then
the realms of each (`list_admins`, `list_admins_realms`). `update_admin` is an UPDATE
(`update_admin_row`), a DELETE (`update_admin_unassign`) and one `assign` per membership.
`stop` may fall between any two statements, of requests and of `initialize_db`. Reading the
requester is one step; the order in which lists are walked is arbitrary.

**Login.** `realm`, `userpass`, `admin` are the tables, reduced to the columns a login
reads; `call` a login between two of its statements: `ExtractRealm`, `validate_userpass` or
`JwtAuth`, `is_totp_enabled`, `get_totp_secret`, `get_userpass`, `issue_token`. The other
actions are the writing operations of the trait `Database`; any may follow any other, which
includes every sequence the handlers of `RealmAdmin` produce. `held` is the history of what the
tables granted at some moment of the login. A one-time code stands for the secret it was
computed from: the time window of a code and the chance of a guess are not modelled.

**SamlRealm.** The tables and actions are those of `SamlLogin`; each action here is one of
them with the settings and the store added. `save_realm` checks a body as
`validate_saml_params` does and keeps what the login uses of it. A login reads the settings
in `begin_login` and again in `begin_acs`; the return URL chosen at the first (`url`) is
followed after the second. `backend` is fixed at the start: SQLite and PostgreSQL take a
request with `delete_returning`, MySQL with `select_for_update` and `delete_and_commit` (`lock`
holds the transactions that have selected a row, one at a time because of `Lockable`;
`delete_and_commit` returns what was selected without looking again, and `abandon_acs` rolls back), Redis with `getdel` and keys that end at
`expiry`. `SamlLoginSpec` is `SamlLogin`'s specification, so what is proved of `SamlLogin`
holds of all three stores (section 5 proves it); `StoreContract` is the trait as `SamlRequestStore` states it, with
`taken` and `fresh` as its history. An assertion answers one request, and a request is taken
once: the branch of `record_assertion` that meets a replay is a second line of defence that
no run of this module needs.

**K8sAuth.** `k8s_role` and `app_token` are the tables, `published` the key set each URL serves.
`k8s_login`, `fetch_jwks`, `decide` and `k8s_issue` are the login; `k8s_create_role` makes
the checks of the body and stores `RoleOf`; `rotate` changes the key set at any time. A key set
is not cached between logins. `held` is the history of the role's versions and the keys served
during a login.

**LoginRateLimit, Gateway.** `level` is the bucket of each worker and address. The clock
counts seconds, and the limiter's sustained rate is taken as one request per second.
`issue_token` sets the `iat` and `exp` of the token and the extra claims of the user, which may
include reserved names in rows provisioned long ago (`Extras`). `upsert_session` inserts the
row with any clock reading between the issue and the INSERT. `get_session` reads the clock,
`get_session_select` the row, and `get_session_purge` deletes it or `get_session_update`
refreshes it and validates its token. Nothing bounds the time between two of these steps.
`certify` reads the realm again. Sessions are ended by `DELETE /sessions`, with their realm and
by the collector; the logout actions of `POST /sessions/{id}` are in `SqlSessionStore`.
`delete_realm` leaves the sessions of the realm. How a login is authenticated is the subject of
`Login`, and rows that `POST /sessions` stores with values of the caller's choice are left to
`SqlSessionStore`.

## 3. The runs

| Run | Result | What it shows | Distinct states (about) |
|---|---|---|---|
| `sql_sessions` | pass | `RefreshCapped`, `IdleBounded`, refinement of `SessionLifecycle`, `ExpiredRowsCollected` | 136,000 |
| `redis_sessions` | pass | `TtlCapped`, refinement of `SessionLifecycle` | 2,123,000 |
| `app_auth` | pass | `UsesBounded`, `SecretsHaveRoles`, `NonExpiringStays`, `RevokedRefused`, `ExpiredStaysExpired` | 1,892,000 |
| `jwks_cache` | pass | `OwnKeysOnly`, `RefreshThrottled`, `LookupsAnswered` | 273,000 |
| `jwks_stale` | violation | the clean-up task waits for itself, and then everyone waits for it | |
| `saml_login` | pass | `RequestOnce`, `AssertionOnce`, `ReplayRemembered` | 22,000 (up to symmetry) |
| `realm_admin` | pass | `ReferencesHold`, `GrantsAuthorised` | 565,000 |
| `realm_first_start` | violation | a stop in `initialize_db` is never repaired | |
| `login` | pass | `PasswordHeld`, `FactorHeld`, `RolesOwned` | 589,000 |
| `saml_realm` | pass | refinement of `SamlLogin` and of `SamlRequestStore`, `TrustedDuringAcs`, `RedirectAllowed`, `IdentitySound` | 398,000 (up to symmetry) |
| `k8s_auth` | pass | `GrantOfOneRole`, `KeyServedDuringLogin` | 552,000 |
| `gateway` | pass | `AttemptsBounded`, `RefusedOnlyIfSlow`, `CertifiedWhileLive` | 1,449,000 (up to symmetry) |

Each passing run but `redis_sessions` and `saml_realm` also checks its module's
`TypeOK` (`K8sTypeOK` in `k8s_auth`). All are exhaustive for their
instance and none turns off the deadlock check.

**Bounds, and why they are enough.** Two processes are the smallest number at which one
handler's statements fall between another's; the handlers interact only through the
tables, pairwise. `login` has one process because logins write nothing another login
reads: what falls between its statements are the administrators' changes, of which it
allows two, from every state of the tables with one realm and one user (`Provisioned`) as
well as from the empty tables. Clocks (`MaxTime`) run past the longest lifetime of the
instance plus `Lag`, so that every deadline is met, missed and met exactly: age 3 and idle
time 2 under a clock of 5 (SQL), 6 and 2 under 7 (Redis), lifetimes 0 and 1 under 3
(AppRole), an acceptance window of three half seconds and pending requests of two seconds
under five half seconds (SAML), a refresh interval of 1 under 3 (JWKS). `realm_admin`
allows three requests, two at a time, from the fresh database and from one in which the
second realm has an administrator (`Claimed`), with stops and restarts at any point.
`saml_realm` has two processes, one request, two assertions signed with two certificates,
one change of settings and all three kinds of store, with a request that lives one second
and an acceptance window of one under four half seconds; its bodies each break one check.
`k8s_auth` has one process, because logins write nothing another login reads, and three
changes of the role or of the key set, the first of which creates the role: two fall into
a login. Two of its three keys share a `kid` and the third has none, and its service-
account tokens each miss one condition or lack one claim. `gateway` has two processes, two
workers with a burst of one, one session identifier, a leeway of one second, ages of one
and two under a clock of three, so that a second can pass both before the INSERT and before
the validation, users with and without a reserved claim, and one change of the realm. Where values are
interchangeable, symmetry is declared; no run that checks liveness uses it.

`jwks_cache` has a retention interval beyond its clock, so no entry goes stale in it: once
one does, `LookupsAnswered` fails, and that is the run `jwks_stale`.

**Fairness.** `ExpiredRowsCollected` assumes weak fairness of the collector's statement with
a fresh clock reading: the loop of `start_stale_session_collector` never ends and survives an
error. The clock of the model stops at `MaxTime`, so the property also says that collection
needs no further passage of time. `LookupsAnswered` assumes that requests run on while
nothing blocks them and that providers answer or fail; the code sets no timeout on that HTTP
call, so a provider that never answers is outside of the property. No other run assumes
fairness, and clients are never assumed to do anything.

## 4. Where the code and its documents disagree

The first two have a run that exhibits them (`findings` of `PROJECT.json`), and theorems say
that what the run reaches on one instance is final on all of them (section 5).

1. `jwks_stale`: `remove_stale_entries` takes the write lock under its own read guard;
   `jwks.rs:66` says "All operations are thread-safe."
2. `realm_first_start`: a stop between the statements of `initialize_db` leaves the server
   without its first administrator for good; `authorization_and_administration.md:256` says
   "At startup the server creates whichever of these is missing".

Known from building the models, without a run:

- On MySQL the column `session_id` is `VARCHAR(36)` (`session/impls/mysql.rs:34`) and an
  identifier is the 64 hexadecimal digits of a SHA-256 (`session/cookies.rs:12-17`): no session
  can be stored and found again, although `authentication_flows.md:375` says "Sessions are stored
  in the configured session backend (SQLite / PostgreSQL / MySQL / Redis)." The models take
  identifiers as opaque values.
- The index set of a client in Redis gets the time to live of one session
  (`session/impls/redis.rs:120`) and `get_session` (line 205) does not renew it, so a session in
  use disappears from listings and logouts; `redis.rs:14` says "Set of session_ids (without
  TTL)". `RedisSessionStore` has this behaviour.
- `approle_create_role` (`approle.rs:127`) reads the `role_id` and upserts every column: two
  creations that both read first give an existing role a second `role_id`; `app_auth_api.md:116`
  calls it "a stable UUID generated when the role is created". `AppAuth` has this behaviour; that
  no two roles share a `role_id` is proved all the same (`RoleIdsDistinctAlways`).
- `find_jwk` (`jwks.rs:298`) searches, after a refresh, the entry cloned before it; `jwks.rs:244`
  promises "either in cache or after refresh". `JwksManager` has this behaviour.
- `validate_k8s_jwt` tries every key when none has the header's `kid`; its first comment
  says that it does so when "no key in the JWKS declares a `kid`". The lists of a Kubernetes
  role are matched exactly or by `"*"`, while `client/src/dto/app_auth.rs:136` speaks of
  "glob patterns".
- `build_validation` requires only the claim `exp` (`kubernetes.rs:454-458`), and the JWT library
  compares `iss` and `aud` only with a claim that is there: a service-account token without
  them passes a role that binds them, although the comment at `kubernetes.rs:438-440` says "when
  `Some`, the JWT `iss` claim must match" and `client/src/dto/app_auth.rs:155` "the JWT must carry
  at least one matching audience value". `K8sAuth` has this behaviour (`Bound`), so
  `GrantOfOneRole` speaks of the claims a JWT carries. That the library skips absent claims is
  taken from its use here; its source is not part of the repository.
- A session that `get_session` still serves can be answered with an error. Its token expires
  counted from `issue_token`, its row counted from `upsert_session`, and the token is validated
  some time after the row was looked up. The clocks count whole seconds, so that milliseconds
  across two boundaries of a second exceed the "1 second leeway for clock skew"
  (`session/jwt.rs:138`). `Gateway` has this behaviour; `RefusedOnlyIfSlow` says that such delays
  are the only reason for it.
- `get_session` deletes by identifier alone: a session that another request refreshed after
  the SELECT is removed (`session/impls/sqlite.rs:142`; `session_management.md:224` says "Any
  authenticated request resets this timer").
- In the second of its deadline a session is served but not listed (`stale_at > now` in the
  listing against `now > stale_at` in `get_session`).
- Concurrent misses each start a download, although `jwks.rs:103` speaks of "a minimum refresh
  interval between fetches"; and `set_jwks` (line 222) stores an empty result, although line
  62 says "The cache retains previous data if all refreshes fail".
- An update of an admin's memberships written back from an earlier read drops a
  membership in a foreign realm granted meanwhile, which the comment on
  `remove_admin_from_realm` means to prevent; a stop after `delete_admin` leaves the
  credentials it should cascade to. That the claim check is not atomic with the grant is
  documented (`authorization_and_administration.md:363`).
- `update_admin` writes the TOTP columns of the request's body, although
  `api_reference.md:790` calls `totp_secret` "read-only via API"; an enrolment made between
  the read and the write of an admin is undone. Verifying a code for a user without an admin
  record stores nothing, although `api_reference.md:977` says "TOTP is now active for the user".
- The limiter of `/login` is built in `build_app`, once per worker
  (`auth_verifier.rs:332`, `:423`), so the burst "a single IP may send back-to-back"
  (`server_params.rs:90`) is per worker. `AttemptsBounded` is the bound that holds.

## 5. The proofs

The theorems hold for all values of the constants that satisfy the modules' assumptions:
any number of sessions, roles, requests, realms, users and concurrent processes, any
lifetimes and delays. The assumptions are that lifetimes, clock bounds and lags are natural
numbers, that look-up functions map into their sets, and that the value standing for "no row"
is not a row or a user. Two are more particular: the worker threads and a realm's
providers are finite sets (a bound on the attempts, and the number of providers a request has
left to try, only exist then), and the Redis keys of pending requests and of consumed assertions
differ (their prefixes do, `saml/impls/redis.rs:29` and `:34`). TLC evaluates them in the runs.

**`SqlSessionStoreProofs`**: `TypeCorrect`, `RefreshCappedAlways`, `IdleBoundedAlways` and
`Refinement`. `RefreshCapped` is not inductive, since an UPDATE writes a value computed from a
row that may have changed. The invariant `IInv` adds `PendingUpdate`: a value waiting to be
written is bounded by the clock plus the maximum age, by the last use plus the idle time, and,
if the row still exists, by that row's own absolute expiry plus `Lag`, *also when the row
was deleted and stored anew since the SELECT*; and `ClockInv`, that nothing lies in the
future. From `IInv` every statement is a step of `SessionLifecycle` or a stutter.

**`AppAuthProofs`**: `AppTypeCorrect`, `AppTypeOKAlways`, `UsesBoundedAlways`, `NonExpiringAlways`,
`RevokedAlways`, `ExpiredAlways`, `SecretsHaveRolesAlways`. `UseInv` counts: uses left plus
uses made never exceed the uses granted, and a secret id still to be inserted was drawn by one
request and never used. `TokenInv` says that a token stored, revoked or held was drawn, and that
a revoked one is no longer in the table, so that a renewal under way finds no row.
`RoleIdsDistinctAlways` is what lets `approle_login` look a role up by its `role_id`. It needs
`RoleIdInv`: a `role_id` was drawn, and it belongs to one name only, whether it is in the table
or held by creations under way, of which several may hold the one they read (`HoldsId`).

The second half of the module is about `K8sAuth`: `K8sTypeCorrect`, `FoundedInvariance`,
`GrantOfOneRoleAlways`, `KeyServedAlways`, `K8sRowsSoundAlways`. As in `LoginProofs`, the
properties speak of the step that stores the token only, and `LoginsFounded` says what each
point before it rests on: the role row the login carries and the keys it downloaded are in its
history `held`, which later changes only add to, and past the decision the JWT was admitted by
that very row, agrees with its issuer and audiences in the claims it carries, and its key was
among those. Nothing is required of the role as it is when the
token is stored, and the code re-reads nothing. `K8sRowsSound` is the link to `AppAuth`: rows of
this method satisfy what `NonExpiringStays` asks, so renewing them keeps it.

**`SamlLoginProofs`**: `SamlTypeCorrect`, `SamlTypeOKAlways`, `RequestOnceAlways`, `AssertionOnceAlways`,
`ReplayRememberedAlways`. `OneHolder` is the life of a request identifier: not generated,
pending, held by exactly one process, or over. `BoundTo` ties the assertion a process holds
to its request and `UsesCounted` bounds the uses of an assertion by the sessions of the request it
answers, which is why an assertion is used once even after its replay entry was purged.
`EntryUntil` and `EntryKept` give the replay cache, with the lemma `Seconds` on rounding. The
theorems allow any subset of the expired entries to be purged at a time, which is what the
expiring keys of Redis need.

The second half of the module is about `SamlRealm`. `SamlLoginRefinement`: every step of every
store is a step of `SamlLogin`, so `SingleUseOnEveryStore` follows from the theorems above.
The argument is that a purge with an older clock reading deletes no more than one of now
(`PurgeSteps`) and that a Redis key ends no earlier than the second its entry is kept until
(`ExpiryInv`): a time to live is computed from a clock that was read before the command
arrives and rounded down, and both errors lengthen the key's life (`TtlEnough`).
`LockInv` is what MySQL's transaction needs: the DELETE goes by the identifier and the row that
was selected is handed out whether or not it is still there, so a transaction that has selected
a row must be the only one (`Selected`), with the row untouched until it ends.
`StoreRefinement` shows the contract `SamlRequestStore` with `StoreInv`: what was handed out
is gone and was handed out once, and what was called new is in the store until it need not be. `AnswerInv` carries
`TrustedDuringAcsAlways`, `RedirectAllowedAlways` and `IdentitySoundAlways`: settings are sound
when they are saved, a response keeps those it read, their certificates are among the ones
observed during it, and past its validation one of them signed the assertion.

**`LoginProofs`**: `LoginTypeCorrect`, `EntitledInvariance`, `PasswordHeldAlways`,
`FactorHeldAlways`, `RolesOwnedAlways`. The properties speak of the last step of a login only;
the invariant `CallsEntitled` says what is established at each point before it. The argument
is that each read establishes its fact for the moment it runs at, and that what was observed
of a login stays observed (`HeldGrows`), so no later change by an administrator matters.

**`RealmAdminProofs`**: `RealmTypeCorrect`, `RealmTypeOKAlways`, `ReferencesHoldAlways`,
`GrantsAuthorisedAlways`. `ReferencesHold` is inductive together with the types and `BootInv`:
while the server starts no request is under way, and each statement of `initialize_db` finds
what the ones before it wrote. A foreign key makes each INSERT re-check what a handler read
before, which is why no interleaving breaks it. `GrantsAuthorised` needs `AuthorityInv`: a
request whose requester is not a super admin never enters the claim check, never writes back a
list of realms larger than the one its requester had, and names no other realm (`Limited`).
The same invariant gives `OwnersOnlyAlways`: realms are created by super admins only, and
deleted or given credentials only by super admins and by those who administered them when the
request was authenticated; the check is not repeated at the write.

The last part of the module is the first start. `CompletedStartSeeds`: a start that runs the
last statement of `initialize_db` leaves the realm, the credential, the admin and the
membership in place (`SeedInv` says what each statement finds). `LockedOutForGood` is the other
side: a database with a realm and without an admin who can sign in, and with no request
under way (`LockedOut`), admits no request, and `init` skips `initialize_db` because there is a realm, so nothing ever changes
that. The run `realm_first_start` shows how it is reached.

**`RedisSessionStoreProofs`**: `RedisInvariant`, `RedisTypeCorrect`, `TtlCappedAlways`,
`RedisRefinement`. The invariant `IInv` has the shape of the SQL one. `PendingRefresh` bounds a
time to live whose EXPIRE has not run, *also by a key that was stored after the GET it comes
from*; that is where `TtlCapped` gets its second `Lag`. A zero age is included: its key gets one second. `KeyInv` says that a key ends within the
idle time and the latency of its last use. From it every command is a step of
`SessionLifecycle` or a stutter.

**`JwksManagerProofs`**: `JwksTypeCorrect`, `OwnKeysOnlyAlways`, `RefreshThrottledAlways`.
`OwnInv` adds to `OwnKeysOnly` that what a request has downloaded and not stored yet was
published by the realm's providers, whatever was rotated since. `ThrottleInv` says that a
handler's last refresh of a realm is still going on, or that the entry, if there is one, was
stored after it began (`Settled`): failed downloads are stored too, and an entry that was
removed meanwhile is stored with a later time.

The last part is the lock. `LockInv` ties the list of stale entries to the guard under which it
was made. `CleanerWaitsForItself`: once the list is not empty, it and the guard stay for ever.
`StaleEntryBlocks`: from then on the cache does not change and no request moves that is not in
a download, whose end leaves it with something to store and no way to store it. So the run
`jwks_stale` is not an artefact of its bounds. `LockFreeBeforeRetention` is why `jwks_cache` can
check `LookupsAnswered`: up to the retention interval the lock admits everybody at every moment.

**`GatewayProofs`**: `AttemptsBoundedAlways`, `GatewayTypeCorrect`, `RefusedOnlyIfSlowAlways`,
`CertifiedWhileLiveAlways`. The bound on the attempts is by counting: `Used(i)` has one element
for each token that is missing from the buckets of address `i`; an attempt adds one, a period
takes at most one per worker, and `LimiterInv` keeps the excess at or below their number.
`GatewayInv` says of every stored row that its absolute expiry is as far beyond the `exp` of its
token as its creation is beyond the token's `iat` (`RowSound`), which a refresh leaves alone, and
of a request about to refresh a row that it found it unexpired; `RefusedOnlyIfSlow` is then
arithmetic, without any assumption on the delays.
`LiveInv` adds that a request whose session is served has seen it live, which nothing that
happens to the row afterwards takes back.

**Only model-checked.** Every invariant and every action property of the passing runs, and
every refinement, is stated by a theorem. The two liveness properties (`ExpiredRowsCollected`,
`LookupsAnswered`) are not: liveness under fairness is out of the prover's reach and stays with
TLC. That the states of the two violating runs are reachable is TLC's result too; the theorems
`LockedOutForGood`, `CleanerWaitsForItself` and `StaleEntryBlocks` say what follows from them.
No module uses recursion.

## 6. Abstractions

- The three SQL dialects run the same statements, except where `SamlRealm` tells them apart.
  The models are mapped to the SQLite text, except `Login`, mapped to the PostgreSQL text,
  `K8sAuth`, mapped to the MySQL text, and `Gateway`, whose session statements are mapped to
  the PostgreSQL text and whose realm operations to the MySQL text.
- A session's row in `SqlSessionStore` may be stored again under its identifier once it is
  gone; storing it while it exists fails, as the INSERT does. It then has the same ages:
  `POST /sessions` could store it with others while a `get_session` of the row it had before is
  under way, whose UPDATE would write a deadline computed from the earlier ages. `RefreshCapped`
  and `IdleBounded`, and their counterparts in `RedisSessionStore`, do not cover that.
- Administrators authenticate by the userpass scheme in `RealmAdmin`; the other columns that
  `find_admins_by_auth_scheme` can search (`database/impls/sqlite.rs:949-952`) are left out.
- Passwords, secrets, policies and roles are opaque values; hashing, signatures, XML and
  JSON are their outcome: accepted or refused.
- Read-only endpoints have no action. Error texts, logging and HTTP details are left out.
- What the JWT library does with a claim is external: an absent `iss`, `aud` or `nbf` is not
  compared, an absent `exp` is refused because it is required.
- SAML metadata is the record of what parses out of it. The roles of an assertion, its
  attributes' values and the size limit of the extra claims are abstracted.
- A NULL in `totp_enabled` reads as false in all three dialects and is modelled as false.

## 7. What is not modelled, and the plan

Not modelled: TLS and configuration (no protocol state), the client library (one HTTP call
per method), the admin UI (presentation), OpenAPI and development seeding. Of two-factor
authentication, the time window of a code and the realm's TOTP parameters.

Next, in this order:

1. **TwoFactor**: generate, verify and login with a clock, codes of a period and the realm's
   TOTP parameters as a variable, so that a change between enrolment and login is covered.
2. **Realm providers as variables** of `JwksManager`, changed by realm updates; time-outs of
   downloads.
3. **Lost updates of memberships** in `RealmAdmin`, with the TOTP columns.

Each comes with its theorems: for the first, that a session with a second factor rests on a
code of a period the clock was in during the login; for the second, `OwnKeysOnly` with the
providers a realm had when its entry was added.
