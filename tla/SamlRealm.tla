------------------------------ MODULE SamlRealm ------------------------------
(***************************************************************************)
(* SAML login as a realm configures it, on top of SamlLogin: the settings  *)
(* an administrator saves (saml/params_validation.rs), which a login reads *)
(* twice, once when it starts and once when the provider's response comes  *)
(* back; the return URL chosen in between; the identity the assertion is   *)
(* mapped to (saml/identity_mapping.rs); and the stores: SQLite and        *)
(* PostgreSQL, which delete and return a row in one statement, MySQL,      *)
(* which locks it in a transaction, and Redis, whose keys expire by        *)
(* themselves.                                                             *)
(***************************************************************************)
EXTENDS SamlLogin

CONSTANTS
  ADMIN_REALM,  \* the realm of the administrators, "_"
  Backends,     \* the stores to consider: "sqlite", "mysql", "redis"
  Certs,        \* signing certificates of the identity provider
  Attributes, ClaimNames, Reserved,
  Origins, HttpsOrigins,
  Bodies,       \* the SAML settings administrators submit
  Content,      \* what each assertion says
  MaxChanges    \* bound on the changes of settings

\* The metadata, as it parses: what it is, until when it holds, its SSO URL
\* for the redirect binding, its keys and the first NameID format.
Metadata == [kind : {"entity", "bundle", "other"}, valid_until : Nat \cup {None},
             sso : {"https", "http", "none"},
             keys : SUBSET [use : {"signing", "encryption", "unspecified"}, cert : Certs],
             nameid : {"transient", "persistent"}]
Body == [metadata : Metadata, acs : BOOLEAN, subject_attribute : BOOLEAN,
         claim_map : [Attributes -> ClaimNames \cup {None}],
         origins : SUBSET Origins, default : Origins]
SamlParams == [certs : SUBSET Certs, subject_attribute : BOOLEAN,
               claim_map : [Attributes -> ClaimNames \cup {None}],
               origins : SUBSET Origins, default : Origins]

\* An assertion: who signed it, whether it is addressed to this server and
\* states an authentication, its NameID, the number of values of the subject
\* attribute, and the other attributes it has.
Assertion == [cert : Certs, audience : BOOLEAN, authn : BOOLEAN,
              nameid : {"transient", "persistent", "none"}, subjects : Nat,
              attributes : SUBSET Attributes]

ASSUME SamlRealmAssumption ==
  /\ Bodies \subseteq Body /\ Content \in [Assertions -> Assertion]
  /\ Backends \subseteq {"sqlite", "mysql", "redis"} /\ MaxChanges \in Nat
  /\ HttpsOrigins \subseteq Origins /\ Reserved \subseteq ClaimNames
  /\ Requests \cap (Realms \X Assertions) = {}   \* the prefixes of the keys differ

VARIABLES
  backend,      \* the store this server was started with
  params,       \* the SAML settings of each realm
  login,        \* the login each process is starting
  acs,          \* what a response to the consumer service keeps
  url,          \* column return_url of saml_pending_request
  lock,         \* MySQL: the processes whose transaction has selected the row
  expiry,       \* Redis: when each key disappears, in half seconds
  changes,      \* the number of changes of settings so far
  taken, fresh, \* history: see SamlRequestStore
  allowed,      \* history: the origins allowed when each login started
  held          \* history: the certificates trusted during each response

added == <<backend, params, login, acs, url, lock, expiry, changes, taken, fresh,
           allowed, held>>
rvars == <<vars, added>>

Entries == Requests \cup (Realms \X Assertions)

RealmTypeOK ==
  /\ TypeOK
  /\ backend \in Backends
  /\ params \in [Realms -> SamlParams \cup {None}]
  /\ login \in [Procs -> [realm : Realms, url : Origins, allowed : SUBSET Origins] \cup {None}]
  /\ acs \in [Procs -> [req : Requests, realm : Realms, assertion : Assertions,
                        params : SamlParams] \cup {None}]
  /\ url \in [Requests -> Origins \cup {None}]
  /\ lock \in [Requests -> SUBSET Procs]
  /\ expiry \in [Entries -> Nat]
  /\ taken \in [Requests -> Nat]
  /\ fresh \in [Realms \X Assertions -> Nat \cup {None}]
  /\ allowed \in [Requests -> SUBSET Origins]
  /\ held \in [Procs -> SUBSET Certs]
  /\ changes \in Nat

-----------------------------------------------------------------------------
\* A KeyDescriptor without use counts as a signing key.
signing_certificates(m) == {k.cert : k \in {x \in m.keys : x.use # "encryption"}}

\* A single entity that has not expired, with an https SSO URL for the
\* redirect binding and a signing certificate.
parse_idp_metadata(m, t) ==
  /\ m.kind = "entity"
  /\ m.valid_until # None => m.valid_until > t
  /\ m.sso = "https"
  /\ signing_certificates(m) # {}

\* No name of a claim the server sets itself.
reject_reserved_claim_names(names) == names \cap Reserved = {}

\* Mutant: any claim may be mapped to.
validate_identity_mapping_AnyClaim(b) == b.subject_attribute \/ b.metadata.nameid # "transient"

\* Transient NameIDs need a subject attribute; no claim is mapped to twice, and
\* no reserved one at all.
validate_identity_mapping(b) ==
  /\ b.subject_attribute \/ b.metadata.nameid # "transient"
  /\ \A x, y \in Attributes : (b.claim_map[x] = b.claim_map[y] /\ b.claim_map[x] # None) => x = y
  /\ reject_reserved_claim_names({b.claim_map[x] : x \in Attributes})

\* Mutant: the default is not compared with the list.
validate_return_urls_AnyDefault(b) == b.origins \subseteq HttpsOrigins /\ b.default \in HttpsOrigins

validate_return_urls(b) ==
  /\ b.origins \subseteq HttpsOrigins
  /\ b.default \in HttpsOrigins
  /\ b.default \in b.origins

\* acs says that sp_entity_id and sp_acs_url are well formed.
validate_saml_params(b, t) ==
  /\ parse_idp_metadata(b.metadata, t)
  /\ b.acs
  /\ validate_identity_mapping(b)
  /\ validate_return_urls(b)

\* "SAML is never an administrator credential".
check_saml_params(r, b, t) == r # ADMIN_REALM /\ validate_saml_params(b, t)

ParamsOf(b) ==
  [certs |-> signing_certificates(b.metadata), subject_attribute |-> b.subject_attribute,
   claim_map |-> b.claim_map, origins |-> b.origins, default |-> b.default]

\* The settings realm r may have at time t.
Saved(r, t) == {ParamsOf(b) : b \in {x \in Bodies : check_saml_params(r, x, t)}} \cup {None}

RealmInit ==
  /\ Init
  /\ backend \in Backends
  /\ params \in {f \in [Realms -> UNION {Saved(r, 0) : r \in Realms}] :
                    \A r \in Realms : f[r] \in Saved(r, 0)}
  /\ login = [p \in Procs |-> None]
  /\ acs = [p \in Procs |-> None]
  /\ url = [q \in Requests |-> None]
  /\ lock = [q \in Requests |-> {}]
  /\ expiry = [e \in Entries |-> 0]
  /\ changes = 0
  /\ taken = [q \in Requests |-> 0]
  /\ fresh = [x \in Realms \X Assertions |-> None]
  /\ allowed = [q \in Requests |-> {}]
  /\ held = [p \in Procs |-> {}]

Change(r, settings) ==
  /\ changes < MaxChanges
  /\ changes' = changes + 1
  /\ params' = [params EXCEPT ![r] = settings]
  /\ UNCHANGED <<vars, backend, login, acs, url, lock, expiry, taken, fresh, allowed>>

\* POST and PUT of a realm with SAML settings.
save_realm(r, b) == check_saml_params(r, b, Sec(now)) /\ Change(r, ParamsOf(b))

\* The realm is deleted, or saved without SAML.
remove_settings(r) == Change(r, None)

-----------------------------------------------------------------------------
\* return_to if it is under an allowed origin, the default without one.
resolve_return_url(settings, to) == IF to = None THEN settings.default ELSE to

\* GET /saml/{realm}/login: the settings are read and the return URL chosen ...
begin_login(p, r, to) ==
  /\ login[p] = None /\ acs[p] = None
  /\ params[r] # None
  /\ to # None => to \in HttpsOrigins /\ to \in params[r].origins
  /\ login' = [login EXCEPT ![p] = [realm |-> r, url |-> resolve_return_url(params[r], to),
                                    allowed |-> params[r].origins]]
  /\ UNCHANGED <<vars, backend, params, acs, url, lock, expiry, changes, taken, fresh, allowed>>

\* Mutant: half of the seconds that are left.
Ttl_Short(until, t) == until - Sec(t)

\* ensure_unexpired at time t: the whole seconds that are left, on our clock.
Ttl(until, t) == 2 * (until - Sec(t))

\* ... and the pending request stored, unless it has expired meanwhile.  Redis
\* is given the seconds that are left.
store_pending_request(p, q) ==
  /\ login[p] # None
  /\ saml_login(q, login[p].realm)
  /\ \E t \in 0..now :
       /\ pending'[q].expires_at > Sec(t)
       /\ expiry' = [expiry EXCEPT ![q] = IF backend = "redis"
                                          THEN now + Ttl(pending'[q].expires_at, t) ELSE 0]
  /\ url' = [url EXCEPT ![q] = login[p].url]
  /\ allowed' = [allowed EXCEPT ![q] = login[p].allowed]
  /\ login' = [login EXCEPT ![p] = None]
  /\ UNCHANGED <<backend, params, acs, lock, changes, taken, fresh>>

\* The provider signs an assertion.
provider_issues(a, q) ==
  /\ issue(a, q)
  /\ UNCHANGED <<backend, params, login, acs, url, lock, expiry, changes, taken, fresh, allowed>>

-----------------------------------------------------------------------------
\* POST /saml/{realm}/acs: the cookie matches, the settings are read ...
begin_acs(p, q, r, a) ==
  /\ login[p] = None /\ acs[p] = None
  /\ q \in started /\ issued[a] # None
  /\ params[r] # None
  /\ acs' = [acs EXCEPT ![p] = [req |-> q, realm |-> r, assertion |-> a, params |-> params[r]]]
  /\ UNCHANGED <<vars, backend, params, login, url, lock, expiry, changes, taken, fresh, allowed>>

Posted(p) == acs[p] # None /\ call[p] = None

\* History: request q is handed to a response.
HandOut(q) == taken' = [taken EXCEPT ![q] = @ + 1]

\* SQLite, PostgreSQL: DELETE ... RETURNING.
delete_returning(p) ==
  /\ backend = "sqlite" /\ Posted(p)
  /\ take_pending_request(p, acs[p].req, acs[p].realm, acs[p].assertion)
  /\ HandOut(acs[p].req)
  /\ UNCHANGED <<backend, params, login, acs, url, lock, expiry, changes, fresh, allowed>>

\* Mutant: the SELECT is not FOR UPDATE.
Lockable_Any(q) == TRUE

\* FOR UPDATE waits for another transaction's lock.
Lockable(q) == lock[q] = {}

\* MySQL: SELECT ... FOR UPDATE ...
select_for_update(p) ==
  /\ backend = "mysql" /\ Posted(p)
  /\ LET q == acs[p].req
     IN /\ Lockable(q)
        /\ pending[q] # None /\ pending[q].realm = acs[p].realm
        /\ \E t \in 0..now : pending[q].expires_at > Sec(t)
        /\ lock' = [lock EXCEPT ![q] = @ \cup {p}]
  /\ UNCHANGED <<vars, backend, params, login, acs, url, expiry, changes, taken, fresh, allowed>>

\* ... then DELETE by the identifier and COMMIT; the row that was selected is
\* returned, whether or not the DELETE found it.
delete_and_commit(p) ==
  /\ backend = "mysql" /\ Posted(p)
  /\ LET q == acs[p].req
     IN /\ p \in lock[q]
        /\ pending' = Taken(q)
        /\ call' = [call EXCEPT ![p] = [pc |-> "validate", req |-> q, realm |-> acs[p].realm,
                                        assertion |-> acs[p].assertion]]
        /\ lock' = [lock EXCEPT ![q] = @ \ {p}]
        /\ HandOut(q)
  /\ UNCHANGED <<now, seen, issued, started, sessions, uses>>
  /\ UNCHANGED <<backend, params, login, acs, url, expiry, changes, fresh, allowed>>

\* "expiry is re-checked like the SQL backends do rather than trusting the TTL".
StillPending(row, t) == row.expires_at > Sec(t)

\* Redis: GETDEL of the key made of the realm and the request, under which
\* another realm's request is not found, then the check.
getdel(p) ==
  /\ backend = "redis" /\ Posted(p)
  /\ LET q == acs[p].req
     IN /\ pending[q] # None /\ pending[q].realm = acs[p].realm
        /\ IF StillPending(pending[q], now)
           THEN /\ take_pending_request(p, q, acs[p].realm, acs[p].assertion)
                /\ HandOut(q)
                /\ UNCHANGED acs
           ELSE /\ purge_pending({q}, now)
                /\ acs' = [acs EXCEPT ![p] = None]
                /\ UNCHANGED taken
  /\ UNCHANGED <<backend, params, login, url, lock, expiry, changes, fresh, allowed>>

\* Mutant: a response is accepted whoever signed it.
Trusts_Anyone(settings, a) == Content[a].audience /\ Content[a].authn

\* The signature is by a certificate of the settings, every audience
\* restriction names this server, and there is an AuthnStatement.
Trusts(settings, a) ==
  /\ Content[a].cert \in settings.certs
  /\ Content[a].audience
  /\ Content[a].authn

\* validate_saml_response with the settings read at the start.
check_response(p) ==
  /\ acs[p] # None
  /\ validate_saml_response(p)
  /\ call'[p] # None => Trusts(acs[p].params, acs[p].assertion)
  /\ acs' = IF call'[p] = None THEN [acs EXCEPT ![p] = None] ELSE acs
  /\ UNCHANGED <<backend, params, login, url, lock, expiry, changes, taken, fresh, allowed>>

\* SQL: INSERT OR IGNORE.  Redis: SET NX EX with the seconds that are left.
record_assertion(p) ==
  /\ record_assertion_id(p)
  /\ LET x == <<call[p].realm, call[p].assertion>>
     IN IF call'[p] = None
        THEN acs' = [acs EXCEPT ![p] = None] /\ UNCHANGED <<expiry, fresh>>
        ELSE /\ \E t \in 0..now :
                  /\ KeptUntil(x[2]) > Sec(t)
                  /\ expiry' = [expiry EXCEPT ![x] = IF backend = "redis"
                                                     THEN now + Ttl(KeptUntil(x[2]), t) ELSE 0]
             /\ fresh' = [fresh EXCEPT ![x] = KeptUntil(x[2])]
             /\ UNCHANGED acs
  /\ UNCHANGED <<backend, params, login, url, lock, changes, taken, allowed>>

\* Mutant: the format of the NameID is not looked at.
name_id_subject_AnyFormat(a) == Content[a].nameid # "none"

\* "The realm settings only see the format the IdP advertises, not the one it
\* sends."
name_id_subject(a) == Content[a].nameid = "persistent"

\* One value of the subject attribute, or the NameID.
HasSubject(settings, a) ==
  IF settings.subject_attribute THEN Content[a].subjects = 1 ELSE name_id_subject(a)

\* The claims of the session: the mapped attributes the assertion has.
extra_claims(settings, a) == {settings.claim_map[x] : x \in Content[a].attributes} \ {None}

\* map_identity, the token and the session, and the page that leads to the
\* return URL; a refusal is abandon_acs.
finish(p) ==
  /\ acs[p] # None
  /\ HasSubject(acs[p].params, acs[p].assertion)
  /\ saml_acs(p)
  /\ acs' = [acs EXCEPT ![p] = None]
  /\ UNCHANGED <<backend, params, login, url, lock, expiry, changes, taken, fresh, allowed>>

\* A check or a statement fails, or the server stops: the transaction is rolled
\* back.
abandon_acs(p) ==
  /\ acs[p] # None
  /\ IF call[p] # None THEN abandon(p) ELSE UNCHANGED vars
  /\ acs' = [acs EXCEPT ![p] = None]
  /\ lock' = [q \in Requests |-> lock[q] \ {p}]
  /\ UNCHANGED <<backend, params, login, url, expiry, changes, taken, fresh, allowed>>

abandon_login(p) ==
  /\ login[p] # None
  /\ login' = [login EXCEPT ![p] = None]
  /\ UNCHANGED <<vars, backend, params, acs, url, lock, expiry, changes, taken, fresh, allowed>>

-----------------------------------------------------------------------------
\* delete_expired of the SQL stores deletes every row that had expired, and
\* waits for locked ones; that of Redis does nothing.
delete_expired(t) ==
  /\ IF backend = "redis" THEN UNCHANGED vars
     ELSE \/ /\ \A q \in Requests : lock[q] = {}
             /\ purge_pending({q \in Requests : pending[q] # None /\ pending[q].expires_at <= Sec(t)}, t)
          \/ purge_seen({x \in DOMAIN seen : seen[x] # None /\ seen[x] <= Sec(t)}, t)
  /\ UNCHANGED <<backend, params, login, acs, url, lock, expiry, changes, taken, fresh, allowed>>

\* Redis drops a key when its time has come, and no later.
Due(e) == backend = "redis" /\ expiry[e] <= now
expire_key ==
  /\ \/ \E q \in Requests :
          /\ Due(q) /\ pending[q] # None
          /\ pending' = [pending EXCEPT ![q] = None] /\ UNCHANGED seen
     \/ \E x \in DOMAIN seen :
          /\ Due(x) /\ seen[x] # None
          /\ seen' = [seen EXCEPT ![x] = None] /\ UNCHANGED pending
  /\ UNCHANGED <<now, issued, call, started, sessions, uses>>
  /\ UNCHANGED <<backend, params, login, acs, url, lock, expiry, changes, taken, fresh, allowed>>

Clock ==
  /\ \A q \in Requests : pending[q] # None => ~Due(q)
  /\ \A x \in DOMAIN seen : seen[x] # None => ~Due(x)
  /\ Tick
  /\ UNCHANGED <<backend, params, login, acs, url, lock, expiry, changes, taken, fresh, allowed>>

-----------------------------------------------------------------------------
\* History: the certificates a realm trusts while a response is handled.
CertsOf(r) == IF params[r] = None THEN {} ELSE params[r].certs
Observe ==
  held' = [p \in Procs |-> IF acs'[p] = None THEN {} ELSE held[p] \cup CertsOf(acs'[p].realm)]

Respond(p) ==
  \/ \E q \in Requests, r \in Realms, a \in Assertions : begin_acs(p, q, r, a)
  \/ delete_returning(p) \/ select_for_update(p) \/ delete_and_commit(p) \/ getdel(p)
  \/ check_response(p) \/ record_assertion(p) \/ finish(p) \/ abandon_acs(p)

RealmNext ==
  /\ \/ \E r \in Realms, b \in Bodies : save_realm(r, b)
     \/ \E r \in Realms : remove_settings(r)
     \/ \E p \in Procs, r \in Realms, to \in Origins \cup {None} : begin_login(p, r, to)
     \/ \E p \in Procs, q \in Requests : store_pending_request(p, q)
     \/ \E p \in Procs : abandon_login(p)
     \/ \E a \in Assertions, q \in Requests : provider_issues(a, q)
     \/ \E p \in Procs : Respond(p)
     \/ \E t \in 0..now : delete_expired(t)
     \/ expire_key
     \/ Clock
  /\ Observe

RealmSpec == RealmInit /\ [][RealmNext]_rvars

-----------------------------------------------------------------------------
\* Whatever the settings and the store, every step is one of SamlLogin, so what
\* is proved of SamlLogin holds of each of the stores (saml/impls).
SamlLoginSpec == Spec

\* The steps of MySQL and of Redis, with their locks and expiring keys, are
\* steps of the trait's contract (saml/impls/mysql.rs, saml/impls/redis.rs).
Store == INSTANCE SamlRequestStore
StoreContract == Store!Spec

\* A session is only given for an assertion signed with a certificate that the
\* realm trusted at some moment of the post, whatever the settings were when
\* the login started (consume_response, service_provider).
TrustedDuringAcs ==
  [][\A p \in Procs : finish(p) => Content[acs[p].assertion].cert \in held[p]]_rvars

\* The browser is only sent to an origin the realm allowed when this login
\* started, be it asked for or the default (resolve_return_url,
\* validate_return_urls, and the row that keeps the URL in between).
RedirectAllowed ==
  [][\A p \in Procs : finish(p) => url[acs[p].req] \in allowed[acs[p].req]]_rvars

\* A session is never named by a NameID that changes with every login, and its
\* claims never shadow the server's own, although the settings are checked when
\* they are saved and the assertions come later (map_identity).
IdentitySound ==
  [][\A p \in Procs : finish(p) =>
       /\ acs[p].params.subject_attribute \/ Content[acs[p].assertion].nameid = "persistent"
       /\ extra_claims(acs[p].params, acs[p].assertion) \cap Reserved = {}]_rvars
=============================================================================
