------------------------------- MODULE Gateway -------------------------------
(***************************************************************************)
(* The life of a browser session across the components it meets: the rate  *)
(* limit of /login, the session a login creates, the session store on      *)
(* PostgreSQL, CookieAuthSameServer, which turns a cookie back into        *)
(* claims, and the handlers certify and whoami behind it.                  *)
(*                                                                         *)
(* One statement is one step.  How a login is authenticated is the subject *)
(* of Login; here it is let through or refused.  A session has two ages:   *)
(* the exp of the JWT in its cookie, from the clock when the token is      *)
(* issued, and the columns of its row, from the clock when the store is    *)
(* called.  Nothing bounds the time between two steps.                     *)
(***************************************************************************)
EXTENDS LoginRateLimit

CONSTANTS
  Realms,
  RealmRows,    \* realm rows: [max_age, stale_age, cert_age]
  Users,        \* pairs of a username and an auth scheme
  Sids,         \* session ids: hex SHA-256 of the cookie's value
  ClaimNames, Reserved,  \* names of claims, and the reserved ones
  Extras,       \* the sets of claims stored with users
  Bodies,       \* the bodies of POST /certify
  Procs,        \* requests being handled concurrently
  Leeway,       \* leeway of validate_token
  MaxTime, MaxChanges,
  None

RealmRow == [max_age : Nat, stale_age : Nat, cert_age : Nat]
CertifyRequest == [pem : BOOLEAN, claims : SUBSET ClaimNames, exclude_sub : BOOLEAN]

ASSUME GatewayDataAssumption ==
  /\ RealmRows \subseteq RealmRow /\ Bodies \subseteq CertifyRequest
  /\ Reserved \subseteq ClaimNames /\ Extras \subseteq SUBSET ClaimNames
  /\ None \notin Users
ASSUME GatewayBoundAssumption == MaxTime \in Nat /\ MaxChanges \in Nat /\ Leeway \in Nat

VARIABLES
  now,          \* the wall clock
  realm,        \* table realm
  session,      \* table session
  drawn,        \* session ids already issued
  call,         \* the request each process is handling
  cert,         \* the certificate issued by the last step, or None
  changes,      \* the number of administrators' changes so far
  held          \* history: what held at some moment of each request

vars == <<level, excess, now, realm, session, drawn, call, cert, changes, held>>

\* The claims in the cookie's JWT, and the row they are stored with.
Token == [realm : Realms, user : Users, extra : SUBSET ClaimNames, iat : Nat, exp : Nat]
SessionRow == [token : Token, stale_at : Nat, max_stale : Nat, max_age : Nat, created_at : Nat]

\* "a certificate cannot be both anonymous and empty", nor name a claim twice.
Certificate == {c \in [realm : Realms, sub : Users \cup {None}, extra : SUBSET (ClaimNames \ Reserved),
                       iat : Nat, exp : Nat] : c.sub # None \/ c.extra # {}}

LoginCall == [pc : {"realm", "issue", "insert"}, realm : Realms, user : Users,
              row : RealmRow \cup {None}, sid : Sids \cup {None}, token : Token \cup {None},
              at : Nat]
SessionCall == [pc : {"select", "purge", "refresh", "certify"}, sid : Sids,
                row : SessionRow \cup {None}, body : CertifyRequest \cup {None}, at : Nat]
Call == LoginCall \cup SessionCall

Held == [live : BOOLEAN, rows : SUBSET RealmRow]

TypeOK ==
  /\ LimiterTypeOK
  /\ now \in Nat
  /\ realm \in [Realms -> RealmRow \cup {None}]
  /\ session \in [Sids -> SessionRow \cup {None}]
  /\ drawn \subseteq Sids
  /\ call \in [Procs -> Call \cup {None}]
  /\ cert \in Certificate \cup {None}
  /\ changes \in Nat
  /\ held \in [Procs -> Held]

Nothing == [live |-> FALSE, rows |-> {}]

Init ==
  /\ LimiterInit
  /\ now = 0
  /\ realm \in [Realms -> RealmRows \cup {None}]
  /\ session = [s \in Sids |-> None]
  /\ drawn = {}
  /\ call = [p \in Procs |-> None]
  /\ cert = None
  /\ changes = 0
  /\ held = [p \in Procs |-> Nothing]

limiter == <<level, excess>>

Continue(p, c) == call' = [call EXCEPT ![p] = c]
Reads == UNCHANGED <<limiter, now, realm, session, drawn, changes>> /\ cert' = None

-----------------------------------------------------------------------------
\* POST /login: the limiter of the worker the request reached ...
login(p, w, i, r, u) ==
  /\ call[p] = None
  /\ check_key(w, i)
  /\ Continue(p, [pc |-> "realm", realm |-> r, user |-> u, row |-> None, sid |-> None,
                  token |-> None, at |-> now])
  /\ cert' = None
  /\ UNCHANGED <<now, realm, session, drawn, changes>>

\* The requests of /saml draw from the same limiter.
saml_scope(w, i) ==
  /\ check_key(w, i)
  /\ cert' = None
  /\ UNCHANGED <<now, realm, session, drawn, call, changes>>

get_realm(r) == realm[r]

\* ... ExtractRealm reads the realm (refused, or not authenticated: abandon) ...
ExtractRealm(p) ==
  /\ call[p] # None /\ call[p].pc = "realm"
  /\ get_realm(call[p].realm) # None
  /\ Continue(p, [call[p] EXCEPT !.pc = "issue", !.row = get_realm(call[p].realm)])
  /\ Reads

\* The id of the session: a digest of the cookie's value, which no other token has.
NewSids == Sids \ drawn

\* ... the token is issued with the claims of the user, among which a row
\* provisioned long ago may have reserved names ...
issue_token(p, extra) ==
  /\ call[p] # None /\ call[p].pc = "issue"
  /\ \E s \in NewSids :
       /\ drawn' = drawn \cup {s}
       /\ LET c == call[p]
              token == [realm |-> c.realm, user |-> c.user, extra |-> extra,
                        iat |-> now, exp |-> now + c.row.max_age]
          IN Continue(p, [c EXCEPT !.pc = "insert", !.sid = s, !.token = token, !.at = now])
  /\ cert' = None
  /\ UNCHANGED <<limiter, now, realm, session, changes>>

\* Mutant: the row is kept for as long as the realm says when it is inserted.
RowFor_FreshRealm(c, t) ==
  LET r == realm[c.realm]
      max_age == IF r = None THEN c.row.max_age ELSE r.max_age
  IN [token |-> c.token, stale_at |-> t + c.row.stale_age, max_stale |-> c.row.stale_age,
      max_age |-> max_age, created_at |-> t]

RowFor(c, t) ==
  [token |-> c.token, stale_at |-> t + c.row.stale_age, max_stale |-> c.row.stale_age,
   max_age |-> c.row.max_age, created_at |-> t]

\* ... and stored, with the time t at which the store read the clock, some time
\* before the INSERT.
upsert_session(p) ==
  /\ call[p] # None /\ call[p].pc = "insert"
  /\ \E t \in call[p].at..now :
       session' = [session EXCEPT ![call[p].sid] = RowFor(call[p], t)]
  /\ Continue(p, None)
  /\ cert' = None
  /\ UNCHANGED <<limiter, now, realm, drawn, changes>>

-----------------------------------------------------------------------------
AbsoluteExpiry(row) == row.created_at + row.max_age
Expired(row, t) == t > row.stale_at \/ t > AbsoluteExpiry(row)

\* Mutant: a session whose row has expired is served once more.
SelectedFor_Unchecked(row, t) == "refresh"

\* What get_session does with the row it selected.
SelectedFor(row, t) == IF Expired(row, t) THEN "purge" ELSE "refresh"

\* CookieAuthSameServer asks for the session of the cookie's digest, and the
\* store reads the clock ...
get_session(p, s) ==
  /\ call[p] = None
  /\ Continue(p, [pc |-> "select", sid |-> s, row |-> None, body |-> None, at |-> now])
  /\ Reads

\* ... then the row, if there is one ...
get_session_select(p) ==
  /\ call[p] # None /\ call[p].pc = "select"
  /\ LET c == call[p]
         row == session[c.sid]
     IN Continue(p, IF row = None THEN None
                    ELSE [c EXCEPT !.pc = SelectedFor(row, c.at), !.row = row])
  /\ Reads

\* ... which is deleted if it has expired ...
get_session_purge(p) ==
  /\ call[p] # None /\ call[p].pc = "purge"
  /\ session' = [session EXCEPT ![call[p].sid] = None]
  /\ Continue(p, None)
  /\ cert' = None
  /\ UNCHANGED <<limiter, now, realm, drawn, changes>>

Min2(a, b) == IF a < b THEN a ELSE b

\* validate_token on the cookie in the row.
validate_token(token, t) == token.exp >= t - Leeway

reject_reserved_claim_names(names) == names \cap Reserved = {}

\* The checks of certify that need no statement: a key in PEM form, and no
\* reserved name among the claims.
BodyOK(b) == b.pem /\ reject_reserved_claim_names(b.claims)

\* ... or else refreshed: UPDATE of stale_at, computed from the row that was
\* selected.  Then the token in the row is validated and the handler begins; body
\* is None for whoami.
get_session_update(p, body) ==
  /\ call[p] # None /\ call[p].pc = "refresh"
  /\ LET c == call[p]
         t == c.at
         stale_at == t + Min2(c.row.max_stale, AbsoluteExpiry(c.row) - t)
     IN /\ session' = IF session[c.sid] = None THEN session
                      ELSE [session EXCEPT ![c.sid].stale_at = stale_at]
        /\ Continue(p, IF validate_token(c.row.token, now) /\ body # None /\ BodyOK(body)
                       THEN [c EXCEPT !.pc = "certify", !.body = body] ELSE None)
  /\ cert' = None
  /\ UNCHANGED <<limiter, now, realm, drawn, changes>>

\* Mutant: asking for a claim is enough to leave the subject out.
Certified_Anonymous(c, r) ==
  IF r = None \/ (c.body.exclude_sub /\ c.body.claims = {}) THEN None
  ELSE [realm |-> c.row.token.realm, sub |-> IF c.body.exclude_sub THEN None ELSE c.row.token.user,
        extra |-> c.body.claims \cap c.row.token.extra, iat |-> now, exp |-> now + r.cert_age]

\* The certificate of a request, or None if it is refused: the realm of the
\* session has gone, or nothing would be left to identify the holder.
Certified(c, r) ==
  LET extra == c.body.claims \cap c.row.token.extra
  IN IF r = None \/ (c.body.exclude_sub /\ extra = {}) THEN None
     ELSE [realm |-> c.row.token.realm, sub |-> IF c.body.exclude_sub THEN None ELSE c.row.token.user,
           extra |-> extra, iat |-> now, exp |-> now + r.cert_age]

\* certify reads the realm of the session and signs.
certify(p) ==
  /\ call[p] # None /\ call[p].pc = "certify"
  /\ cert' = Certified(call[p], get_realm(call[p].row.token.realm))
  /\ Continue(p, None)
  /\ UNCHANGED <<limiter, now, realm, session, drawn, changes>>

-----------------------------------------------------------------------------
Without(sids) == [s \in Sids |-> IF s \in sids THEN None ELSE session[s]]

\* DELETE /sessions, with the ids in its body.
delete_sessions(sids) ==
  /\ session' = Without(sids)
  /\ cert' = None
  /\ UNCHANGED <<limiter, now, realm, drawn, call, changes>>

delete_sessions_for_realm(r) ==
  /\ session' = Without({s \in Sids : session[s] # None /\ session[s].token.realm = r})
  /\ cert' = None
  /\ UNCHANGED <<limiter, now, realm, drawn, call, changes>>

\* The stale session collector.
delete_expired_sessions ==
  /\ session' = Without({s \in Sids : session[s] # None
                                      /\ (session[s].stale_at <= now \/ AbsoluteExpiry(session[s]) <= now)})
  /\ cert' = None
  /\ UNCHANGED <<limiter, now, realm, drawn, call, changes>>

change_realm(r, row) ==
  /\ changes < MaxChanges
  /\ changes' = changes + 1
  /\ realm' = [realm EXCEPT ![r] = row]
  /\ cert' = None
  /\ UNCHANGED <<limiter, now, session, drawn, call>>

create_realm(r, row) == realm[r] = None /\ change_realm(r, row)

update_realm(r, row) == realm[r] # None /\ change_realm(r, row)

\* The sessions of the realm stay.
delete_realm(r) == realm[r] # None /\ change_realm(r, None)

\* A statement fails, the server stops, or the request is refused.
abandon(p) ==
  /\ call[p] # None
  /\ Continue(p, None)
  /\ Reads

Tick ==
  /\ now < MaxTime
  /\ now' = now + 1
  /\ replenish
  /\ cert' = None
  /\ UNCHANGED <<realm, session, drawn, call, changes>>

-----------------------------------------------------------------------------
\* History: the session was stored with ages that had not run out when the
\* request came in, and the rows its realm had.
Certifying(c) == c # None /\ c.pc \in {"select", "purge", "refresh", "certify"}
LiveNow(c) == session[c.sid] # None /\ ~Expired(session[c.sid], c.at)
RealmNow(c) == IF c.row = None THEN {} ELSE {realm[c.row.token.realm]} \ {None}

Observe ==
  held' = [p \in Procs |->
            LET c == IF Certifying(call[p]) THEN call[p] ELSE call'[p]
            IN IF call'[p] = None \/ ~Certifying(c) THEN Nothing
               ELSE [live |-> held[p].live \/ LiveNow(c), rows |-> held[p].rows \cup RealmNow(c)]]

Request(p) ==
  \/ \E w \in Workers, i \in Ips, r \in Realms, u \in Users : login(p, w, i, r, u)
  \/ ExtractRealm(p)
  \/ \E extra \in Extras : issue_token(p, extra)
  \/ upsert_session(p)
  \/ \E s \in Sids : get_session(p, s)
  \/ get_session_select(p) \/ get_session_purge(p)
  \/ \E body \in Bodies \cup {None} : get_session_update(p, body)
  \/ certify(p)
  \/ abandon(p)

Next ==
  /\ \/ \E p \in Procs : Request(p)
     \/ \E w \in Workers, i \in Ips : saml_scope(w, i)
     \/ \E sids \in SUBSET Sids : delete_sessions(sids)
     \/ \E r \in Realms : delete_sessions_for_realm(r)
     \/ delete_expired_sessions
     \/ \E r \in Realms, row \in RealmRows : create_realm(r, row) \/ update_realm(r, row)
     \/ \E r \in Realms : delete_realm(r)
     \/ Tick
  /\ Observe

Spec == Init /\ [][Next]_vars

-----------------------------------------------------------------------------
\* A certificate is only issued for a session that was stored at some moment of
\* the request and, by its row at that moment, had not expired when the request
\* came in, whatever logged it out, purged it or stored it around that; its realm
\* existed during the request, and the certificate's lifetime is one that realm
\* had then (CookieMiddleware::call, certify).
CertifiedWhileLive ==
  [][\A p \in Procs : (cert' # None /\ call[p] # None /\ call'[p] = None /\ Certifying(call[p])) =>
       /\ held[p].live
       /\ \E r \in held[p].rows \cup ({realm[cert'.realm]} \ {None}) :
            cert'.exp = cert'.iat + r.cert_age]_vars

\* The two ages of a session agree but for the time that passes between their
\* clocks: a row get_session serves is answered with an error only if the time
\* from issuing its token to storing it and the time from looking it up to
\* validating it exceed the leeway together, whatever changed the realm's ages
\* since (issue_token, upsert_session, get_session, validate_token).
RefusedOnlyIfSlow ==
  \A p \in Procs : (call[p] # None /\ call[p].pc = "refresh") =>
    LET c == call[p]
        row == c.row
    IN \/ validate_token(row.token, now)
       \/ (row.created_at - row.token.iat) + (now - c.at) > Leeway
=============================================================================
