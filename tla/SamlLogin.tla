------------------------------ MODULE SamlLogin ------------------------------
(***************************************************************************)
(* SP-initiated SAML login: saml_login and saml_acs (saml/endpoints.rs),   *)
(* the checks of response_validation.rs, and the store of pending requests *)
(* and of consumed assertions behind them (saml/request_store.rs and       *)
(* saml/impls), with its periodic purge.                                   *)
(*                                                                         *)
(* Every statement is one step and may run any time after the clock was    *)
(* read for it.  The clock counts half seconds: an assertion's issue       *)
(* instant has fractions of a second, the store keeps whole seconds.       *)
(***************************************************************************)
EXTENDS Integers, FiniteSets

CONSTANTS
  Realms, Requests, Assertions,
  Procs,        \* requests to the consumer service, handled concurrently
  PendingSecs,  \* PENDING_REQUEST_SECONDS
  Delay,        \* MAX_ISSUE_DELAY_SECONDS, in half seconds
  Skew,         \* how far ahead the provider's clock may be, in half seconds
  MaxTime,      \* bound on the clock, in half seconds
  None

ASSUME SamlAssumption ==
  /\ PendingSecs \in Nat \ {0}
  /\ Delay \in Nat /\ Skew \in Nat /\ MaxTime \in Nat
  /\ None \notin Nat /\ None \notin [realm : Realms, expires_at : Nat]
  /\ None \notin [req : Requests, at : Nat]
  /\ None \notin [pc : {"validate", "record", "session"}, req : Requests, realm : Realms,
                  assertion : Assertions]

VARIABLES
  now,          \* the wall clock
  pending,      \* table saml_pending_request
  seen,         \* table saml_seen_assertion: until when each entry is kept
  issued,       \* the assertions providers have signed
  call,         \* the response each process is consuming
  started,      \* request identifiers already generated
  sessions,     \* history: the sessions each request led to
  uses          \* history: the sessions each assertion led to, by realm

vars == <<now, pending, seen, issued, call, started, sessions, uses>>

Pending == [realm : Realms, expires_at : Nat]
Issued == [req : Requests, at : Nat]
Call == [pc : {"validate", "record", "session"}, req : Requests,
         realm : Realms, assertion : Assertions]

TypeOK ==
  /\ now \in Nat
  /\ pending \in [Requests -> Pending \cup {None}]
  /\ seen \in [Realms \X Assertions -> Nat \cup {None}]
  /\ issued \in [Assertions -> Issued \cup {None}]
  /\ call \in [Procs -> Call \cup {None}]
  /\ started \subseteq Requests
  /\ sessions \in [Requests -> Nat]
  /\ uses \in [Realms \X Assertions -> Nat]

Init ==
  /\ now = 0
  /\ pending = [q \in Requests |-> None]
  /\ seen = [x \in Realms \X Assertions |-> None]
  /\ issued = [a \in Assertions |-> None]
  /\ call = [p \in Procs |-> None]
  /\ started = {}
  /\ sessions = [q \in Requests |-> 0]
  /\ uses = [x \in Realms \X Assertions |-> 0]

\* timestamp(): whole seconds, rounded down.
Sec(t) == t \div 2

-----------------------------------------------------------------------------
\* GET /saml/{realm}/login stores a pending request under a new identifier.
saml_login(q, r) ==
  /\ q \notin started
  /\ started' = started \cup {q}
  /\ \E t \in 0..now :
       pending' = [pending EXCEPT ![q] =
                    [realm |-> r, expires_at |-> Sec(t) + PendingSecs]]
  /\ UNCHANGED <<now, seen, issued, call, sessions, uses>>

\* The provider answers a request with an assertion.
issue(a, q) ==
  /\ issued[a] = None
  /\ q \in started
  /\ \E t \in now..(now + Skew) :
       issued' = [issued EXCEPT ![a] = [req |-> q, at |-> t]]
  /\ UNCHANGED <<now, pending, seen, call, started, sessions, uses>>

\* Mutants: the pending request is left for the purge; its row is blanked.
Taken_Keep(q) == pending
Taken_Blank(q) == [pending EXCEPT ![q] = [realm |-> None, expires_at |-> 0]]

\* What the DELETE ... RETURNING leaves.
Taken(q) == [pending EXCEPT ![q] = None]

\* POST /saml/{realm}/acs with the cookie of request q: take_pending_request.
\* A request that is unknown, expired or another realm's is refused.
take_pending_request(p, q, r, a) ==
  /\ call[p] = None
  /\ issued[a] # None
  /\ pending[q] # None /\ pending[q].realm = r
  /\ \E t \in 0..now : pending[q].expires_at > Sec(t)
  /\ pending' = Taken(q)
  /\ call' = [call EXCEPT ![p] =
       [pc |-> "validate", req |-> q, realm |-> r, assertion |-> a]]
  /\ UNCHANGED <<now, seen, issued, started, sessions, uses>>

AcceptedUntil(a) == issued[a].at + Delay

\* Mutant: the entry is kept for the whole seconds only.
KeptUntil_Floor(a) == Sec(AcceptedUntil(a))

\* "Rounded up: the store needs a whole second that is still in the future."
KeptUntil(a) == Sec(AcceptedUntil(a)) + 1

\* Mutant: an assertion that answers another request will do.
Valid_Unsolicited(c) == now < AcceptedUntil(c.assertion)

\* InResponseTo names the request and the assertion is not too old; whether
\* the signature, issuer, audience and the rest hold is left to abandon.
Valid(c) ==
  /\ issued[c.assertion].req = c.req
  /\ now < AcceptedUntil(c.assertion)

\* validate_saml_response, up to the statement that records the assertion.
validate_saml_response(p) ==
  /\ call[p] # None /\ call[p].pc = "validate"
  /\ call' = [call EXCEPT ![p] =
       IF Valid(call[p]) /\ KeptUntil(call[p].assertion) > Sec(now)
       THEN [pc |-> "record", req |-> call[p].req, realm |-> call[p].realm,
             assertion |-> call[p].assertion]
       ELSE None]
  /\ UNCHANGED <<now, pending, seen, issued, started, sessions, uses>>

\* INSERT OR IGNORE: an assertion seen in this realm is a replay.
record_assertion_id(p) ==
  /\ call[p] # None /\ call[p].pc = "record"
  /\ LET x == <<call[p].realm, call[p].assertion>>
     IN IF seen[x] = None
        THEN /\ seen' = [seen EXCEPT ![x] = KeptUntil(call[p].assertion)]
             /\ call' = [call EXCEPT ![p] =
                  [pc |-> "session", req |-> call[p].req,
                   realm |-> call[p].realm, assertion |-> call[p].assertion]]
        ELSE /\ call' = [call EXCEPT ![p] = None]
             /\ UNCHANGED seen
  /\ UNCHANGED <<now, pending, issued, started, sessions, uses>>

\* saml_acs issues the token and stores the session.
saml_acs(p) ==
  /\ call[p] # None /\ call[p].pc = "session"
  /\ sessions' = [sessions EXCEPT ![call[p].req] = @ + 1]
  /\ uses' = [uses EXCEPT ![<<call[p].realm, call[p].assertion>>] = @ + 1]
  /\ call' = [call EXCEPT ![p] = None]
  /\ UNCHANGED <<now, pending, seen, issued, started>>

\* A check or a statement fails, or the server stops.
abandon(p) ==
  /\ call[p] # None
  /\ call' = [call EXCEPT ![p] = None]
  /\ UNCHANGED <<now, pending, seen, issued, started, sessions, uses>>

\* The two statements of delete_expired.  SQL deletes every row that had expired
\* at time t, Redis each key on its own.
purge_pending(Q, t) ==
  /\ \A q \in Q : pending[q] # None /\ pending[q].expires_at <= Sec(t)
  /\ pending' = [q \in Requests |-> IF q \in Q THEN None ELSE pending[q]]
  /\ UNCHANGED <<now, seen, issued, call, started, sessions, uses>>

purge_seen(X, t) ==
  /\ \A x \in X : seen[x] # None /\ seen[x] <= Sec(t)
  /\ seen' = [x \in Realms \X Assertions |-> IF x \in X THEN None ELSE seen[x]]
  /\ UNCHANGED <<now, pending, issued, call, started, sessions, uses>>

Tick ==
  /\ now < MaxTime
  /\ now' = now + 1
  /\ UNCHANGED <<pending, seen, issued, call, started, sessions, uses>>

Handle(p) ==
  \/ \E q \in Requests, r \in Realms, a \in Assertions :
       take_pending_request(p, q, r, a)
  \/ validate_saml_response(p)
  \/ record_assertion_id(p)
  \/ saml_acs(p)
  \/ abandon(p)

Next ==
  \/ \E q \in Requests, r \in Realms : saml_login(q, r)
  \/ \E a \in Assertions, q \in Requests : issue(a, q)
  \/ \E p \in Procs : Handle(p)
  \/ \E Q \in SUBSET Requests : purge_pending(Q, now)
  \/ \E X \in SUBSET (Realms \X Assertions) : purge_seen(X, now)
  \/ Tick

Spec == Init /\ [][Next]_vars

-----------------------------------------------------------------------------
\* "a request is consumed at most once even under concurrent ACS posts": one
\* login request leads to at most one session, also when its provider signs
\* several assertions for it (take_pending_request).
RequestOnce == \A q \in Requests : sessions[q] <= 1

\* "Each assertion is accepted once per realm", also by a post whose INSERT
\* runs after the entry of the first acceptance was purged (Valid binds the
\* assertion to a request that is taken once, record_assertion_id).
AssertionOnce == \A x \in Realms \X Assertions : uses[x] <= 1

\* "expires_at must cover every instant at which the assertion could still be
\* accepted": an assertion that was used is in the store as long as it is
\* recent enough to be valid, fractions of a second included (KeptUntil).
ReplayRemembered ==
  \A r \in Realms, a \in Assertions :
    (uses[<<r, a>>] > 0 /\ now < AcceptedUntil(a)) => seen[<<r, a>>] # None
=============================================================================
