--------------------------- MODULE SqlSessionStore ---------------------------
(***************************************************************************)
(* The SQL session stores (sqlite.rs, postgres.rs and mysql.rs of          *)
(* session/impls: the same statements in three dialects), the handlers of  *)
(* sessions_endpoints.rs that call them and the stale-session collector.   *)
(*                                                                         *)
(* Every SQL statement is one step.  get_session is two statements, a      *)
(* SELECT and then a DELETE or an UPDATE computed from what the SELECT     *)
(* returned, and POST /sessions/{id} with an action adds a listing and a   *)
(* DELETE; other requests and the collector run between any two of them.   *)
(* A statement sees the clock as it was when the call began, up to Lag     *)
(* seconds earlier.                                                        *)
(*                                                                         *)
(* A session identifier is the SHA-256 digest of a token that names the    *)
(* realm, the subject and the scheme (cookies.rs, jwt.rs), so the realm    *)
(* and the client are functions of the identifier.  So are the two ages of *)
(* the row: an identifier that is stored again has the ages it had before. *)
(***************************************************************************)
EXTENDS Integers, FiniteSets

CONSTANTS
  SessionIds, Realms, Clients,
  RealmOf,      \* [SessionIds -> Realms]
  ClientOf,     \* [SessionIds -> Clients], a (username, auth_scheme) pair
  MaxAge,       \* [SessionIds -> Nat], column max_age_seconds
  MaxStale,     \* [SessionIds -> Nat], column max_stale_age_seconds
  Procs,        \* requests being handled concurrently
  Lag,          \* seconds from reading the clock to running the statement
  MaxTime,      \* bound on the clock
  NoRow         \* the value of an identifier that has no row

ASSUME LookupAssumption ==
  /\ SessionIds # {}
  /\ RealmOf \in [SessionIds -> Realms]
  /\ ClientOf \in [SessionIds -> Clients]
ASSUME LifetimeAssumption ==
  /\ MaxAge \in [SessionIds -> Nat]
  /\ MaxStale \in [SessionIds -> Nat]
ASSUME ClockAssumption == Lag \in Nat /\ MaxTime \in Nat
ASSUME NoRowAssumption ==
  /\ NoRow \notin [created_at : Int, stale_at : Int]
  /\ NoRow \notin [created : Int, seen : Nat]

VARIABLES
  now,          \* the wall clock
  session,      \* the table `session`
  call,         \* the request each process is handling
  seen          \* history: when each session was last stored or served

vars == <<now, session, call, seen>>

Row == [created_at : Int, stale_at : Int]

Actions == {"none", "LogoutOtherSessions", "LogoutAllSessions"}

\* What a handler keeps across its statements: the session it looked up, the
\* value its next statement writes, and the sessions it listed.
Call == [pc : {"idle", "update", "purge", "list", "delete"},
         sid : SessionIds, value : Int, action : Actions,
         clients : SUBSET Clients, listed : SUBSET SessionIds]

TypeOK ==
  /\ now \in Nat
  /\ session \in [SessionIds -> Row \cup {NoRow}]
  /\ call \in [Procs -> Call]
  /\ seen \in [SessionIds -> Nat]

Rows == {s \in SessionIds : session[s] # NoRow}

AbsoluteExpiry(s) == session[s].created_at + MaxAge[s]

\* The clock readings a statement running now may carry.
Readings == {t \in (now - Lag)..now : t >= 0}

Idle == [pc |-> "idle", sid |-> CHOOSE s \in SessionIds : TRUE, value |-> 0,
         action |-> "none", clients |-> {}, listed |-> {}]

Init ==
  /\ now = 0
  /\ session = [s \in SessionIds |-> NoRow]
  /\ call = [p \in Procs |-> Idle]
  /\ seen = [s \in SessionIds |-> 0]

-----------------------------------------------------------------------------
\* INSERT; an identifier that already has a row makes it fail.
upsert_session(s) ==
  /\ s \notin Rows
  /\ \E t \in Readings :
       session' = [session EXCEPT ![s] =
         [created_at |-> t, stale_at |-> t + MaxStale[s]]]
  /\ seen' = [seen EXCEPT ![s] = now]
  /\ UNCHANGED <<now, call>>

\* Mutant: the idle time is not checked.
Expired_NoIdle(s, t) == t > AbsoluteExpiry(s)

\* The check get_session makes on the row its SELECT returned.
Expired(s, t) == t > session[s].stale_at \/ t > AbsoluteExpiry(s)

\* Mutants: no cap; sliding from the old deadline; NULL instead of a time.
Refreshed_Uncapped(s, t) == t + MaxStale[s]
Refreshed_Sliding(s, t) == session[s].stale_at + MaxStale[s]
Refreshed_Null(s, t) == NoRow

\* The new stale_at, capped by the absolute expiry.
Refreshed(s, t) ==
  LET left == AbsoluteExpiry(s) - t
      idle == MaxStale[s]
  IN t + (IF idle <= left THEN idle ELSE left)

\* First statement of get_session: the row is absent (None), expired, or
\* about to be refreshed and returned.
get_session_select(p, s, a, C) ==
  /\ call[p].pc = "idle"
  /\ s \in Rows
  /\ a = "none" => C = {}
  /\ \E t \in Readings :
       IF Expired(s, t)
       THEN /\ call' = [call EXCEPT ![p] =
                 [pc |-> "purge", sid |-> s, value |-> 0, action |-> a,
                  clients |-> C, listed |-> {}]]
            /\ UNCHANGED seen
       ELSE /\ call' = [call EXCEPT ![p] =
                 [pc |-> "update", sid |-> s, value |-> Refreshed(s, t),
                  action |-> a, clients |-> C, listed |-> {}]]
            /\ seen' = [seen EXCEPT ![s] = now]
  /\ UNCHANGED <<now, session>>

\* Second statement, row not expired: UPDATE ... SET stale_at WHERE session_id.
\* It touches nothing when the row has gone; the data read is returned anyway.
get_session_update(p) ==
  /\ call[p].pc = "update"
  /\ LET s == call[p].sid
     IN session' = IF s \in Rows
                   THEN [session EXCEPT ![s].stale_at = call[p].value]
                   ELSE session
  /\ call' = IF call[p].action = "none"
             THEN [call EXCEPT ![p] = Idle]
             ELSE [call EXCEPT ![p] = [@ EXCEPT !.pc = "list", !.value = 0]]
  /\ UNCHANGED <<now, seen>>

\* Second statement, row expired: DELETE, and the caller gets None.
get_session_purge(p) ==
  /\ call[p].pc = "purge"
  /\ session' = [session EXCEPT ![call[p].sid] = NoRow]
  /\ call' = [call EXCEPT ![p] = Idle]
  /\ UNCHANGED <<now, seen>>

\* The rows get_sessions_for_clients selects at clock reading t.
SelectedFor(r, C, t) ==
  {s \in Rows : /\ RealmOf[s] = r
                /\ ClientOf[s] \in C
                /\ session[s].stale_at > t
                /\ AbsoluteExpiry(s) > t}

\* The listing made for a logout action, and what will be deleted.
get_sessions_for_clients(p) ==
  /\ call[p].pc = "list"
  /\ \E t \in Readings :
       LET s == call[p].sid
           found == SelectedFor(RealmOf[s], call[p].clients, t)
           listed == IF call[p].action = "LogoutAllSessions"
                     THEN found \cup {s} ELSE found \ {s}
       IN call' = [call EXCEPT ![p] =
                    [@ EXCEPT !.pc = "delete", !.listed = listed]]
  /\ UNCHANGED <<now, session, seen>>

Without(S) == [s \in SessionIds |-> IF s \in S THEN NoRow ELSE session[s]]

\* The DELETE that ends a logout action.
logout_listed(p) ==
  /\ call[p].pc = "delete"
  /\ session' = Without(call[p].listed)
  /\ call' = [call EXCEPT ![p] = Idle]
  /\ UNCHANGED <<now, seen>>

\* A statement fails, or the server stops: the handler returns early.
abandon(p) ==
  /\ call[p].pc # "idle"
  /\ call' = [call EXCEPT ![p] = Idle]
  /\ UNCHANGED <<now, session, seen>>

-----------------------------------------------------------------------------
\* DELETE /sessions: explicit logout.
delete_sessions(S) ==
  /\ session' = Without(S)
  /\ UNCHANGED <<now, call, seen>>

\* Mutant: only the age is looked at.
delete_expired_sessions_AgeOnly(t) ==
  /\ session' = Without({s \in Rows : AbsoluteExpiry(s) <= t})
  /\ UNCHANGED <<now, call, seen>>

\* The collector's statement, also run by DELETE /sessions/expired.
delete_expired_sessions(t) ==
  /\ session' = Without({s \in Rows : \/ session[s].stale_at <= t
                                      \/ AbsoluteExpiry(s) <= t})
  /\ UNCHANGED <<now, call, seen>>

delete_sessions_for_realm(r) ==
  /\ session' = Without({s \in Rows : RealmOf[s] = r})
  /\ UNCHANGED <<now, call, seen>>

Tick ==
  /\ now < MaxTime
  /\ now' = now + 1
  /\ UNCHANGED <<session, call, seen>>

Next ==
  \/ \E s \in SessionIds : upsert_session(s)
  \/ \E p \in Procs :
       \/ \E s \in SessionIds, a \in Actions, C \in SUBSET Clients :
            get_session_select(p, s, a, C)
       \/ get_session_update(p)
       \/ get_session_purge(p)
       \/ get_sessions_for_clients(p)
       \/ logout_listed(p)
       \/ abandon(p)
  \/ \E S \in SUBSET SessionIds : delete_sessions(S)
  \/ \E t \in Readings : delete_expired_sessions(t)
  \/ \E r \in Realms : delete_sessions_for_realm(r)
  \/ Tick

Spec == Init /\ [][Next]_vars

\* The collector's loop never ends and outlives a failed statement, so a
\* purge that reads the clock afresh runs again and again.
FairSpec == Spec /\ WF_vars(delete_expired_sessions(now))

-----------------------------------------------------------------------------
\* However the refreshes of concurrent requests interleave, none carries a
\* session past its absolute expiry: stale_at is the value the insertion gave
\* it or lies within the maximum age (get_session's cap on the new stale_at).
RefreshCapped ==
  \A s \in Rows :
    \/ session[s].stale_at = session[s].created_at + MaxStale[s]
    \/ session[s].stale_at <= AbsoluteExpiry(s) + Lag

\* stale_at never promises more idle time than the row allows after the last
\* use, also when a late UPDATE overtakes a newer one (get_session's UPDATE).
IdleBounded ==
  \A s \in Rows : session[s].stale_at <= seen[s] + MaxStale[s]

\* The store implements the lifecycle every caller relies on: a session is
\* served only within its maximum age and its idle time, and not after it was
\* deleted, whatever statements of other requests fall between the SELECT of a
\* get_session and its UPDATE or DELETE.
Lifecycle ==
  INSTANCE SessionLifecycle WITH
    NoSession <- NoRow,
    sess <- [s \in SessionIds |->
               IF session[s] = NoRow THEN NoRow
               ELSE [created |-> session[s].created_at, seen |-> seen[s]]]

ImplementsLifecycle == Lifecycle!LifecycleSpec

\* No expired row stays in the table for good: the collector removes it (or a
\* request that read the row before it expired refreshes it).
ExpiredRowsCollected ==
  \A s \in SessionIds : []<>~(s \in Rows /\ Expired(s, now))

=============================================================================
