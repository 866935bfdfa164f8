-------------------------- MODULE RedisSessionStore --------------------------
(***************************************************************************)
(* The Redis session store (session/impls/redis.rs) and the handlers of    *)
(* sessions_endpoints.rs that call it.                                     *)
(*                                                                         *)
(* A session is a key with a time to live; the sessions of one client are  *)
(* also members of a set, the index, that listings and logouts read.       *)
(* Every Redis command is one step; commands of other requests run between *)
(* any two of a handler.  A key or set whose time to live has run out is   *)
(* absent, whether or not Redis has already reclaimed it.                  *)
(***************************************************************************)
EXTENDS Integers, FiniteSets

CONSTANTS
  SessionIds, Realms,
  Owners,       \* the index keys: realm, username and scheme
  OwnerOf,      \* [SessionIds -> Owners]
  RealmOf,      \* [SessionIds -> Realms]
  MaxAge,       \* [SessionIds -> Nat], max_age_seconds of the data stored
  MaxStale,     \* [SessionIds -> Nat], max_stale_age_seconds
  Procs,        \* requests being handled concurrently
  Lag,          \* longest time from reading the clock to the next command
  MaxTime,      \* bound on the clock
  NoKey,        \* the value of a session key that is not set
  Never         \* the expiry of a set without a time to live

ASSUME RedisLookupAssumption ==
  /\ SessionIds # {} /\ Owners # {}
  /\ OwnerOf \in [SessionIds -> Owners]
  /\ RealmOf \in [SessionIds -> Realms]
  /\ \A s, t \in SessionIds : OwnerOf[s] = OwnerOf[t] => RealmOf[s] = RealmOf[t]
ASSUME RedisLifetimeAssumption ==
  /\ MaxAge \in [SessionIds -> Nat]
  /\ MaxStale \in [SessionIds -> Nat]
ASSUME RedisClockAssumption == Lag \in Nat /\ MaxTime \in Nat
ASSUME RedisAbsentAssumption ==
  /\ NoKey \notin [created_at : Int, expires : Int]
  /\ NoKey \notin [created : Int, seen : Nat]
  /\ Never \notin Int

VARIABLES
  now,          \* the wall clock
  key,          \* the keys session:{session_id}
  index,        \* the sets user_sessions:{realm}:{username}:{scheme}
  call,         \* the request each process is handling
  seen          \* history: when each session was last stored or served

vars == <<now, key, index, call, seen>>

Data == [created_at : Int, expires : Int]
Index == [ids : SUBSET SessionIds, expires : Int \cup {Never}]

\* What a request is for: get_session alone or followed by a logout, a listing,
\* delete_sessions or delete_sessions_for_realm.
Logouts == {"LogoutOtherSessions", "LogoutAllSessions"}
Purposes == {"get", "list", "delete", "realm"} \cup Logouts

\* What a handler keeps between commands: the identifier of its request, the
\* one it is working on, the time to live to set, its clock reading, the
\* indexes and identifiers still to visit and the sessions found so far.
Call == [pc : {"idle", "sadd", "sexpire", "refresh", "del", "srem", "smembers",
               "list", "list_del", "list_srem", "delete", "delete_srem",
               "delete_del"},
         purpose : Purposes, sid : SessionIds, cur : SessionIds, ttl : Int,
         read_at : Nat, owners : SUBSET Owners, ids : SUBSET SessionIds,
         found : SUBSET SessionIds]

TypeOK ==
  /\ now \in Nat
  /\ key \in [SessionIds -> Data \cup {NoKey}]
  /\ index \in [Owners -> Index]
  /\ call \in [Procs -> Call]
  /\ seen \in [SessionIds -> Nat]

SomeId == CHOOSE s \in SessionIds : TRUE

Idle == [pc |-> "idle", purpose |-> "get", sid |-> SomeId, cur |-> SomeId,
         ttl |-> 0, read_at |-> 0, owners |-> {}, ids |-> {}, found |-> {}]

NoIndex == [ids |-> {}, expires |-> Never]

Init ==
  /\ now = 0
  /\ key = [s \in SessionIds |-> NoKey]
  /\ index = [o \in Owners |-> NoIndex]
  /\ call = [p \in Procs |-> Idle]
  /\ seen = [s \in SessionIds |-> 0]

-----------------------------------------------------------------------------
\* Redis: what GET and SMEMBERS return, and what SADD, SREM, EXPIRE and DEL do.
Present(s) == key[s] # NoKey /\ now < key[s].expires

Members(o) ==
  IF index[o].expires # Never /\ index[o].expires <= now
  THEN {} ELSE index[o].ids

\* A set that does not exist is created without a time to live.
SADD(o, s) ==
  index' = [index EXCEPT ![o] =
    IF Members(o) = {} THEN [ids |-> {s}, expires |-> Never]
    ELSE [ids |-> @.ids \cup {s}, expires |-> @.expires]]

\* A set that becomes empty is removed, and its time to live with it.
SREM(o, s) ==
  index' = [index EXCEPT ![o] =
    IF Members(o) \subseteq {s} THEN NoIndex
    ELSE [ids |-> @.ids \ {s}, expires |-> @.expires]]

DEL(s) == key' = [key EXCEPT ![s] = NoKey]

\* The call goes on, or is over.
Continue(p, c) == call' = [call EXCEPT ![p] = c]
Finish(p) == Continue(p, Idle)

Least(a, b) == IF a <= b THEN a ELSE b

-----------------------------------------------------------------------------
AbsoluteExpiry(s) == key[s].created_at + MaxAge[s]

\* Mutant: the idle time does not bound the time to live.
InitialTtl_AgeOnly(s) == MaxAge[s]

\* Redis refuses a time to live below one second.
InitialTtl(s) ==
  LET ttl == Least(MaxStale[s], MaxAge[s])
  IN IF ttl < 1 THEN 1 ELSE ttl

\* upsert_session: SET with a time to live, whether or not the key exists ...
upsert_session_set(p, s) ==
  /\ call[p].pc = "idle"
  /\ \E t \in {u \in (now - Lag)..now : u >= 0} :
       key' = [key EXCEPT ![s] =
                [created_at |-> t, expires |-> now + InitialTtl(s)]]
  /\ seen' = [seen EXCEPT ![s] = now]
  /\ Continue(p, [Idle EXCEPT !.pc = "sadd", !.sid = s])
  /\ UNCHANGED <<now, index>>

\* ... then the identifier joins the client's index ...
upsert_session_sadd(p) ==
  /\ call[p].pc = "sadd"
  /\ SADD(OwnerOf[call[p].sid], call[p].sid)
  /\ Continue(p, [call[p] EXCEPT !.pc = "sexpire"])
  /\ UNCHANGED <<now, key, seen>>

\* ... and the whole index gets the session's time to live.
upsert_session_expire(p) ==
  /\ call[p].pc = "sexpire"
  /\ LET o == OwnerOf[call[p].sid]
     IN index' = IF Members(o) = {} THEN index
                 ELSE [index EXCEPT ![o].expires =
                         now + InitialTtl(call[p].sid)]
  /\ Finish(p)
  /\ UNCHANGED <<now, key, seen>>

\* Mutant: every use grants the full age anew.
RefreshTtl_FullAge(s) == MaxAge[s]

\* The time to live get_session computes from the data it read.
RefreshTtl(s) == Least(MaxStale[s], AbsoluteExpiry(s) - now)

\* get_session: GET, and the clock is read as soon as it answers.  A session
\* past its age, or with no time left, will be deleted; another is returned
\* once its time to live is refreshed.
get_session(p, s, purpose, O) ==
  /\ call[p].pc = "idle"
  /\ Present(s)
  /\ purpose = "get" => O = {}
  /\ LET c == [Idle EXCEPT !.purpose = purpose, !.sid = s, !.owners = O,
                           !.read_at = now]
     IN IF now > AbsoluteExpiry(s) \/ RefreshTtl(s) <= 0
        THEN /\ Continue(p, [c EXCEPT !.pc = "del"])
             /\ UNCHANGED seen
        ELSE /\ Continue(p, [c EXCEPT !.pc = "refresh", !.ttl = RefreshTtl(s)])
             /\ seen' = [seen EXCEPT ![s] = now]
  /\ UNCHANGED <<now, key, index>>

get_session_del(p) ==
  /\ call[p].pc = "del"
  /\ DEL(call[p].sid)
  /\ Continue(p, [call[p] EXCEPT !.pc = "srem"])
  /\ UNCHANGED <<now, index, seen>>

get_session_srem(p) ==
  /\ call[p].pc = "srem"
  /\ SREM(OwnerOf[call[p].sid], call[p].sid)
  /\ Finish(p)
  /\ UNCHANGED <<now, key, seen>>

\* What a logout deletes.
ToLogout(c) ==
  IF c.purpose = "LogoutAllSessions" THEN c.found \cup {c.sid}
  ELSE c.found \ {c.sid}

\* Where a listing stands: the next identifier, the next index, or its end.
Proceed(c) ==
  IF c.ids # {} THEN [c EXCEPT !.pc = "list"]
  ELSE IF c.owners # {} THEN [c EXCEPT !.pc = "smembers"]
  ELSE IF c.purpose = "list" \/ ToLogout(c) = {} THEN Idle
  ELSE [c EXCEPT !.pc = "delete", !.ids = ToLogout(c), !.found = {},
                 !.read_at = 0]

\* EXPIRE, which does nothing to a key that has gone; the listing of a logout
\* reads the clock before its first command.
get_session_refresh(p) ==
  /\ call[p].pc = "refresh"
  /\ LET s == call[p].sid
     IN key' = IF Present(s)
               THEN [key EXCEPT ![s].expires = now + call[p].ttl]
               ELSE key
  /\ IF call[p].purpose = "get"
     THEN Finish(p)
     ELSE Continue(p, Proceed([call[p] EXCEPT !.ttl = 0, !.read_at = now]))
  /\ UNCHANGED <<now, index, seen>>

-----------------------------------------------------------------------------
\* POST /sessions/realms/{realm}/clients.
get_sessions_for_clients(p, O) ==
  /\ call[p].pc = "idle"
  /\ O # {}
  /\ Continue(p, [Idle EXCEPT !.pc = "smembers", !.purpose = "list",
                              !.owners = O, !.read_at = now])
  /\ UNCHANGED <<now, key, index, seen>>

list_smembers(p) ==
  /\ call[p].pc = "smembers"
  /\ \E o \in call[p].owners :
       Continue(p, Proceed([call[p] EXCEPT !.owners = @ \ {o},
                                           !.ids = Members(o)]))
  /\ UNCHANGED <<now, key, index, seen>>

\* GET of one identifier: listed, too old, or gone.
list_get(p) ==
  /\ call[p].pc = "list"
  /\ \E s \in call[p].ids :
       LET c == [call[p] EXCEPT !.ids = @ \ {s}]
       IN Continue(p,
            IF ~Present(s) THEN [c EXCEPT !.pc = "list_srem", !.cur = s]
            ELSE IF call[p].read_at > AbsoluteExpiry(s)
            THEN [c EXCEPT !.pc = "list_del", !.cur = s]
            ELSE Proceed([c EXCEPT !.found = @ \cup {s}]))
  /\ UNCHANGED <<now, key, index, seen>>

list_del(p) ==
  /\ call[p].pc = "list_del"
  /\ DEL(call[p].cur)
  /\ Continue(p, [call[p] EXCEPT !.pc = "list_srem"])
  /\ UNCHANGED <<now, index, seen>>

\* Lazy cleanup of the index.
list_srem(p) ==
  /\ call[p].pc = "list_srem"
  /\ SREM(OwnerOf[call[p].cur], call[p].cur)
  /\ Continue(p, Proceed([call[p] EXCEPT !.cur = SomeId]))
  /\ UNCHANGED <<now, key, seen>>

-----------------------------------------------------------------------------
\* DELETE /sessions.
delete_sessions(p, S) ==
  /\ call[p].pc = "idle"
  /\ S # {}
  /\ Continue(p, [Idle EXCEPT !.pc = "delete", !.purpose = "delete", !.ids = S])
  /\ UNCHANGED <<now, key, index, seen>>

\* SCAN for the session keys; those of other realms are passed over.
delete_sessions_for_realm(p, r) ==
  /\ call[p].pc = "idle"
  /\ LET S == {s \in SessionIds : Present(s) /\ RealmOf[s] = r}
     IN /\ S # {}
        /\ Continue(p, [Idle EXCEPT !.pc = "delete", !.purpose = "realm",
                                    !.ids = S])
  /\ UNCHANGED <<now, key, index, seen>>

\* The identifiers still to delete.
DeleteRest(c) == IF c.ids = {} THEN Idle ELSE [c EXCEPT !.pc = "delete"]

\* GET: the data tell which index the identifier is in.
delete_get(p) ==
  /\ call[p].pc = "delete"
  /\ \E s \in call[p].ids :
       LET c == [call[p] EXCEPT !.ids = @ \ {s}]
       IN Continue(p,
            IF Present(s) THEN [c EXCEPT !.pc = "delete_srem", !.cur = s]
            ELSE IF call[p].purpose = "realm" THEN DeleteRest(c)
            ELSE [c EXCEPT !.pc = "delete_del", !.cur = s])
  /\ UNCHANGED <<now, key, index, seen>>

delete_srem(p) ==
  /\ call[p].pc = "delete_srem"
  /\ SREM(OwnerOf[call[p].cur], call[p].cur)
  /\ Continue(p, [call[p] EXCEPT !.pc = "delete_del"])
  /\ UNCHANGED <<now, key, seen>>

delete_del(p) ==
  /\ call[p].pc = "delete_del"
  /\ DEL(call[p].cur)
  /\ Continue(p, DeleteRest([call[p] EXCEPT !.cur = SomeId]))
  /\ UNCHANGED <<now, index, seen>>

\* A command fails, or the server stops: the handler returns early.
abandon(p) ==
  /\ call[p].pc # "idle"
  /\ Finish(p)
  /\ UNCHANGED <<now, key, index, seen>>

\* A handler runs its EXPIRE at most Lag after it read the clock.
Tick ==
  /\ now < MaxTime
  /\ \A p \in Procs : call[p].pc = "refresh" => now < call[p].read_at + Lag
  /\ now' = now + 1
  /\ UNCHANGED <<key, index, call, seen>>

Handle(p) ==
  \/ \E s \in SessionIds : upsert_session_set(p, s)
  \/ upsert_session_sadd(p)
  \/ upsert_session_expire(p)
  \/ \E s \in SessionIds, a \in {"get"} \cup Logouts, O \in SUBSET Owners :
       get_session(p, s, a, O)
  \/ get_session_del(p)
  \/ get_session_srem(p)
  \/ get_session_refresh(p)
  \/ \E O \in SUBSET Owners : get_sessions_for_clients(p, O)
  \/ list_smembers(p)
  \/ list_get(p)
  \/ list_del(p)
  \/ list_srem(p)
  \/ \E S \in SUBSET SessionIds : delete_sessions(p, S)
  \/ \E r \in Realms : delete_sessions_for_realm(p, r)
  \/ delete_get(p)
  \/ delete_srem(p)
  \/ delete_del(p)
  \/ abandon(p)

Next == (\E p \in Procs : Handle(p)) \/ Tick

Spec == Init /\ [][Next]_vars

-----------------------------------------------------------------------------
\* A refresh never lets a key outlive the session's absolute expiry, also when
\* it lands on a key stored after the one it was computed from (get_session
\* caps the time to live by the remaining age); the second that Redis must be
\* given at least is all a session without an age gets (upsert_session).
TtlCapped ==
  \A s \in SessionIds :
    key[s] # NoKey =>
      key[s].expires <= key[s].created_at + (IF MaxAge[s] = 0 THEN 1 ELSE MaxAge[s]) + 2 * Lag

\* The Redis store implements the same lifecycle as the SQL stores: a session
\* is served only within its age and idle time, and a session deleted while a
\* get_session is between its GET and its EXPIRE stays deleted.
Lifecycle ==
  INSTANCE SessionLifecycle WITH
    NoSession <- NoKey,
    sess <- [s \in SessionIds |->
               IF key[s] = NoKey THEN NoKey
               ELSE [created |-> key[s].created_at, seen |-> seen[s]]]

RedisImplementsLifecycle == Lifecycle!LifecycleSpec
=============================================================================
