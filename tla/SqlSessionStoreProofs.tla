------------------------ MODULE SqlSessionStoreProofs ------------------------
(***************************************************************************)
(* For every number of sessions, realms, clients and concurrent requests:  *)
(* the SQL session stores keep their types, never refresh a session past   *)
(* its absolute expiry, and implement SessionLifecycle.                    *)
(***************************************************************************)
EXTENDS SqlSessionStore, TLAPS

\* What is known of an UPDATE that has not run yet.  It may reach a row that
\* was stored after the one its value was computed from.
PendingUpdate(p) ==
  LET s == call[p].sid
  IN /\ call[p].value <= now + MaxAge[s]
     /\ call[p].value <= seen[s] + MaxStale[s]
     /\ s \in Rows => call[p].value <= AbsoluteExpiry(s) + Lag

ClockInv ==
  /\ \A s \in SessionIds : seen[s] <= now
  /\ \A s \in Rows : session[s].created_at <= now

\* The inductive invariant.
IInv ==
  /\ TypeOK
  /\ ClockInv
  /\ RefreshCapped
  /\ IdleBounded
  /\ \A p \in Procs : call[p].pc = "update" => PendingUpdate(p)

-----------------------------------------------------------------------------
\* A handler that is done holds a well-typed call (the reset of call[p]).
LEMMA IdleType == Idle \in Call
BY LookupAssumption DEF Idle, Call, Actions

\* Clock readings are natural numbers at most Lag behind the clock.
LEMMA ReadingType ==
  ASSUME now \in Nat, NEW t \in Readings
  PROVE  t \in Nat /\ t <= now /\ now <= t + Lag
BY ClockAssumption DEF Readings

\* Every DELETE statement removes rows and leaves the others as they are.
LEMMA WithoutType ==
  ASSUME TypeOK, NEW S
  PROVE  /\ Without(S) \in [SessionIds -> Row \cup {NoRow}]
         /\ \A s \in SessionIds : Without(S)[s] \in {session[s], NoRow}
BY DEF TypeOK, Without

\* The refreshed deadline lies within the idle time and the absolute expiry.
LEMMA RefreshedBounds ==
  ASSUME TypeOK, NEW s \in Rows, NEW t \in Nat
  PROVE  /\ Refreshed(s, t) \in Int
         /\ Refreshed(s, t) <= t + MaxStale[s]
         /\ Refreshed(s, t) <= AbsoluteExpiry(s)
BY LookupAssumption, LifetimeAssumption
DEF TypeOK, Rows, Row, Refreshed, AbsoluteExpiry

-----------------------------------------------------------------------------
\* Every statement of every handler keeps the table, the calls in flight and
\* the clock within their types (all operations of the SQL stores).
THEOREM TypeCorrect == Spec => []TypeOK
<1>1. Init => TypeOK
  BY IdleType DEF Init, TypeOK
<1>2. TypeOK /\ [Next]_vars => TypeOK'
  <2> SUFFICES ASSUME TypeOK, [Next]_vars PROVE TypeOK'
    OBVIOUS
  <2> USE DEF TypeOK
  <2>1. CASE \E s \in SessionIds : upsert_session(s)
    <3> PICK s \in SessionIds : upsert_session(s)
      BY <2>1
    <3>1. PICK t \in Readings :
            session' = [session EXCEPT ![s] =
              [created_at |-> t, stale_at |-> t + MaxStale[s]]]
      BY DEF upsert_session
    <3>2. [created_at |-> t, stale_at |-> t + MaxStale[s]] \in Row
      BY ReadingType, LookupAssumption, LifetimeAssumption DEF Row
    <3> QED
      BY <3>1, <3>2 DEF upsert_session
  <2>2. ASSUME NEW p \in Procs, NEW s \in SessionIds, NEW a \in Actions,
               NEW C \in SUBSET Clients, get_session_select(p, s, a, C)
        PROVE  TypeOK'
    <3>1. PICK t \in Readings :
            IF Expired(s, t)
            THEN /\ call' = [call EXCEPT ![p] =
                      [pc |-> "purge", sid |-> s, value |-> 0, action |-> a,
                       clients |-> C, listed |-> {}]]
                 /\ UNCHANGED seen
            ELSE /\ call' = [call EXCEPT ![p] =
                      [pc |-> "update", sid |-> s, value |-> Refreshed(s, t),
                       action |-> a, clients |-> C, listed |-> {}]]
                 /\ seen' = [seen EXCEPT ![s] = now]
      BY <2>2 DEF get_session_select
    <3>2. Refreshed(s, t) \in Int
      BY <2>2, ReadingType, RefreshedBounds DEF get_session_select
    <3>3. call' \in [Procs -> Call]
      BY <3>1, <3>2 DEF Call
    <3> QED
      BY <2>2, <3>1, <3>3 DEF get_session_select
  <2>3. ASSUME NEW p \in Procs, get_session_update(p)
        PROVE  TypeOK'
    <3>1. session' \in [SessionIds -> Row \cup {NoRow}]
      BY <2>3 DEF get_session_update, Row, Call, Rows
    <3> DEFINE c == [call[p] EXCEPT !.pc = "list"]
    <3>2. c \in Call
      BY DEF Call
    <3>3. [c EXCEPT !.value = 0] \in Call
      <4> HIDE DEF c
      <4> QED
        BY <3>2 DEF Call
    <3>4. call' \in [Procs -> Call]
      BY <2>3, <3>3, IdleType DEF get_session_update
    <3> QED
      BY <2>3, <3>1, <3>4 DEF get_session_update
  <2>4. ASSUME NEW p \in Procs, get_session_purge(p)
        PROVE  TypeOK'
    BY <2>4, IdleType DEF get_session_purge
  <2>5. ASSUME NEW p \in Procs, get_sessions_for_clients(p)
        PROVE  TypeOK'
    <3>1. PICK L \in SUBSET SessionIds :
            call' = [call EXCEPT ![p] =
                      [@ EXCEPT !.pc = "delete", !.listed = L]]
      BY <2>5 DEF get_sessions_for_clients, SelectedFor, Rows, Call
    <3>2. [call[p] EXCEPT !.pc = "delete", !.listed = L] \in Call
      BY DEF Call
    <3>3. call' \in [Procs -> Call]
      BY <3>1, <3>2
    <3> QED
      BY <2>5, <3>3 DEF get_sessions_for_clients
  <2>6. ASSUME NEW p \in Procs, logout_listed(p)
        PROVE  TypeOK'
    BY <2>6, IdleType, WithoutType DEF logout_listed
  <2>7. ASSUME NEW p \in Procs, abandon(p)
        PROVE  TypeOK'
    BY <2>7, IdleType DEF abandon
  <2>8. ASSUME NEW S, session' = Without(S), UNCHANGED <<now, call, seen>>
        PROVE  TypeOK'
    BY <2>8, WithoutType
  <2>9. CASE \/ \E S \in SUBSET SessionIds : delete_sessions(S)
             \/ \E t \in Readings : delete_expired_sessions(t)
             \/ \E r \in Realms : delete_sessions_for_realm(r)
    BY <2>8, <2>9
    DEF delete_sessions, delete_expired_sessions, delete_sessions_for_realm
  <2>10. CASE Tick
    BY <2>10 DEF Tick
  <2>11. CASE UNCHANGED vars
    BY <2>11 DEF vars
  <2> QED
    BY <2>1, <2>2, <2>3, <2>4, <2>5, <2>6, <2>7, <2>9, <2>10, <2>11
    DEF Next
<1> QED
  BY <1>1, <1>2, PTL DEF Spec

-----------------------------------------------------------------------------
\* Arithmetic facts about a row and its realm's limits.
LEMMA RowType ==
  ASSUME TypeOK, NEW s \in SessionIds
  PROVE  /\ MaxAge[s] \in Nat
         /\ MaxStale[s] \in Nat
         /\ seen[s] \in Nat
         /\ s \in Rows => /\ session[s] \in Row
                         /\ session[s].created_at \in Int
                         /\ session[s].stale_at \in Int
BY LookupAssumption, LifetimeAssumption DEF TypeOK, Rows, Row

\* A step that only removes rows and starts no UPDATE keeps the invariant:
\* every DELETE, the listing, an abandoned request and the purge.
LEMMA RemovalPreserves ==
  ASSUME IInv, TypeOK', now' = now, seen' = seen,
         \A s \in SessionIds : session'[s] \in {session[s], NoRow},
         \A p \in Procs : call'[p] = call[p] \/ call'[p].pc # "update"
  PROVE  IInv'
<1>1. \A s \in SessionIds : s \in Rows' => s \in Rows /\ session'[s] = session[s]
  BY DEF Rows
<1>2. ClockInv' /\ RefreshCapped' /\ IdleBounded'
  BY <1>1
  DEF IInv, ClockInv, RefreshCapped, IdleBounded, AbsoluteExpiry, Rows
<1>3. ASSUME NEW p \in Procs, call'[p].pc = "update"
      PROVE  PendingUpdate(p)'
  <2>1. call'[p] = call[p] /\ PendingUpdate(p)
    BY <1>3 DEF IInv
  <2>2. call[p].sid \in SessionIds
    BY DEF IInv, TypeOK, Call
  <2> QED
    BY <1>1, <2>1, <2>2 DEF PendingUpdate, AbsoluteExpiry
<1> QED
  BY <1>2, <1>3 DEF IInv

\* INSERT keeps the invariant: an UPDATE still pending for a deleted row of
\* the same identifier cannot carry the new row past its absolute expiry.
LEMMA UpsertPreserves ==
  ASSUME IInv, TypeOK', NEW s \in SessionIds, upsert_session(s)
  PROVE  IInv'
<1> TypeOK
  BY DEF IInv
<1>1. PICK t \in Readings :
        session' = [session EXCEPT ![s] =
          [created_at |-> t, stale_at |-> t + MaxStale[s]]]
  BY DEF upsert_session
<1>2. /\ now \in Nat /\ Lag \in Nat
      /\ t \in Nat /\ t <= now /\ now <= t + Lag
  BY ReadingType, ClockAssumption DEF TypeOK
<1>3. /\ now' = now /\ call' = call
      /\ seen'[s] = now
      /\ \A x \in SessionIds : x # s => seen'[x] = seen[x]
  BY DEF upsert_session, TypeOK
<1>4. /\ s \in Rows' /\ session'[s].created_at = t
      /\ session'[s].stale_at = t + MaxStale[s]
      /\ AbsoluteExpiry(s)' = t + MaxAge[s]
  BY <1>1, <1>2, RowType, NoRowAssumption DEF TypeOK, Rows, AbsoluteExpiry, Row
<1>5. \A x \in SessionIds : x # s => session'[x] = session[x]
  BY <1>1 DEF TypeOK
<1>6. ClockInv'
  BY <1>2, <1>3, <1>4, <1>5 DEF IInv, ClockInv, Rows
<1>7. RefreshCapped'
  BY <1>4, <1>5 DEF IInv, RefreshCapped, AbsoluteExpiry, Rows
<1>8. IdleBounded'
  BY <1>2, <1>3, <1>4, <1>5, RowType DEF IInv, IdleBounded, Rows
<1>9. ASSUME NEW p \in Procs, call'[p].pc = "update"
      PROVE  PendingUpdate(p)'
  <2> DEFINE x == call[p].sid
  <2>1. x \in SessionIds /\ call[p].value \in Int /\ call[p].pc = "update"
    BY <1>3, <1>9 DEF TypeOK, Call
  <2>2. PendingUpdate(p)
    BY <2>1 DEF IInv
  <2>3. CASE x # s
    BY <1>3, <1>5, <2>1, <2>2, <2>3 DEF PendingUpdate, AbsoluteExpiry, Rows
  <2>4. CASE x = s
    <3>1. /\ call[p].value <= now + MaxAge[s]
          /\ call[p].value <= seen[s] + MaxStale[s]
      BY <2>2, <2>4 DEF PendingUpdate
    <3>2. seen[s] <= now
      BY DEF IInv, ClockInv
    <3>3. call[p].value <= now + MaxStale[s]
      BY <1>2, <2>1, <3>1, <3>2, RowType
    <3>4. call[p].value <= (t + MaxAge[s]) + Lag
      BY <1>2, <2>1, <3>1, RowType
    <3> QED
      BY <1>3, <1>4, <2>4, <3>1, <3>3, <3>4 DEF PendingUpdate
  <2> QED
    BY <2>3, <2>4
<1> QED
  BY <1>6, <1>7, <1>8, <1>9 DEF IInv

\* The SELECT of get_session keeps the invariant: the value it computes is
\* within the idle time and the age of the row it read.
LEMMA SelectPreserves ==
  ASSUME IInv, TypeOK', NEW p \in Procs, NEW s \in SessionIds,
         NEW a \in Actions, NEW C \in SUBSET Clients,
         get_session_select(p, s, a, C)
  PROVE  IInv'
<1> TypeOK
  BY DEF IInv
<1>1. /\ s \in Rows /\ now' = now /\ session' = session
      /\ \A q \in Procs : q # p => call'[q] = call[q]
  BY DEF get_session_select, TypeOK
<1>2. PICK t \in Readings :
        IF Expired(s, t)
        THEN /\ call'[p].pc = "purge"
             /\ UNCHANGED seen
        ELSE /\ call'[p].sid = s
             /\ call'[p].value = Refreshed(s, t)
             /\ seen' = [seen EXCEPT ![s] = now]
  BY DEF get_session_select, TypeOK
<1>3. /\ now \in Nat /\ Lag \in Nat
      /\ t \in Nat /\ t <= now /\ now <= t + Lag
  BY ReadingType, ClockAssumption DEF TypeOK
<1>4. CASE Expired(s, t)
  BY <1>1, <1>2, <1>4, RemovalPreserves
<1>5. CASE ~Expired(s, t)
  <2>1. /\ seen'[s] = now
        /\ \A x \in SessionIds : seen[x] <= seen'[x] /\ seen'[x] <= now
    BY <1>2, <1>3, <1>5, RowType DEF IInv, ClockInv, TypeOK
  <2>2. ClockInv'
    BY <1>1, <2>1 DEF IInv, ClockInv, Rows
  <2>3. RefreshCapped'
    BY <1>1 DEF IInv, RefreshCapped, AbsoluteExpiry, Rows
  <2>4. IdleBounded'
    <3> SUFFICES ASSUME NEW x \in Rows
                 PROVE  session[x].stale_at <= seen'[x] + MaxStale[x]
      BY <1>1 DEF IdleBounded, Rows
    <3>1. x \in SessionIds
      BY DEF Rows
    <3>2. seen[x] \in Nat /\ seen'[x] \in Nat
      BY <3>1 DEF TypeOK
    <3>3. session[x].stale_at <= seen[x] + MaxStale[x]
      BY DEF IInv, IdleBounded
    <3> QED
      BY <2>1, <3>1, <3>2, <3>3, RowType
  <2>5. ASSUME NEW q \in Procs, call'[q].pc = "update"
        PROVE  PendingUpdate(q)'
    <3>1. CASE q = p
      <4>1. /\ Refreshed(s, t) \in Int
            /\ Refreshed(s, t) <= t + MaxStale[s]
            /\ Refreshed(s, t) <= AbsoluteExpiry(s)
        BY <1>1, <1>3, RefreshedBounds
      <4>2. session[s].created_at <= now /\ AbsoluteExpiry(s) \in Int
        BY <1>1, RowType DEF IInv, ClockInv, AbsoluteExpiry
      <4>3. Refreshed(s, t) <= now + MaxAge[s]
        BY <1>1, <1>3, <4>1, <4>2, RowType DEF AbsoluteExpiry
      <4>4. Refreshed(s, t) <= now + MaxStale[s]
        BY <1>3, <4>1, RowType
      <4>5. Refreshed(s, t) <= AbsoluteExpiry(s) + Lag
        BY <1>3, <4>1, <4>2
      <4>6. AbsoluteExpiry(s)' = AbsoluteExpiry(s)
        BY <1>1 DEF AbsoluteExpiry
      <4>7. call'[p].sid = s /\ call'[p].value = Refreshed(s, t)
        BY <1>2, <1>5
      <4> QED
        BY <1>1, <2>1, <3>1, <4>3, <4>4, <4>5, <4>6, <4>7 DEF PendingUpdate
    <3>2. CASE q # p
      <4> DEFINE x == call[q].sid
      <4>1. /\ call'[q] = call[q] /\ x \in SessionIds
            /\ call[q].value \in Int /\ PendingUpdate(q)
        BY <1>1, <2>5, <3>2 DEF IInv, TypeOK, Call
      <4>2. seen[x] \in Nat /\ seen'[x] \in Nat /\ seen[x] <= seen'[x]
        BY <2>1, <4>1 DEF TypeOK
      <4>3. call[q].value <= seen[x] + MaxStale[x]
        BY <4>1 DEF PendingUpdate
      <4>4. call[q].value <= seen'[x] + MaxStale[x]
        BY <4>1, <4>2, <4>3, RowType
      <4> QED
        BY <1>1, <4>1, <4>4 DEF PendingUpdate, AbsoluteExpiry, Rows
    <3> QED
      BY <3>1, <3>2
  <2> QED
    BY <2>2, <2>3, <2>4, <2>5 DEF IInv
<1> QED
  BY <1>4, <1>5

\* The UPDATE of get_session keeps the invariant, whichever row it reaches.
LEMMA UpdatePreserves ==
  ASSUME IInv, TypeOK', NEW p \in Procs, get_session_update(p)
  PROVE  IInv'
<1> TypeOK
  BY DEF IInv
<1> DEFINE s == call[p].sid
<1>1. /\ s \in SessionIds /\ call[p].value \in Int /\ PendingUpdate(p)
      /\ now' = now /\ seen' = seen
  BY DEF get_session_update, IInv, TypeOK, Call
<1>2. \A q \in Procs : call'[q] = call[q] \/ call'[q].pc # "update"
  BY DEF get_session_update, TypeOK, Call, Idle
<1>3. CASE s \notin Rows
  BY <1>1, <1>2, <1>3, RemovalPreserves DEF get_session_update
<1>4. CASE s \in Rows
  <2>1. session' = [session EXCEPT ![s] = [@ EXCEPT !.stale_at = call[p].value]]
    BY <1>4 DEF get_session_update
  <2>2. /\ session'[s].created_at = session[s].created_at
        /\ session'[s].stale_at = call[p].value
    BY <1>1, <1>4, <2>1, RowType DEF TypeOK, Row
  <2>3. \A x \in SessionIds : x # s => session'[x] = session[x]
    BY <2>1 DEF TypeOK
  <2>4. \A x \in SessionIds : x \in Rows' =>
          /\ x \in Rows
          /\ session'[x].created_at = session[x].created_at
          /\ AbsoluteExpiry(x)' = AbsoluteExpiry(x)
    BY <1>4, <2>2, <2>3 DEF Rows, AbsoluteExpiry
  <2>5. ClockInv'
    BY <1>1, <2>4 DEF IInv, ClockInv, Rows
  <2>6. RefreshCapped' /\ IdleBounded'
    <3>1. /\ call[p].value <= seen[s] + MaxStale[s]
          /\ call[p].value <= AbsoluteExpiry(s) + Lag
      BY <1>1, <1>4 DEF PendingUpdate
    <3> QED
      BY <1>1, <2>2, <2>3, <2>4, <3>1
      DEF IInv, RefreshCapped, IdleBounded, Rows
  <2>7. ASSUME NEW q \in Procs, call'[q].pc = "update"
        PROVE  PendingUpdate(q)'
    <3>1. call'[q] = call[q] /\ call[q].sid \in SessionIds /\ PendingUpdate(q)
      BY <1>2, <2>7 DEF IInv, TypeOK, Call
    <3> QED
      BY <1>1, <2>4, <3>1 DEF PendingUpdate
  <2> QED
    BY <2>5, <2>6, <2>7 DEF IInv
<1> QED
  BY <1>3, <1>4

\* The clock moves on: an UPDATE in flight only gets older.
LEMMA TickPreserves ==
  ASSUME IInv, TypeOK', Tick
  PROVE  IInv'
<1> TypeOK
  BY DEF IInv
<1>1. /\ now \in Nat /\ now' = now + 1
      /\ session' = session /\ call' = call /\ seen' = seen
  BY DEF Tick, TypeOK
<1>2. ClockInv'
  BY <1>1, RowType DEF IInv, ClockInv, Rows
<1>3. RefreshCapped' /\ IdleBounded'
  BY <1>1 DEF IInv, RefreshCapped, IdleBounded, AbsoluteExpiry, Rows
<1>4. ASSUME NEW p \in Procs, call'[p].pc = "update"
      PROVE  PendingUpdate(p)'
  <2>1. /\ call[p].sid \in SessionIds /\ call[p].value \in Int
        /\ PendingUpdate(p)
    BY <1>1, <1>4 DEF IInv, TypeOK, Call
  <2> QED
    BY <1>1, <2>1, RowType DEF PendingUpdate, AbsoluteExpiry, Rows
<1> QED
  BY <1>2, <1>3, <1>4 DEF IInv

-----------------------------------------------------------------------------
\* The inductive invariant holds throughout every behaviour: what each pending
\* UPDATE may write is bounded however requests, deletions and the collector
\* interleave (all operations of the SQL stores).
THEOREM Invariance == Spec => []IInv
<1>1. Init => IInv
  <2>1. Init => TypeOK
    BY IdleType DEF Init, TypeOK
  <2> QED
    BY <2>1
    DEF Init, IInv, ClockInv, RefreshCapped, IdleBounded, Rows, Idle
<1>2. IInv /\ TypeOK' /\ [Next]_vars => IInv'
  <2> SUFFICES ASSUME IInv, TypeOK', [Next]_vars PROVE IInv'
    OBVIOUS
  <2> TypeOK
    BY DEF IInv
  <2>1. ASSUME NEW p \in Procs,
               \/ get_session_purge(p) \/ get_sessions_for_clients(p)
               \/ logout_listed(p) \/ abandon(p)
        PROVE  IInv'
    <3>1. now' = now /\ seen' = seen
      BY <2>1
      DEF get_session_purge, get_sessions_for_clients, logout_listed, abandon
    <3>2. \A s \in SessionIds : session'[s] \in {session[s], NoRow}
      BY <2>1, WithoutType
      DEF get_session_purge, get_sessions_for_clients, logout_listed, abandon,
          TypeOK
    <3>3. \A q \in Procs : call'[q] = call[q] \/ call'[q].pc # "update"
      <4>1. CASE get_sessions_for_clients(p)
        <5>1. PICK L : call' = [call EXCEPT ![p] =
                                 [@ EXCEPT !.pc = "delete", !.listed = L]]
          BY <4>1 DEF get_sessions_for_clients
        <5>2. call'[p].pc = "delete"
          BY <5>1 DEF TypeOK, Call
        <5> QED
          BY <5>1, <5>2 DEF TypeOK
      <4>2. CASE get_session_purge(p) \/ logout_listed(p) \/ abandon(p)
        BY <4>2 DEF get_session_purge, logout_listed, abandon, Idle, TypeOK
      <4> QED
        BY <2>1, <4>1, <4>2
    <3> QED
      BY <3>1, <3>2, <3>3, RemovalPreserves
  <2>2. ASSUME NEW S, session' = Without(S), UNCHANGED <<now, call, seen>>
        PROVE  IInv'
    BY <2>2, WithoutType, RemovalPreserves
  <2>3. CASE \/ \E S \in SUBSET SessionIds : delete_sessions(S)
             \/ \E t \in Readings : delete_expired_sessions(t)
             \/ \E r \in Realms : delete_sessions_for_realm(r)
    BY <2>2, <2>3
    DEF delete_sessions, delete_expired_sessions, delete_sessions_for_realm
  <2>4. CASE UNCHANGED vars
    BY <2>4, RemovalPreserves DEF vars
  <2> QED
    BY <2>1, <2>3, <2>4, UpsertPreserves, SelectPreserves, UpdatePreserves,
       TickPreserves
    DEF Next
<1> QED
  BY <1>1, <1>2, TypeCorrect, PTL DEF Spec

\* No interleaving of refreshes carries a session past its absolute expiry
\* (the cap get_session puts on the new stale_at).
THEOREM RefreshCappedAlways == Spec => []RefreshCapped
<1>1. IInv => RefreshCapped
  BY DEF IInv
<1> QED
  BY <1>1, Invariance, PTL

\* stale_at never grants more idle time than the realm allows after the last
\* use of the session (the UPDATE of get_session).
THEOREM IdleBoundedAlways == Spec => []IdleBounded
<1>1. IInv => IdleBounded
  BY DEF IInv
<1> QED
  BY <1>1, Invariance, PTL

-----------------------------------------------------------------------------
\* The sessions of SessionLifecycle that a table and its history stand for.
Mapped == [s \in SessionIds |->
             IF session[s] = NoRow THEN NoRow
             ELSE [created |-> session[s].created_at, seen |-> seen[s]]]

\* The SQL stores implement the session lifecycle: what they serve is within
\* its age and idle time and has not been deleted (get_session, upsert_session
\* and every deletion).
THEOREM Refinement == Spec => ImplementsLifecycle
<1>1. Init => Lifecycle!LifecycleInit
  BY DEF Init, Lifecycle!LifecycleInit
<1>2. IInv /\ TypeOK' /\ [Next]_vars
        => [Lifecycle!LifecycleNext]_(Lifecycle!LifecycleVars)
  <2> SUFFICES ASSUME IInv, TypeOK', [Next]_vars
               PROVE  [Lifecycle!LifecycleNext]_(Lifecycle!LifecycleVars)
    OBVIOUS
  <2> TypeOK
    BY DEF IInv
  <2> USE DEF Lifecycle!LifecycleNext, Lifecycle!LifecycleVars
  <2>1. ASSUME NEW s \in SessionIds, upsert_session(s)
        PROVE  Lifecycle!LifecycleNext
    <3>1. PICK t \in Readings :
            session' = [session EXCEPT ![s] =
              [created_at |-> t, stale_at |-> t + MaxStale[s]]]
      BY <2>1 DEF upsert_session
    <3>2. t \in (now - Lag)..now /\ t \in Nat
      BY DEF Readings
    <3>3. /\ session'[s] # NoRow /\ session'[s].created_at = t
          /\ \A x \in SessionIds : x # s => session'[x] = session[x]
      BY <3>1, <3>2, RowType, NoRowAssumption DEF TypeOK
    <3>4. now' = now /\ seen' = [seen EXCEPT ![s] = now]
      BY <2>1 DEF upsert_session
    <3>5. Mapped' = [Mapped EXCEPT ![s] = [created |-> t, seen |-> now]]
      BY <3>3, <3>4 DEF Mapped, TypeOK
    <3>6. Lifecycle!Create(s)
      BY <3>2, <3>4, <3>5 DEF Lifecycle!Create, Mapped
    <3> QED
      BY <3>6
  <2>2. ASSUME NEW s \in SessionIds, NEW t \in Readings,
               s \in Rows, ~Expired(s, t),
               now' = now, session' = session,
               seen' = [seen EXCEPT ![s] = now]
        PROVE  Lifecycle!LifecycleNext
    <3>1. /\ now \in Nat /\ Lag \in Nat
          /\ t \in Nat /\ t <= now /\ now <= t + Lag
      BY ReadingType, ClockAssumption DEF TypeOK
    <3>2. t <= session[s].stale_at /\ t <= AbsoluteExpiry(s)
      BY <2>2, <3>1, RowType DEF Expired, AbsoluteExpiry
    <3>3. session[s].stale_at <= seen[s] + MaxStale[s]
      BY <2>2 DEF IInv, IdleBounded
    <3>4. /\ now <= session[s].created_at + MaxAge[s] + Lag
          /\ now <= seen[s] + MaxStale[s] + Lag
      BY <2>2, <3>1, <3>2, <3>3, RowType DEF AbsoluteExpiry
    <3>5. Mapped[s] = [created |-> session[s].created_at, seen |-> seen[s]]
      BY <2>2 DEF Mapped, Rows
    <3>6. Mapped[s] # NoRow
      BY <2>2, <3>5, RowType, NoRowAssumption
    <3>7. Mapped' = [Mapped EXCEPT ![s] = [@ EXCEPT !.seen = now]]
      <4>1. \A x \in SessionIds : x # s => Mapped'[x] = Mapped[x]
        BY <2>2 DEF Mapped, TypeOK
      <4>2. Mapped'[s] = [created |-> session[s].created_at, seen |-> now]
        BY <2>2 DEF Mapped, TypeOK, Rows
      <4>3. [Mapped[s] EXCEPT !.seen = now]
              = [created |-> session[s].created_at, seen |-> now]
        BY <3>5
      <4>4. /\ Mapped = [x \in SessionIds |-> Mapped[x]]
            /\ Mapped' = [x \in SessionIds |-> Mapped'[x]]
        BY DEF Mapped
      <4> QED
        BY <4>1, <4>2, <4>3, <4>4
    <3>8. Lifecycle!Serve(s)
      <4>1. Mapped[s].created = session[s].created_at /\ Mapped[s].seen = seen[s]
        BY <3>5
      <4> QED
        BY <2>2, <3>4, <3>6, <3>7, <4>1 DEF Lifecycle!Serve, Mapped
    <3> QED
      BY <3>8
  <2>3. ASSUME now' = now,
               \A s \in SessionIds :
                 session'[s] = NoRow \/ Mapped'[s] = Mapped[s]
        PROVE  Lifecycle!LifecycleNext
    <3>1. PICK S \in SUBSET SessionIds : S = {s \in SessionIds : session'[s] = NoRow}
      OBVIOUS
    <3>2. Mapped' = [s \in SessionIds |-> IF s \in S THEN NoRow ELSE Mapped[s]]
      BY <2>3, <3>1 DEF Mapped
    <3>3. Lifecycle!End(S)
      BY <2>3, <3>2 DEF Lifecycle!End, Mapped
    <3> QED
      BY <3>3
  <2>4. ASSUME NEW p \in Procs, NEW s \in SessionIds, NEW a \in Actions,
               NEW C \in SUBSET Clients, get_session_select(p, s, a, C)
        PROVE  Lifecycle!LifecycleNext
    <3>1. PICK t \in Readings :
            IF Expired(s, t) THEN UNCHANGED seen
                             ELSE seen' = [seen EXCEPT ![s] = now]
      BY <2>4 DEF get_session_select
    <3>2. s \in Rows /\ now' = now /\ session' = session
      BY <2>4 DEF get_session_select
    <3>3. CASE Expired(s, t)
      BY <2>3, <3>1, <3>2, <3>3 DEF Mapped
    <3>4. CASE ~Expired(s, t)
      BY <2>2, <3>1, <3>2, <3>4
    <3> QED
      BY <3>3, <3>4
  <2>5. ASSUME NEW p \in Procs, get_session_update(p)
        PROVE  Lifecycle!LifecycleNext
    <3>1. \A s \in SessionIds :
            session'[s] = session[s]
              \/ /\ session[s] # NoRow
                 /\ session'[s].created_at = session[s].created_at
      BY <2>5, RowType DEF get_session_update, TypeOK, Rows, Row
    <3>2. now' = now /\ seen' = seen
      BY <2>5 DEF get_session_update
    <3> QED
      BY <2>3, <3>1, <3>2 DEF Mapped
  <2>6. ASSUME NEW p \in Procs,
               \/ get_session_purge(p) \/ get_sessions_for_clients(p)
               \/ logout_listed(p) \/ abandon(p)
        PROVE  Lifecycle!LifecycleNext
    <3>1. now' = now /\ seen' = seen
      BY <2>6
      DEF get_session_purge, get_sessions_for_clients, logout_listed, abandon
    <3>2. \A s \in SessionIds : session'[s] \in {session[s], NoRow}
      BY <2>6, WithoutType
      DEF get_session_purge, get_sessions_for_clients, logout_listed, abandon,
          TypeOK
    <3> QED
      BY <2>3, <3>1, <3>2 DEF Mapped
  <2>7. ASSUME NEW S, session' = Without(S), UNCHANGED <<now, call, seen>>
        PROVE  Lifecycle!LifecycleNext
    BY <2>3, <2>7, WithoutType DEF Mapped
  <2>8. CASE \/ \E S \in SUBSET SessionIds : delete_sessions(S)
             \/ \E t \in Readings : delete_expired_sessions(t)
             \/ \E r \in Realms : delete_sessions_for_realm(r)
    BY <2>7, <2>8
    DEF delete_sessions, delete_expired_sessions, delete_sessions_for_realm
  <2>9. CASE Tick
    BY <2>9 DEF Tick, Lifecycle!Pass
  <2>10. CASE UNCHANGED vars
    BY <2>10 DEF vars
  <2> QED
    BY <2>1, <2>4, <2>5, <2>6, <2>8, <2>9, <2>10 DEF Next
<1> QED
  BY <1>1, <1>2, TypeCorrect, Invariance, PTL
  DEF Spec, ImplementsLifecycle, Lifecycle!LifecycleSpec
=============================================================================
