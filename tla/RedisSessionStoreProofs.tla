----------------------- MODULE RedisSessionStoreProofs -----------------------
(***************************************************************************)
(* For every set of sessions, owners, realms and concurrent requests and   *)
(* every Lag: the Redis store keeps its types, a refresh never carries a   *)
(* key past the absolute expiry of its session by more than twice the      *)
(* latency of a handler, and the store implements SessionLifecycle.        *)
(***************************************************************************)
EXTENDS RedisSessionStore, TLAPS

\* What is known of an EXPIRE that has not run yet.  It may land on a key that
\* was stored after the one its time to live was computed from, so that key's
\* creation bounds it only up to the latency of the login.
PendingRefresh(c) ==
  /\ c.read_at <= now /\ now <= c.read_at + Lag
  /\ c.ttl <= MaxAge[c.sid]
  /\ c.ttl <= MaxStale[c.sid]
  /\ c.read_at <= seen[c.sid]
  /\ key[c.sid] # NoKey => c.read_at + c.ttl <= AbsoluteExpiry(c.sid) + Lag

RefreshInv == \A p \in Procs : call[p].pc = "refresh" => PendingRefresh(call[p])

\* A key is created in the past, and expires at most the idle time and the
\* latency of a handler after its last use.
KeyInv ==
  \A s \in SessionIds :
    /\ seen[s] <= now
    /\ key[s] # NoKey =>
         /\ key[s].created_at <= now
         /\ key[s].expires <= seen[s] + MaxStale[s] + Lag + 1

IInv == TypeOK /\ RefreshInv /\ KeyInv /\ TtlCapped

-----------------------------------------------------------------------------
\* A finished request.
LEMMA IdleType == Idle \in Call
<1>1. SomeId \in SessionIds
  BY RedisLookupAssumption DEF SomeId
<1> QED
  BY <1>1 DEF Idle, Call, Purposes

\* The ages and idle times are natural numbers.
LEMMA AgeType ==
  ASSUME NEW s \in SessionIds
  PROVE  MaxAge[s] \in Nat /\ MaxStale[s] \in Nat /\ OwnerOf[s] \in Owners
BY RedisLookupAssumption, RedisLifetimeAssumption

\* A key that is set holds its data.
LEMMA KeyType ==
  ASSUME TypeOK, NEW s \in SessionIds, key[s] # NoKey
  PROVE  /\ key[s] \in Data /\ key[s].created_at \in Int /\ key[s].expires \in Int
         /\ AbsoluteExpiry(s) \in Int
BY AgeType DEF TypeOK, Data, AbsoluteExpiry

\* The initial time to live is at least a second.
LEMMA InitialTtlType ==
  ASSUME NEW s \in SessionIds
  PROVE  /\ InitialTtl(s) \in Nat
         /\ InitialTtl(s) <= MaxStale[s] + 1
         /\ InitialTtl(s) <= IF MaxAge[s] = 0 THEN 1 ELSE MaxAge[s]
BY AgeType DEF InitialTtl, Least

\* SMEMBERS returns identifiers.
LEMMA MembersType == ASSUME TypeOK, NEW o \in Owners PROVE Members(o) \subseteq SessionIds
BY DEF TypeOK, Members, Index

\* SADD keeps the indexes well formed ...
LEMMA SADDType ==
  ASSUME TypeOK, NEW o \in Owners, NEW s \in SessionIds, SADD(o, s)
  PROVE  index' \in [Owners -> Index]
<1>1. [ids |-> {s}, expires |-> Never] \in Index
  BY DEF Index
<1>2. [ids |-> index[o].ids \cup {s}, expires |-> index[o].expires] \in Index
  BY DEF Index, TypeOK
<1> DEFINE v == IF Members(o) = {} THEN [ids |-> {s}, expires |-> Never]
                ELSE [ids |-> index[o].ids \cup {s}, expires |-> index[o].expires]
<1>3. v \in Index
  BY <1>1, <1>2
<1>4. index' = [index EXCEPT ![o] = v]
  BY DEF SADD
<1> HIDE DEF v
<1> QED
  BY <1>3, <1>4 DEF TypeOK

\* ... and so does SREM.
LEMMA SREMType ==
  ASSUME TypeOK, NEW o \in Owners, NEW s \in SessionIds, SREM(o, s)
  PROVE  index' \in [Owners -> Index]
<1>1. NoIndex \in Index
  BY DEF Index, NoIndex
<1>2. [ids |-> index[o].ids \ {s}, expires |-> index[o].expires] \in Index
  BY DEF Index, TypeOK
<1> DEFINE v == IF Members(o) \subseteq {s} THEN NoIndex
                ELSE [ids |-> index[o].ids \ {s}, expires |-> index[o].expires]
<1>3. v \in Index
  BY <1>1, <1>2
<1>4. index' = [index EXCEPT ![o] = v]
  BY DEF SREM
<1> HIDE DEF v
<1> QED
  BY <1>3, <1>4 DEF TypeOK

\* A listing goes on, turns into the deletions of a logout, or ends; it never
\* goes back to the refresh.
LEMMA ProceedType ==
  ASSUME NEW c, c \in Call
  PROVE  Proceed(c) \in Call /\ Proceed(c).pc # "refresh"
<1>1. [c EXCEPT !.pc = "list"] \in Call /\ [c EXCEPT !.pc = "list"].pc = "list"
  BY DEF Call
<1>2. [c EXCEPT !.pc = "smembers"] \in Call /\ [c EXCEPT !.pc = "smembers"].pc = "smembers"
  BY DEF Call
<1>3. ToLogout(c) \in SUBSET SessionIds
  BY DEF Call, ToLogout
<1>4. ASSUME NEW S \in SUBSET SessionIds
      PROVE  /\ [c EXCEPT !.pc = "delete", !.ids = S, !.found = {}, !.read_at = 0] \in Call
             /\ [c EXCEPT !.pc = "delete", !.ids = S, !.found = {}, !.read_at = 0].pc = "delete"
  BY DEF Call
<1>5. Idle.pc = "idle"
  BY DEF Idle
<1> QED
  BY <1>1, <1>2, <1>3, <1>4, <1>5, IdleType DEF Proceed

\* So do the deletions.
LEMMA DeleteRestType ==
  ASSUME NEW c, c \in Call
  PROVE  DeleteRest(c) \in Call /\ DeleteRest(c).pc # "refresh"
<1>1. [c EXCEPT !.pc = "delete"] \in Call /\ [c EXCEPT !.pc = "delete"].pc = "delete"
  BY DEF Call
<1> QED
  BY <1>1, IdleType DEF DeleteRest, Idle

\* A command that only changes the state of its request keeps the types.
LEMMA ContinueType ==
  ASSUME TypeOK, NEW p \in Procs, NEW c, c \in Call, Continue(p, c)
  PROVE  /\ call' \in [Procs -> Call]
         /\ \A q \in Procs : call'[q] = IF q = p THEN c ELSE call[q]
BY DEF TypeOK, Continue

-----------------------------------------------------------------------------
\* A command that changes neither a key nor the clock, of a request that is not
\* about to refresh one, keeps the invariant.
LEMMA QuietStep ==
  ASSUME IInv, NEW p \in Procs, NEW c, c \in Call, c.pc # "refresh", Continue(p, c),
         UNCHANGED <<now, key, seen>>, index' \in [Owners -> Index]
  PROVE  IInv'
<1> TypeOK /\ RefreshInv /\ KeyInv /\ TtlCapped
  BY DEF IInv
<1>1. /\ call' \in [Procs -> Call]
      /\ \A q \in Procs : call'[q] = IF q = p THEN c ELSE call[q]
  BY ContinueType
<1>2. TypeOK'
  BY <1>1 DEF TypeOK
<1>3. RefreshInv'
  BY <1>1 DEF RefreshInv, PendingRefresh, AbsoluteExpiry
<1>4. KeyInv' /\ TtlCapped'
  BY DEF KeyInv, TtlCapped, AbsoluteExpiry
<1> QED
  BY <1>2, <1>3, <1>4 DEF IInv

\* Nor does a DEL disturb it, whatever refresh is pending.
LEMMA DeleteStep ==
  ASSUME IInv, NEW p \in Procs, NEW c, c \in Call, c.pc # "refresh", Continue(p, c),
         NEW s \in SessionIds, DEL(s), UNCHANGED <<now, index, seen>>
  PROVE  IInv'
<1> TypeOK /\ RefreshInv /\ KeyInv /\ TtlCapped
  BY DEF IInv
<1>1. /\ call' \in [Procs -> Call]
      /\ \A q \in Procs : call'[q] = IF q = p THEN c ELSE call[q]
  BY ContinueType
<1>2. \A t \in SessionIds : key'[t] = IF t = s THEN NoKey ELSE key[t]
  BY DEF DEL, TypeOK
<1>3. key' \in [SessionIds -> Data \cup {NoKey}]
  BY DEF DEL, TypeOK
<1>4. TypeOK'
  BY <1>1, <1>3 DEF TypeOK
<1>5. RefreshInv'
  <2>1. \A q \in Procs : call[q].sid \in SessionIds
    BY DEF TypeOK, Call
  <2> QED
    BY <1>1, <1>2, <2>1 DEF RefreshInv, PendingRefresh, AbsoluteExpiry
<1>6. KeyInv' /\ TtlCapped'
  BY <1>2 DEF KeyInv, TtlCapped, AbsoluteExpiry
<1> QED
  BY <1>4, <1>5, <1>6 DEF IInv

\* A login stores a key, possibly over one that a request is about to refresh
\* (upsert_session).
LEMMA StoreStep ==
  ASSUME IInv, NEW p \in Procs, NEW s \in SessionIds, upsert_session_set(p, s)
  PROVE  IInv'
<1> TypeOK /\ RefreshInv /\ KeyInv /\ TtlCapped
  BY DEF IInv
<1>1. PICK t \in {u \in (now - Lag)..now : u >= 0} :
        key' = [key EXCEPT ![s] = [created_at |-> t, expires |-> now + InitialTtl(s)]]
  BY DEF upsert_session_set
<1>2. now \in Nat /\ Lag \in Nat /\ t \in Nat /\ t <= now /\ now <= t + Lag
  BY RedisClockAssumption DEF TypeOK
<1>3. now' = now /\ index' = index /\ seen' = [seen EXCEPT ![s] = now]
  BY DEF upsert_session_set
<1> DEFINE c == [Idle EXCEPT !.pc = "sadd", !.sid = s]
<1>4. c \in Call /\ c.pc = "sadd" /\ Continue(p, c)
  BY IdleType DEF Call, upsert_session_set
<1> HIDE DEF c
<1>5. /\ call' \in [Procs -> Call]
      /\ \A q \in Procs : call'[q] = IF q = p THEN c ELSE call[q]
  BY <1>4, ContinueType
<1>6. [created_at |-> t, expires |-> now + InitialTtl(s)] \in Data
  BY <1>2, InitialTtlType DEF Data
<1>7. /\ key' \in [SessionIds -> Data \cup {NoKey}]
      /\ key'[s].created_at = t /\ key'[s].expires = now + InitialTtl(s)
      /\ \A x \in SessionIds : x # s => key'[x] = key[x]
  BY <1>1, <1>6 DEF TypeOK
<1>8. /\ seen' \in [SessionIds -> Nat] /\ seen'[s] = now
      /\ \A x \in SessionIds : x # s => seen'[x] = seen[x]
  BY <1>2, <1>3 DEF TypeOK
<1>9. TypeOK'
  BY <1>3, <1>5, <1>7, <1>8 DEF TypeOK
<1>10. RefreshInv'
  <2> SUFFICES ASSUME NEW q \in Procs, call'[q].pc = "refresh" PROVE PendingRefresh(call[q])'
    BY DEF RefreshInv
  <2>1. call'[q] = call[q] /\ PendingRefresh(call[q])
    BY <1>4, <1>5 DEF RefreshInv
  <2>2. call[q].sid \in SessionIds /\ call[q].read_at \in Nat /\ call[q].ttl \in Int
    BY DEF TypeOK, Call
  <2>3. CASE call[q].sid = s
    BY <1>2, <1>3, <1>7, <1>8, <2>1, <2>2, <2>3, AgeType DEF PendingRefresh, AbsoluteExpiry
  <2>4. CASE call[q].sid # s
    BY <1>3, <1>7, <1>8, <2>1, <2>2, <2>4 DEF PendingRefresh, AbsoluteExpiry
  <2> QED
    BY <2>3, <2>4
<1>11. KeyInv'
  <2>1. key'[s].expires <= seen'[s] + MaxStale[s] + Lag + 1
    BY <1>2, <1>7, <1>8, InitialTtlType, AgeType
  <2> QED
    BY <1>2, <1>3, <1>7, <1>8, <2>1 DEF KeyInv
<1>12. TtlCapped'
  <2>1. key'[s].expires <= key'[s].created_at + (IF MaxAge[s] = 0 THEN 1 ELSE MaxAge[s]) + 2 * Lag
    BY <1>2, <1>7, InitialTtlType, AgeType
  <2> QED
    BY <1>7, <2>1 DEF TtlCapped, AbsoluteExpiry
<1> QED
  BY <1>9, <1>10, <1>11, <1>12 DEF IInv

\* get_session reads a key, computes the time to live of its refresh and serves
\* the session, or turns to its deletion.
LEMMA GetStep ==
  ASSUME IInv, NEW p \in Procs, NEW s \in SessionIds, NEW a \in {"get"} \cup Logouts,
         NEW O \in SUBSET Owners, get_session(p, s, a, O)
  PROVE  IInv'
<1> TypeOK /\ RefreshInv /\ KeyInv /\ TtlCapped
  BY DEF IInv
<1> DEFINE c == [Idle EXCEPT !.purpose = a, !.sid = s, !.owners = O, !.read_at = now]
           d == [c EXCEPT !.pc = "del"]
           e == [c EXCEPT !.pc = "refresh", !.ttl = RefreshTtl(s)]
<1>1. /\ now \in Nat /\ Lag \in Nat /\ key[s] # NoKey
      /\ key[s].created_at \in Int /\ AbsoluteExpiry(s) \in Int
      /\ key[s].created_at <= now
  BY RedisClockAssumption, KeyType DEF get_session, Present, TypeOK, KeyInv
<1>2. /\ RefreshTtl(s) \in Int
      /\ RefreshTtl(s) <= MaxStale[s]
      /\ RefreshTtl(s) <= MaxAge[s]
      /\ now + RefreshTtl(s) <= AbsoluteExpiry(s)
  BY <1>1, AgeType DEF RefreshTtl, Least, AbsoluteExpiry
<1>3. c \in Call
  BY <1>1, IdleType DEF Call, Purposes
<1>4. d \in Call /\ d.pc = "del"
  <2> HIDE DEF c
  <2> QED
    BY <1>3 DEF Call
<1>5. e \in Call
  <2> HIDE DEF c
  <2> QED
    BY <1>2, <1>3 DEF Call
<1>6. e.pc = "refresh" /\ e.sid = s /\ e.read_at = now /\ e.ttl = RefreshTtl(s)
  BY IdleType DEF Call
<1>7. now' = now /\ key' = key /\ index' = index
  BY DEF get_session
<1>8. \/ Continue(p, d) /\ UNCHANGED seen
      \/ Continue(p, e) /\ seen' = [seen EXCEPT ![s] = now]
  BY DEF get_session
<1> HIDE DEF c, d, e
<1>9. CASE Continue(p, d) /\ UNCHANGED seen
  BY <1>4, <1>7, <1>9, QuietStep DEF TypeOK
<1>10. CASE Continue(p, e) /\ seen' = [seen EXCEPT ![s] = now]
  <2>1. /\ call' \in [Procs -> Call]
        /\ \A q \in Procs : call'[q] = IF q = p THEN e ELSE call[q]
    BY <1>5, <1>10, ContinueType
  <2>2. /\ seen' \in [SessionIds -> Nat]
        /\ \A x \in SessionIds : seen'[x] = IF x = s THEN now ELSE seen[x]
    BY <1>1, <1>10 DEF TypeOK
  <2>3. TypeOK'
    BY <1>7, <2>1, <2>2 DEF TypeOK
  <2>4. RefreshInv'
    <3> SUFFICES ASSUME NEW q \in Procs, call'[q].pc = "refresh" PROVE PendingRefresh(call[q])'
      BY DEF RefreshInv
    <3>1. CASE q = p
      <4>1. call'[q] = e
        BY <2>1, <3>1
      <4>2. /\ e.read_at <= now /\ now <= e.read_at + Lag /\ e.read_at <= seen'[s]
            /\ e.read_at + e.ttl <= AbsoluteExpiry(s) + Lag
        BY <1>1, <1>2, <1>6, <2>2
      <4> QED
        BY <1>2, <1>6, <1>7, <4>1, <4>2 DEF PendingRefresh, AbsoluteExpiry
    <3>2. CASE q # p
      <4>1. call'[q] = call[q] /\ PendingRefresh(call[q])
        BY <2>1, <3>2 DEF RefreshInv
      <4>2. call[q].sid \in SessionIds /\ call[q].read_at \in Nat
        BY DEF TypeOK, Call
      <4>3. call[q].read_at <= seen'[call[q].sid]
        BY <1>1, <2>2, <4>1, <4>2 DEF PendingRefresh
      <4> QED
        BY <1>7, <4>1, <4>3 DEF PendingRefresh, AbsoluteExpiry
    <3> QED
      BY <3>1, <3>2
  <2>5. KeyInv'
    <3>1. \A x \in SessionIds : seen[x] <= seen'[x] /\ seen'[x] <= now /\ seen[x] \in Nat
                                  /\ seen'[x] \in Nat
      BY <1>1, <2>2 DEF KeyInv, TypeOK
    <3> SUFFICES ASSUME NEW x \in SessionIds
                 PROVE  /\ seen'[x] <= now
                        /\ key[x] # NoKey =>
                             /\ key[x].created_at <= now
                             /\ key[x].expires <= seen'[x] + MaxStale[x] + Lag + 1
      BY <1>7 DEF KeyInv
    <3>2. key[x] # NoKey => /\ key[x].created_at <= now
                            /\ key[x].expires <= seen[x] + MaxStale[x] + Lag + 1
      BY DEF KeyInv
    <3>3. key[x] # NoKey => key[x].expires \in Int
      BY KeyType
    <3> QED
      BY <1>1, <3>1, <3>2, <3>3, AgeType
  <2>6. TtlCapped'
    BY <1>7 DEF TtlCapped, AbsoluteExpiry
  <2> QED
    BY <2>3, <2>4, <2>5, <2>6 DEF IInv
<1> QED
  BY <1>8, <1>9, <1>10

\* The EXPIRE of get_session, which may find another key than its GET did.
LEMMA RefreshStep ==
  ASSUME IInv, NEW p \in Procs, get_session_refresh(p)
  PROVE  IInv'
<1> TypeOK /\ RefreshInv /\ KeyInv /\ TtlCapped
  BY DEF IInv
<1> DEFINE s == call[p].sid
           c == [call[p] EXCEPT !.ttl = 0, !.read_at = now]
<1>1. /\ call[p] \in Call /\ call[p].pc = "refresh" /\ PendingRefresh(call[p])
      /\ now \in Nat /\ Lag \in Nat
  BY RedisClockAssumption DEF get_session_refresh, TypeOK, RefreshInv
<1>2. s \in SessionIds /\ call[p].ttl \in Int /\ call[p].read_at \in Nat /\ seen[s] \in Nat
  BY <1>1 DEF Call, TypeOK
<1>3. c \in Call
  <2> DEFINE d == [call[p] EXCEPT !.ttl = 0]
  <2>1. d \in Call
    BY <1>1 DEF Call
  <2>2. [d EXCEPT !.read_at = now] \in Call
    <3> HIDE DEF d
    <3> QED
      BY <1>1, <2>1 DEF Call
  <2> QED
    BY <2>2
<1>4. \/ Continue(p, Idle)
      \/ Continue(p, Proceed(c))
  BY DEF get_session_refresh, Finish
<1>5. PICK d \in Call : d.pc # "refresh" /\ Continue(p, d)
  <2> HIDE DEF c
  <2> QED
    BY <1>3, <1>4, IdleType, ProceedType DEF Idle
<1>6. now' = now /\ index' = index /\ seen' = seen
  BY DEF get_session_refresh
<1>7. CASE ~Present(s)
  BY <1>5, <1>6, <1>7, QuietStep DEF get_session_refresh, TypeOK
<1>8. CASE Present(s)
  <2>1. key' = [key EXCEPT ![s].expires = now + call[p].ttl]
    BY <1>8 DEF get_session_refresh
  <2>2. key[s] # NoKey /\ key[s] \in Data
    BY <1>2, <1>8, KeyType DEF Present
  <2>3. [key[s] EXCEPT !.expires = now + call[p].ttl] \in Data
    BY <1>1, <1>2, <2>2 DEF Data
  <2>4. /\ key' \in [SessionIds -> Data \cup {NoKey}]
        /\ \A x \in SessionIds : x # s => key'[x] = key[x]
        /\ key'[s].expires = now + call[p].ttl /\ key'[s].created_at = key[s].created_at
    BY <1>2, <2>1, <2>2, <2>3 DEF TypeOK, Data
  <2>5. /\ call' \in [Procs -> Call]
        /\ \A q \in Procs : call'[q] = IF q = p THEN d ELSE call[q]
    BY <1>5, ContinueType
  <2>6. TypeOK'
    BY <1>6, <2>4, <2>5 DEF TypeOK
  <2>7. RefreshInv'
    <3> SUFFICES ASSUME NEW q \in Procs, call'[q].pc = "refresh" PROVE PendingRefresh(call[q])'
      BY DEF RefreshInv
    <3>1. call'[q] = call[q] /\ PendingRefresh(call[q])
      BY <1>5, <2>5 DEF RefreshInv
    <3>2. call[q].sid \in SessionIds
      BY DEF TypeOK, Call
    <3>3. /\ key'[call[q].sid] # NoKey => key[call[q].sid] # NoKey
          /\ key'[call[q].sid].created_at = key[call[q].sid].created_at
      BY <2>2, <2>4, <3>2
    <3> QED
      BY <1>6, <3>1, <3>3 DEF PendingRefresh, AbsoluteExpiry
  <2>8. KeyInv'
    <3>1. now + call[p].ttl <= seen[s] + MaxStale[s] + Lag + 1
      BY <1>1, <1>2, AgeType DEF PendingRefresh
    <3> QED
      BY <1>6, <2>2, <2>4, <3>1 DEF KeyInv
  <2>9. TtlCapped'
    <3>1. now + call[p].ttl <= AbsoluteExpiry(s) + 2 * Lag
      BY <1>1, <1>2, <2>2, KeyType DEF PendingRefresh
    <3>2. key[s].created_at \in Int /\ MaxAge[s] \in Nat /\ call[p].ttl \in Int
      BY <1>1, <1>2, <2>2, KeyType, AgeType
    <3>3. now + call[p].ttl <= key[s].created_at + (IF MaxAge[s] = 0 THEN 1 ELSE MaxAge[s]) + 2 * Lag
      BY <1>1, <3>1, <3>2 DEF AbsoluteExpiry
    <3> QED
      BY <2>2, <2>4, <3>3 DEF TtlCapped
  <2> QED
    BY <2>6, <2>7, <2>8, <2>9 DEF IInv
<1> QED
  BY <1>7, <1>8

\* Time passes only while no pending EXPIRE is later than Lag after its reading.
LEMMA TickStep == ASSUME IInv, Tick PROVE IInv'
<1> TypeOK /\ RefreshInv /\ KeyInv /\ TtlCapped
  BY DEF IInv
<1>1. /\ now \in Nat /\ Lag \in Nat /\ now' = now + 1
      /\ key' = key /\ index' = index /\ call' = call /\ seen' = seen
  BY RedisClockAssumption DEF Tick, TypeOK
<1>2. TypeOK'
  BY <1>1 DEF TypeOK
<1>3. RefreshInv'
  <2> SUFFICES ASSUME NEW q \in Procs, call[q].pc = "refresh" PROVE PendingRefresh(call[q])'
    BY <1>1 DEF RefreshInv
  <2>1. PendingRefresh(call[q]) /\ now < call[q].read_at + Lag /\ call[q].read_at \in Nat
    BY DEF RefreshInv, Tick, TypeOK, Call
  <2> QED
    BY <1>1, <2>1 DEF PendingRefresh, AbsoluteExpiry
<1>4. KeyInv'
  <2> SUFFICES ASSUME NEW x \in SessionIds
               PROVE  seen[x] <= now + 1 /\ (key[x] # NoKey => key[x].created_at <= now + 1)
    BY <1>1 DEF KeyInv
  <2> QED
    BY <1>1, KeyType DEF KeyInv, TypeOK
<1>5. TtlCapped'
  BY <1>1 DEF TtlCapped, AbsoluteExpiry
<1> QED
  BY <1>2, <1>3, <1>4, <1>5 DEF IInv

\* Every command of every request keeps the invariant.
LEMMA InvStep == IInv /\ [Next]_vars => IInv'
<1> SUFFICES ASSUME IInv, [Next]_vars PROVE IInv'
  OBVIOUS
<1> TypeOK /\ \A p \in Procs : call[p] \in Call /\ call[p].sid \in SessionIds
                                 /\ call[p].cur \in SessionIds
  BY DEF IInv, TypeOK, Call
<1> DEFINE Same == UNCHANGED <<now, key, index, seen>>
<1>1. index \in [Owners -> Index]
  BY DEF TypeOK
<1>2. ASSUME NEW p \in Procs, upsert_session_sadd(p) PROVE IInv'
  <2> DEFINE c == [call[p] EXCEPT !.pc = "sexpire"]
  <2>1. c \in Call /\ c.pc = "sexpire"
    BY DEF Call
  <2>2. index' \in [Owners -> Index]
    BY <1>2, SADDType, AgeType DEF upsert_session_sadd
  <2> HIDE DEF c
  <2> QED
    BY <1>2, <2>1, <2>2, QuietStep DEF upsert_session_sadd, c
<1>3. ASSUME NEW p \in Procs, upsert_session_expire(p) PROVE IInv'
  <2> DEFINE o == OwnerOf[call[p].sid]
             t == now + InitialTtl(call[p].sid)
  <2>1. o \in Owners /\ t \in Int
    BY AgeType, InitialTtlType DEF TypeOK
  <2>2. [index[o] EXCEPT !.expires = t] \in Index
    BY <2>1 DEF TypeOK, Index
  <2>3. index' = index \/ index' = [index EXCEPT ![o].expires = t]
    BY <1>3 DEF upsert_session_expire
  <2>4. index' \in [Owners -> Index]
    <3> HIDE DEF o, t
    <3> QED
      BY <1>1, <2>1, <2>2, <2>3
  <2> QED
    BY <1>3, <2>4, IdleType, QuietStep DEF upsert_session_expire, Finish, Idle
<1>4. ASSUME NEW p \in Procs, get_session_del(p) PROVE IInv'
  <2> DEFINE c == [call[p] EXCEPT !.pc = "srem"]
  <2>1. c \in Call /\ c.pc = "srem"
    BY DEF Call
  <2> HIDE DEF c
  <2> QED
    BY <1>4, <2>1, DeleteStep DEF get_session_del, c
<1>5. ASSUME NEW p \in Procs, get_session_srem(p) PROVE IInv'
  <2>1. index' \in [Owners -> Index]
    BY <1>5, SREMType, AgeType DEF get_session_srem
  <2> QED
    BY <1>5, <2>1, IdleType, QuietStep DEF get_session_srem, Finish, Idle
<1>6. ASSUME NEW p \in Procs, NEW O \in SUBSET Owners, get_sessions_for_clients(p, O)
      PROVE  IInv'
  <2> DEFINE c == [Idle EXCEPT !.pc = "smembers", !.purpose = "list", !.owners = O, !.read_at = now]
  <2>1. c \in Call /\ c.pc = "smembers"
    BY IdleType DEF Call, Purposes, TypeOK
  <2> HIDE DEF c
  <2> QED
    BY <1>1, <1>6, <2>1, QuietStep DEF get_sessions_for_clients, c
<1>7. ASSUME NEW p \in Procs, list_smembers(p) PROVE IInv'
  <2> DEFINE c(o) == [call[p] EXCEPT !.owners = @ \ {o}, !.ids = Members(o)]
  <2>1. PICK o \in call[p].owners : Continue(p, Proceed(c(o)))
    BY <1>7 DEF list_smembers
  <2>2. Members(o) \subseteq SessionIds
    BY MembersType DEF Call
  <2>3. c(o) \in Call
    BY <2>2 DEF Call
  <2> HIDE DEF c
  <2> QED
    BY <1>1, <1>7, <2>1, <2>3, ProceedType, QuietStep DEF list_smembers
<1>8. ASSUME NEW p \in Procs, list_get(p) PROVE IInv'
  <2> DEFINE c(s) == [call[p] EXCEPT !.ids = @ \ {s}]
             d(s) == [c(s) EXCEPT !.pc = "list_srem", !.cur = s]
             e(s) == [c(s) EXCEPT !.pc = "list_del", !.cur = s]
             f(s) == [c(s) EXCEPT !.found = @ \cup {s}]
  <2>1. PICK s \in call[p].ids :
          Continue(p, d(s)) \/ Continue(p, e(s)) \/ Continue(p, Proceed(f(s)))
    BY <1>8 DEF list_get
  <2>2. s \in SessionIds /\ c(s) \in Call
    BY DEF Call
  <2> HIDE DEF c
  <2>3. d(s) \in Call /\ d(s).pc = "list_srem" /\ e(s) \in Call /\ e(s).pc = "list_del"
    BY <2>2 DEF Call
  <2>4. f(s) \in Call
    BY <2>2 DEF Call
  <2> HIDE DEF d, e, f
  <2> QED
    BY <1>1, <1>8, <2>1, <2>3, <2>4, ProceedType, QuietStep DEF list_get
<1>9. ASSUME NEW p \in Procs, list_del(p) PROVE IInv'
  <2> DEFINE c == [call[p] EXCEPT !.pc = "list_srem"]
  <2>1. c \in Call /\ c.pc = "list_srem"
    BY DEF Call
  <2> HIDE DEF c
  <2> QED
    BY <1>9, <2>1, DeleteStep DEF list_del, c
<1>10. ASSUME NEW c, c \in Call PROVE [c EXCEPT !.cur = SomeId] \in Call
  BY <1>10, RedisLookupAssumption DEF Call, SomeId
<1>11. ASSUME NEW p \in Procs, list_srem(p) PROVE IInv'
  <2> DEFINE c == [call[p] EXCEPT !.cur = SomeId]
  <2>1. c \in Call /\ Continue(p, Proceed(c))
    BY <1>10, <1>11 DEF list_srem
  <2>2. index' \in [Owners -> Index]
    BY <1>11, SREMType, AgeType DEF list_srem
  <2> HIDE DEF c
  <2> QED
    BY <1>11, <2>1, <2>2, ProceedType, QuietStep DEF list_srem
<1>12. ASSUME NEW p \in Procs, NEW S \in SUBSET SessionIds, NEW a \in {"delete", "realm"},
              Continue(p, [Idle EXCEPT !.pc = "delete", !.purpose = a, !.ids = S]), Same
       PROVE  IInv'
  <2> DEFINE c == [Idle EXCEPT !.pc = "delete", !.purpose = a, !.ids = S]
  <2>1. c \in Call /\ c.pc = "delete"
    BY IdleType DEF Call, Purposes
  <2> HIDE DEF c
  <2> QED
    BY <1>1, <1>12, <2>1, QuietStep DEF c
<1>13. ASSUME NEW p \in Procs, NEW S \in SUBSET SessionIds, delete_sessions(p, S) PROVE IInv'
  BY <1>12, <1>13 DEF delete_sessions
<1>14. ASSUME NEW p \in Procs, NEW r \in Realms, delete_sessions_for_realm(p, r) PROVE IInv'
  <2>1. {s \in SessionIds : Present(s) /\ RealmOf[s] = r} \in SUBSET SessionIds
    OBVIOUS
  <2> QED
    BY <1>12, <1>14, <2>1 DEF delete_sessions_for_realm
<1>15. ASSUME NEW p \in Procs, delete_get(p) PROVE IInv'
  <2> DEFINE c(s) == [call[p] EXCEPT !.ids = @ \ {s}]
             d(s) == [c(s) EXCEPT !.pc = "delete_srem", !.cur = s]
             e(s) == [c(s) EXCEPT !.pc = "delete_del", !.cur = s]
  <2>1. PICK s \in call[p].ids :
          Continue(p, d(s)) \/ Continue(p, e(s)) \/ Continue(p, DeleteRest(c(s)))
    BY <1>15 DEF delete_get
  <2>2. s \in SessionIds /\ c(s) \in Call
    BY DEF Call
  <2> HIDE DEF c
  <2>3. d(s) \in Call /\ d(s).pc = "delete_srem" /\ e(s) \in Call /\ e(s).pc = "delete_del"
    BY <2>2 DEF Call
  <2> HIDE DEF d, e
  <2> QED
    BY <1>1, <1>15, <2>1, <2>2, <2>3, DeleteRestType, QuietStep DEF delete_get
<1>16. ASSUME NEW p \in Procs, delete_srem(p) PROVE IInv'
  <2> DEFINE c == [call[p] EXCEPT !.pc = "delete_del"]
  <2>1. c \in Call /\ c.pc = "delete_del"
    BY DEF Call
  <2>2. index' \in [Owners -> Index]
    BY <1>16, SREMType, AgeType DEF delete_srem
  <2> HIDE DEF c
  <2> QED
    BY <1>16, <2>1, <2>2, QuietStep DEF delete_srem, c
<1>17. ASSUME NEW p \in Procs, delete_del(p) PROVE IInv'
  <2> DEFINE c == [call[p] EXCEPT !.cur = SomeId]
  <2>1. c \in Call /\ Continue(p, DeleteRest(c))
    BY <1>10, <1>17 DEF delete_del
  <2> HIDE DEF c
  <2> QED
    BY <1>17, <2>1, DeleteRestType, DeleteStep DEF delete_del
<1>18. ASSUME NEW p \in Procs, abandon(p) PROVE IInv'
  BY <1>1, <1>18, IdleType, QuietStep DEF abandon, Finish, Idle
<1>19. CASE UNCHANGED vars
  BY <1>19 DEF vars, IInv, TypeOK, RefreshInv, PendingRefresh, KeyInv, TtlCapped, AbsoluteExpiry
<1> QED
  BY <1>2, <1>3, <1>4, <1>5, <1>6, <1>7, <1>8, <1>9, <1>11, <1>13, <1>14, <1>15, <1>16, <1>17,
     <1>18, <1>19, StoreStep, GetStep, RefreshStep, TickStep
  DEF Next, Handle

\* The strengthened invariant holds of every behaviour (session/impls/redis.rs).
THEOREM RedisInvariant == Spec => []IInv
<1>1. Init => IInv
  <2> SUFFICES ASSUME Init PROVE IInv
    OBVIOUS
  <2>1. NoIndex \in Index
    BY DEF NoIndex, Index
  <2>2. TypeOK
    BY <2>1, IdleType DEF Init, TypeOK
  <2>3. RefreshInv /\ KeyInv /\ TtlCapped
    BY DEF Init, RefreshInv, Idle, KeyInv, TtlCapped
  <2> QED
    BY <2>2, <2>3 DEF IInv
<1> QED
  BY <1>1, InvStep, PTL DEF Spec

\* The keys, the indexes and the requests always have their types.
THEOREM RedisTypeCorrect == Spec => []TypeOK
<1>1. IInv => TypeOK
  BY DEF IInv
<1> QED
  BY <1>1, RedisInvariant, PTL

\* No refresh lets a key outlive the absolute expiry of its session by more than
\* twice Lag, whatever was stored or deleted between the GET and the EXPIRE of
\* get_session.
THEOREM TtlCappedAlways == Spec => []TtlCapped
<1>1. IInv => TtlCapped
  BY DEF IInv
<1> QED
  BY <1>1, RedisInvariant, PTL

-----------------------------------------------------------------------------
\* The sessions of SessionLifecycle that the keys and their history stand for.
Mapped == [s \in SessionIds |->
             IF key[s] = NoKey THEN NoKey
             ELSE [created |-> key[s].created_at, seen |-> seen[s]]]

\* A step in which some keys are deleted, or nothing a caller can see changes.
LEMMA EndRefines ==
  ASSUME now' = now,
         \A s \in SessionIds : key'[s] = NoKey \/ Mapped'[s] = Mapped[s]
  PROVE  Lifecycle!LifecycleNext
<1>1. PICK S \in SUBSET SessionIds : S = {s \in SessionIds : key'[s] = NoKey}
  OBVIOUS
<1>2. Mapped' = [s \in SessionIds |-> IF s \in S THEN NoKey ELSE Mapped[s]]
  BY <1>1 DEF Mapped
<1>3. Lifecycle!End(S)
  BY <1>2 DEF Lifecycle!End, Mapped
<1> QED
  BY <1>3 DEF Lifecycle!LifecycleNext

\* A login creates a session, or creates it anew.
LEMMA StoreRefines ==
  ASSUME IInv, NEW p \in Procs, NEW s \in SessionIds, upsert_session_set(p, s)
  PROVE  Lifecycle!LifecycleNext
<1> TypeOK
  BY DEF IInv
<1>1. PICK t \in {u \in (now - Lag)..now : u >= 0} :
        key' = [key EXCEPT ![s] = [created_at |-> t, expires |-> now + InitialTtl(s)]]
  BY DEF upsert_session_set
<1>2. t \in (now - Lag)..now /\ t \in Int /\ now \in Nat
  BY RedisClockAssumption DEF TypeOK
<1>3. [created_at |-> t, expires |-> now + InitialTtl(s)] # NoKey
  <2>1. [created_at |-> t, expires |-> now + InitialTtl(s)] \in [created_at : Int, expires : Int]
    BY <1>2, InitialTtlType
  <2> QED
    BY <2>1, RedisAbsentAssumption
<1>4. /\ key'[s] # NoKey /\ key'[s].created_at = t
      /\ \A x \in SessionIds : x # s => key'[x] = key[x]
  BY <1>1, <1>3 DEF TypeOK
<1>5. now' = now /\ seen' = [seen EXCEPT ![s] = now]
  BY DEF upsert_session_set
<1>6. seen'[s] = now /\ \A x \in SessionIds : x # s => seen'[x] = seen[x]
  BY <1>5 DEF TypeOK
<1>7. Mapped' = [Mapped EXCEPT ![s] = [created |-> t, seen |-> now]]
  BY <1>4, <1>6 DEF Mapped
<1>8. Lifecycle!Create(s)
  BY <1>2, <1>5, <1>7 DEF Lifecycle!Create, Mapped
<1> QED
  BY <1>8 DEF Lifecycle!LifecycleNext

\* A session that get_session returns is within its age and its idle time.
LEMMA GetRefines ==
  ASSUME IInv, NEW p \in Procs, NEW s \in SessionIds, NEW a \in {"get"} \cup Logouts,
         NEW O \in SUBSET Owners, get_session(p, s, a, O)
  PROVE  Lifecycle!LifecycleNext
<1> TypeOK /\ KeyInv
  BY DEF IInv
<1>1. /\ now \in Nat /\ Lag \in Nat /\ key[s] # NoKey /\ now < key[s].expires
      /\ key[s].created_at \in Int /\ key[s].expires \in Int /\ AbsoluteExpiry(s) \in Int
      /\ seen[s] \in Nat
  BY RedisClockAssumption, KeyType DEF get_session, Present, TypeOK
<1>2. now' = now /\ key' = key
  BY DEF get_session
<1>3. CASE UNCHANGED seen
  BY <1>2, <1>3, EndRefines DEF Mapped
<1>4. CASE now <= AbsoluteExpiry(s) /\ seen' = [seen EXCEPT ![s] = now]
  <2>1. now <= key[s].created_at + MaxAge[s] + Lag
    BY <1>1, <1>4, AgeType DEF AbsoluteExpiry
  <2>2. now <= seen[s] + MaxStale[s] + Lag
    BY <1>1, AgeType DEF KeyInv
  <2>3. Mapped[s] = [created |-> key[s].created_at, seen |-> seen[s]]
    BY <1>1 DEF Mapped
  <2>4. Mapped[s] # NoKey
    <3>1. Mapped[s] \in [created : Int, seen : Nat]
      BY <1>1, <2>3
    <3> QED
      BY <3>1, RedisAbsentAssumption
  <2>5. seen'[s] = now /\ \A x \in SessionIds : x # s => seen'[x] = seen[x]
    BY <1>4 DEF TypeOK
  <2>6. Mapped' = [Mapped EXCEPT ![s] = [created |-> key[s].created_at, seen |-> now]]
    BY <1>1, <1>2, <2>5 DEF Mapped
  <2>7. Mapped' = [Mapped EXCEPT ![s] = [@ EXCEPT !.seen = now]]
    <3>1. [Mapped[s] EXCEPT !.seen = now] = [created |-> key[s].created_at, seen |-> now]
      BY <2>3
    <3> QED
      BY <2>6, <3>1
  <2>8. Mapped[s].created = key[s].created_at /\ Mapped[s].seen = seen[s]
    BY <2>3
  <2>9. Lifecycle!Serve(s)
    BY <1>2, <2>1, <2>2, <2>4, <2>7, <2>8 DEF Lifecycle!Serve, Mapped
  <2> QED
    BY <2>9 DEF Lifecycle!LifecycleNext
<1> QED
  BY <1>1, <1>3, <1>4 DEF get_session

\* The Redis store implements the session lifecycle: what it serves is within
\* its age and idle time and has not been deleted, also when a deletion falls
\* between the GET and the EXPIRE of a get_session.
THEOREM RedisRefinement == Spec => RedisImplementsLifecycle
<1>1. Init => Lifecycle!LifecycleInit
  BY DEF Init, Lifecycle!LifecycleInit
<1>2. IInv /\ [Next]_vars => [Lifecycle!LifecycleNext]_(Lifecycle!LifecycleVars)
  <2> SUFFICES ASSUME IInv, [Next]_vars
               PROVE  [Lifecycle!LifecycleNext]_(Lifecycle!LifecycleVars)
    OBVIOUS
  <2> TypeOK
    BY DEF IInv
  <2>1. ASSUME NEW s \in SessionIds, DEL(s), UNCHANGED <<now, seen>>
        PROVE  Lifecycle!LifecycleNext
    <3>1. \A x \in SessionIds : key'[x] = IF x = s THEN NoKey ELSE key[x]
      BY <2>1 DEF DEL, TypeOK
    <3> QED
      BY <2>1, <3>1, EndRefines DEF Mapped
  <2>2. ASSUME UNCHANGED <<now, key, seen>> PROVE Lifecycle!LifecycleNext
    BY <2>2, EndRefines DEF Mapped
  <2>3. ASSUME NEW p \in Procs, get_session_refresh(p) PROVE Lifecycle!LifecycleNext
    <3>1. call[p].sid \in SessionIds /\ now' = now /\ seen' = seen
      BY <2>3 DEF get_session_refresh, TypeOK, Call
    <3>2. CASE key' = key
      BY <2>2, <3>1, <3>2
    <3>3. CASE key' # key
      <4> DEFINE s == call[p].sid
      <4>1. Present(s) /\ key' = [key EXCEPT ![s].expires = now + call[p].ttl]
        BY <2>3, <3>3 DEF get_session_refresh
      <4>2. key[s] # NoKey /\ key[s] \in Data
        BY <3>1, <4>1, KeyType DEF Present
      <4>3. /\ \A x \in SessionIds : x # s => key'[x] = key[x]
            /\ key'[s] \in Data \/ key'[s] = [key[s] EXCEPT !.expires = now + call[p].ttl]
            /\ key'[s].created_at = key[s].created_at
        BY <3>1, <4>1, <4>2 DEF TypeOK, Data
      <4>4. \A x \in SessionIds : key'[x] = NoKey \/ Mapped'[x] = Mapped[x]
        BY <3>1, <4>2, <4>3 DEF Mapped
      <4> QED
        BY <3>1, <4>4, EndRefines
    <3> QED
      BY <3>2, <3>3
  <2>4. \A p \in Procs : call[p].sid \in SessionIds /\ call[p].cur \in SessionIds
    BY DEF TypeOK, Call
  <2>5. ASSUME NEW p \in Procs, get_session_del(p) \/ list_del(p) \/ delete_del(p)
        PROVE  Lifecycle!LifecycleNext
    BY <2>1, <2>4, <2>5 DEF get_session_del, list_del, delete_del
  <2>6. ASSUME NEW p \in Procs,
               \/ upsert_session_sadd(p) \/ upsert_session_expire(p) \/ get_session_srem(p)
               \/ list_smembers(p) \/ list_get(p) \/ list_srem(p)
               \/ delete_get(p) \/ delete_srem(p) \/ abandon(p)
               \/ \E O \in SUBSET Owners : get_sessions_for_clients(p, O)
               \/ \E S \in SUBSET SessionIds : delete_sessions(p, S)
               \/ \E r \in Realms : delete_sessions_for_realm(p, r)
        PROVE  Lifecycle!LifecycleNext
    <3>1. UNCHANGED <<now, key, seen>>
      BY <2>6 DEF upsert_session_sadd, upsert_session_expire, get_session_srem, list_smembers,
                  list_get, list_srem, delete_get, delete_srem, abandon, get_sessions_for_clients,
                  delete_sessions, delete_sessions_for_realm
    <3> QED
      BY <2>2, <3>1
  <2>7. CASE Tick
    BY <2>7 DEF Tick, Lifecycle!Pass, Lifecycle!LifecycleNext
  <2>8. CASE UNCHANGED vars
    BY <2>8 DEF vars, Lifecycle!LifecycleVars
  <2> QED
    BY <2>3, <2>5, <2>6, <2>7, <2>8, StoreRefines, GetRefines DEF Next, Handle
<1> QED
  BY <1>1, <1>2, RedisInvariant, PTL
  DEF Spec, RedisImplementsLifecycle, Lifecycle!LifecycleSpec
=============================================================================
