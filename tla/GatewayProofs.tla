---------------------------- MODULE GatewayProofs ----------------------------
(***************************************************************************)
(* For every set of addresses, workers, realms, sessions and concurrent    *)
(* requests: the limiter lets at most one burst per worker through beyond  *)
(* the sustained rate, the tables and the requests keep their types, a     *)
(* session that is served is only refused for the time its steps took, and *)
(* a certificate is only issued for a session that was live during the     *)
(* request.                                                                *)
(***************************************************************************)
EXTENDS Gateway, FiniteSetTheorems, TLAPS

-----------------------------------------------------------------------------
(***************************************************************************)
(* The limiter.  Used(i) holds one element for each token that is missing  *)
(* from a bucket of address i; the attempts beyond the sustained rate are  *)
(* no more than these.                                                     *)
(***************************************************************************)
Used(i) == {x \in Workers \X (1..Capacity) : level[<<x[1], i>>] < x[2]}

LimiterInv ==
  /\ LimiterTypeOK
  /\ \A i \in Ips : excess[i] <= Cardinality(Used(i))

\* The burst is at least one.
LEMMA CapacityType == Capacity \in Nat /\ Capacity >= 1
BY BurstAssumption DEF Capacity

\* The missing tokens of an address are at most a burst for each worker.
LEMMA UsedFinite ==
  ASSUME NEW i
  PROVE  /\ IsFiniteSet(Used(i)) /\ Cardinality(Used(i)) \in Nat
         /\ Cardinality(Used(i)) <= Capacity * Cardinality(Workers)
<1> DEFINE All == Workers \X (1..Capacity)
<1>1. IsFiniteSet(1..Capacity) /\ Cardinality(1..Capacity) = Capacity
  BY CapacityType, FS_Interval
<1>2. IsFiniteSet(All) /\ Cardinality(All) = Cardinality(Workers) * Cardinality(1..Capacity)
  BY <1>1, BurstAssumption, FS_Product
<1>3. Used(i) \in SUBSET All
  BY DEF Used
<1> HIDE DEF All
<1>4. IsFiniteSet(Used(i)) /\ Cardinality(Used(i)) <= Cardinality(All)
  BY <1>2, <1>3, FS_Subset
<1>5. Cardinality(Workers) \in Nat /\ Cardinality(Used(i)) \in Nat
  BY <1>4, BurstAssumption, FS_CardinalityType
<1> QED
  BY <1>1, <1>2, <1>4, <1>5, CapacityType

\* A request that passes takes a token (check_key).
LEMMA CheckKeyStep ==
  ASSUME LimiterInv, NEW w \in Workers, NEW i \in Ips, check_key(w, i)
  PROVE  LimiterInv'
<1> DEFINE k == level[<<w, i>>]
<1>1. /\ level \in [Workers \X Ips -> 0..Capacity] /\ excess \in [Ips -> Nat]
      /\ Capacity \in Nat /\ k \in 0..Capacity /\ k > 0
  BY CapacityType DEF LimiterInv, LimiterTypeOK, check_key
<1>2. level' = [level EXCEPT ![<<w, i>>] = k - 1] /\ excess' = [excess EXCEPT ![i] = excess[i] + 1]
  BY DEF check_key
<1>3. LimiterTypeOK'
  BY <1>1, <1>2 DEF LimiterTypeOK
<1>4. Used(i)' = Used(i) \cup {<<w, k>>} /\ <<w, k>> \notin Used(i)
  <2>1. \A v \in Workers : level'[<<v, i>>] = IF v = w THEN k - 1 ELSE level[<<v, i>>]
    BY <1>1, <1>2
  <2>2. \A v \in Workers : level[<<v, i>>] \in 0..Capacity
    BY <1>1
  <2>3. ASSUME NEW v \in Workers, NEW n \in 1..Capacity
        PROVE  level'[<<v, i>>] < n <=> (level[<<v, i>>] < n \/ (v = w /\ n = k))
    BY <1>1, <2>1, <2>2
  <2>4. <<w, k>> \in Workers \X (1..Capacity)
    BY <1>1
  <2> HIDE DEF k
  <2>5. Used(i)' = {x \in Workers \X (1..Capacity) : level[<<x[1], i>>] < x[2] \/ x = <<w, k>>}
    BY <2>3 DEF Used
  <2> QED
    BY <1>1, <2>4, <2>5 DEF Used, k
<1>5. Cardinality(Used(i)') = Cardinality(Used(i)) + 1
  BY <1>4, UsedFinite, FS_AddElement
<1>6. \A j \in Ips : j # i => Used(j)' = Used(j) /\ excess'[j] = excess[j]
  BY <1>1, <1>2 DEF Used
<1>7. excess'[i] = excess[i] + 1 /\ excess[i] <= Cardinality(Used(i)) /\ excess[i] \in Nat
  BY <1>1, <1>2 DEF LimiterInv
<1>8. excess'[i] <= Cardinality(Used(i)')
  BY <1>5, <1>7, UsedFinite
<1>9. \A j \in Ips : excess'[j] <= Cardinality(Used(j)')
  BY <1>6, <1>8 DEF LimiterInv
<1> QED
  BY <1>3, <1>9 DEF LimiterInv

\* A period gives each bucket at most one token back (replenish).
LEMMA ReplenishStep == ASSUME LimiterInv, replenish PROVE LimiterInv'
<1>1. /\ level \in [Workers \X Ips -> 0..Capacity] /\ excess \in [Ips -> Nat]
      /\ Capacity \in Nat /\ Cardinality(Workers) \in Nat
  BY CapacityType, BurstAssumption, FS_CardinalityType DEF LimiterInv, LimiterTypeOK
<1>2. /\ level' = [x \in Workers \X Ips |-> IF level[x] < Capacity THEN level[x] + 1 ELSE Capacity]
      /\ excess' = [i \in Ips |-> IF excess[i] > Cardinality(Workers)
                                  THEN excess[i] - Cardinality(Workers) ELSE 0]
  BY DEF replenish
<1>3. LimiterTypeOK'
  BY <1>1, <1>2 DEF LimiterTypeOK
<1>4. ASSUME NEW i \in Ips PROVE excess'[i] <= Cardinality(Used(i)')
  <2> DEFINE R == {x \in Used(i) : x[2] = level[<<x[1], i>>] + 1}
             g == [x \in R |-> x[1]]
  <2>1. IsFiniteSet(R)
    BY UsedFinite, FS_Subset
  <2>2. Cardinality(R) <= Cardinality(Workers)
    <3>1. g \in Injection(R, Workers)
      <4>1. g \in [R -> Workers]
        BY DEF Used
      <4>2. \A x, y \in R : g[x] = g[y] => x = y
        BY DEF Used
      <4> QED
        BY <4>1, <4>2 DEF Injection, IsInjective
    <3> QED
      BY <3>1, BurstAssumption, FS_Injection
  <2>3. Used(i) = Used(i)' \cup R
    <3>1. \A v \in Workers : level[<<v, i>>] \in 0..Capacity
            /\ level'[<<v, i>>] = IF level[<<v, i>>] < Capacity THEN level[<<v, i>>] + 1 ELSE Capacity
      BY <1>1, <1>2
    <3>2. ASSUME NEW x \in Workers \X (1..Capacity)
          PROVE  level[<<x[1], i>>] < x[2]
                   <=> (level'[<<x[1], i>>] < x[2] \/ x[2] = level[<<x[1], i>>] + 1)
      <4>1. x[1] \in Workers /\ x[2] \in 1..Capacity
        OBVIOUS
      <4> QED
        BY <1>1, <3>1, <4>1
    <3> QED
      BY <3>2 DEF Used
  <2>4. IsFiniteSet(Used(i)')
    BY <2>3, UsedFinite, FS_Subset
  <2> HIDE DEF R
  <2>5. Cardinality(Used(i)) <= Cardinality(Used(i)') + Cardinality(R)
    <3>1. Cardinality(Used(i)' \cup R)
            = Cardinality(Used(i)') + Cardinality(R) - Cardinality(Used(i)' \cap R)
      BY <2>1, <2>4, FS_Union
    <3>2. IsFiniteSet(Used(i)' \cap R)
      BY <2>1, FS_Subset
    <3>3. /\ Cardinality(Used(i)' \cap R) \in Nat /\ Cardinality(Used(i)') \in Nat
          /\ Cardinality(R) \in Nat
      BY <2>1, <2>4, <3>2, FS_CardinalityType
    <3> QED
      BY <2>3, <3>1, <3>3
  <2>6. Cardinality(Used(i)') \in Nat /\ Cardinality(R) \in Nat /\ Cardinality(Used(i)) \in Nat
    BY <2>1, <2>4, UsedFinite, FS_CardinalityType
  <2>7. excess[i] \in Nat /\ excess[i] <= Cardinality(Used(i))
    BY <1>1 DEF LimiterInv
  <2>8. excess'[i] = IF excess[i] > Cardinality(Workers) THEN excess[i] - Cardinality(Workers) ELSE 0
    BY <1>2
  <2> QED
    BY <1>1, <2>2, <2>5, <2>6, <2>7, <2>8
<1> QED
  BY <1>3, <1>4 DEF LimiterInv

\* Every step of the gateway keeps the bound of the limiter.
LEMMA LimiterStep == LimiterInv /\ [Next]_vars => LimiterInv'
<1> SUFFICES ASSUME LimiterInv, [Next]_vars PROVE LimiterInv'
  OBVIOUS
<1>1. CASE UNCHANGED limiter
  BY <1>1 DEF limiter, LimiterInv, LimiterTypeOK, Used
<1>2. ASSUME NEW p \in Procs, NEW w \in Workers, NEW i \in Ips, NEW r \in Realms,
             NEW u \in Users, login(p, w, i, r, u)
      PROVE  LimiterInv'
  BY <1>2, CheckKeyStep DEF login
<1>3. ASSUME NEW w \in Workers, NEW i \in Ips, saml_scope(w, i) PROVE LimiterInv'
  BY <1>3, CheckKeyStep DEF saml_scope
<1>4. CASE Tick
  BY <1>4, ReplenishStep DEF Tick
<1>5. ASSUME NEW p \in Procs, Request(p),
             ~\E w \in Workers, i \in Ips, r \in Realms, u \in Users : login(p, w, i, r, u)
      PROVE  UNCHANGED limiter
  BY <1>5 DEF Request, ExtractRealm, issue_token, upsert_session, get_session, get_session_purge,
              get_session_select, get_session_update, certify, abandon, Reads
<1>6. CASE UNCHANGED vars
  BY <1>1, <1>6 DEF vars, limiter
<1> QED
  BY <1>1, <1>2, <1>3, <1>4, <1>5, <1>6
  DEF Next, delete_sessions, delete_sessions_for_realm, delete_expired_sessions, create_realm,
      update_realm, delete_realm, change_realm

\* Over any period of time, the attempts let through from one address exceed the
\* sustained rate by at most a burst for each worker, for any number of workers
\* and any burst (LoginRateLimitMiddleware::call, build_app).
THEOREM AttemptsBoundedAlways == Spec => []AttemptsBounded
<1>1. Init => LimiterInv
  <2> SUFFICES ASSUME Init PROVE LimiterInv
    OBVIOUS
  <2>1. LimiterTypeOK /\ \A i \in Ips : excess[i] = 0
    BY CapacityType DEF Init, LimiterInit, LimiterTypeOK
  <2> QED
    BY <2>1, UsedFinite DEF LimiterInv
<1>2. LimiterInv => AttemptsBounded
  <2> SUFFICES ASSUME LimiterInv, NEW i \in Ips
               PROVE  excess[i] <= Capacity * Cardinality(Workers)
    BY DEF AttemptsBounded
  <2>1. excess[i] \in Nat /\ excess[i] <= Cardinality(Used(i))
    BY DEF LimiterInv, LimiterTypeOK
  <2>2. Cardinality(Workers) \in Nat /\ Capacity \in Nat
    BY BurstAssumption, CapacityType, FS_CardinalityType
  <2> QED
    BY <2>1, <2>2, UsedFinite
<1> QED
  BY <1>1, <1>2, LimiterStep, PTL DEF Spec

-----------------------------------------------------------------------------
(***************************************************************************)
(* Sessions and certificates.  A row outlives its token by exactly the     *)
(* time from issuing the token to storing it; a request that goes on to    *)
(* refresh a row found it unexpired, and one that goes on to certify has a *)
(* well formed body.                                                       *)
(***************************************************************************)
RowSound(row) == AbsoluteExpiry(row) = row.token.exp + (row.created_at - row.token.iat)

Sound(c) ==
  /\ c \in Call
  /\ c.pc \in {"issue", "insert"} => c.row \in RealmRow
  /\ c.pc = "insert" => /\ c.sid \in Sids /\ c.token \in Token
                        /\ c.token.iat = c.at /\ c.token.exp = c.at + c.row.max_age
  /\ c.pc \in {"purge", "refresh", "certify"} => c.row \in SessionRow
  /\ c.pc = "refresh" => RowSound(c.row) /\ ~Expired(c.row, c.at)
  /\ c.pc = "certify" => c.body # None /\ BodyOK(c.body)

GatewayInv ==
  /\ TypeOK
  /\ \A s \in Sids : session[s] # None => RowSound(session[s])
  /\ \A p \in Procs : call[p] # None => Sound(call[p])

\* Which request a call belongs to is told by where it stands.
LEMMA LoginCallType ==
  ASSUME NEW c \in Call, c.pc \in {"realm", "issue", "insert"}
  PROVE  c \in LoginCall
BY DEF Call, LoginCall, SessionCall

\* So for the requests behind a cookie.
LEMMA SessionCallType ==
  ASSUME NEW c \in Call, c.pc \in {"select", "purge", "refresh", "certify"}
  PROVE  c \in SessionCall
BY DEF Call, LoginCall, SessionCall

\* The fields of a row.
LEMMA RowType ==
  ASSUME NEW row \in SessionRow
  PROVE  /\ row.token \in Token /\ row.token.realm \in Realms
         /\ row.token.iat \in Nat /\ row.token.exp \in Nat /\ row.created_at \in Nat
         /\ row.stale_at \in Nat /\ row.max_stale \in Nat /\ AbsoluteExpiry(row) \in Nat
BY DEF SessionRow, Token, AbsoluteExpiry

\* What a request observes is typed.
LEMMA HeldType ==
  ASSUME TypeOK, Observe, call' \in [Procs -> Call \cup {None}]
  PROVE  held' \in [Procs -> Held]
<1> DEFINE D(p) == IF Certifying(call[p]) THEN call[p] ELSE call'[p]
           H(p) == IF call'[p] = None \/ ~Certifying(D(p)) THEN Nothing
                   ELSE [live |-> held[p].live \/ LiveNow(D(p)),
                         rows |-> held[p].rows \cup RealmNow(D(p))]
<1>1. held' = [p \in Procs |-> H(p)]
  BY DEF Observe
<1>2. ASSUME NEW p \in Procs PROVE H(p) \in Held
  <2>1. Nothing \in Held
    BY DEF Nothing, Held
  <2>2. ASSUME Certifying(D(p))
        PROVE  [live |-> held[p].live \/ LiveNow(D(p)),
                rows |-> held[p].rows \cup RealmNow(D(p))] \in Held
    <3>1. D(p) \in Call
      BY <2>2 DEF TypeOK, Certifying
    <3> HIDE DEF D
    <3>2. D(p).row \in SessionRow \cup {None}
      BY <2>2, <3>1, SessionCallType DEF Certifying, SessionCall
    <3>3. RealmNow(D(p)) \subseteq RealmRow
      BY <3>2, RowType DEF TypeOK, RealmNow
    <3>4. held[p].rows \subseteq RealmRow
      BY DEF TypeOK, Held
    <3>5. (held[p].live \/ LiveNow(D(p))) \in BOOLEAN
      OBVIOUS
    <3>6. held[p].rows \cup RealmNow(D(p)) \in SUBSET RealmRow
      BY <3>3, <3>4
    <3> QED
      BY <3>5, <3>6 DEF Held
  <2> HIDE DEF D
  <2> QED
    BY <2>1, <2>2
<1> HIDE DEF H
<1> QED
  BY <1>1, <1>2

\* What a step leaves to show once the requests and the tables are accounted for.
LEMMA StepKeeps ==
  ASSUME GatewayInv, LimiterTypeOK', Observe,
         now' \in Nat, realm' \in [Realms -> RealmRow \cup {None}],
         session' \in [Sids -> SessionRow \cup {None}],
         \A s \in Sids : session'[s] # None => RowSound(session'[s]),
         drawn' \subseteq Sids, cert' \in Certificate \cup {None}, changes' \in Nat,
         call' \in [Procs -> Call \cup {None}],
         \A p \in Procs : call'[p] # None => Sound(call'[p])
  PROVE  GatewayInv'
<1>1. held' \in [Procs -> Held]
  BY HeldType DEF GatewayInv
<1>2. TypeOK'
  BY <1>1 DEF TypeOK
<1> QED
  BY <1>2 DEF GatewayInv, RowSound, AbsoluteExpiry, Sound, Expired, BodyOK

\* A request that goes on, or ends.
LEMMA ContinueType ==
  ASSUME GatewayInv, NEW p \in Procs, NEW c, c = None \/ Sound(c), Continue(p, c)
  PROVE  /\ call' \in [Procs -> Call \cup {None}]
         /\ \A q \in Procs : call'[q] # None => Sound(call'[q])
<1>1. call \in [Procs -> Call \cup {None}] /\ c \in Call \cup {None}
  BY DEF GatewayInv, TypeOK, Sound
<1>2. /\ call' \in [Procs -> Call \cup {None}]
      /\ \A q \in Procs : call'[q] = IF q = p THEN c ELSE call[q]
  BY <1>1 DEF Continue
<1> QED
  BY <1>2 DEF GatewayInv

\* Deleting sessions leaves the rows of the others.
LEMMA WithoutSound ==
  ASSUME GatewayInv, NEW S, session' = Without(S)
  PROVE  /\ session' \in [Sids -> SessionRow \cup {None}]
         /\ \A s \in Sids : session'[s] # None => RowSound(session'[s])
BY DEF GatewayInv, TypeOK, Without

\* Every statement of every request keeps the invariant.
LEMMA RequestStep ==
  ASSUME GatewayInv, NEW p \in Procs, Request(p), Observe
  PROVE  GatewayInv'
<1> TypeOK /\ (call[p] # None => Sound(call[p]) /\ call[p] \in Call) /\ now \in Nat
  BY DEF GatewayInv, TypeOK, Sound
<1> LimiterTypeOK
  BY DEF TypeOK
<1> DEFINE Rows == /\ session' \in [Sids -> SessionRow \cup {None}]
                   /\ \A s \in Sids : session'[s] # None => RowSound(session'[s])
           Calls == /\ call' \in [Procs -> Call \cup {None}]
                    /\ \A q \in Procs : call'[q] # None => Sound(call'[q])
           Rest == /\ cert' = None /\ UNCHANGED <<now, realm, changes>>
<1>1. ASSUME UNCHANGED session PROVE Rows
  BY <1>1 DEF GatewayInv, TypeOK
<1>2. ASSUME Calls, Rows, Rest, drawn' \subseteq Sids, LimiterTypeOK' PROVE GatewayInv'
  <2>1. now' \in Nat /\ realm' \in [Realms -> RealmRow \cup {None}] /\ changes' \in Nat
        /\ cert' \in Certificate \cup {None}
    BY <1>2 DEF TypeOK
  <2> QED
    BY <1>2, <2>1, StepKeeps
<1>3. ASSUME UNCHANGED limiter PROVE LimiterTypeOK'
  BY <1>3 DEF limiter, LimiterTypeOK
<1>4. ASSUME NEW c, c = None \/ Sound(c), Continue(p, c), Reads PROVE GatewayInv'
  <2>1. Calls
    BY <1>4, ContinueType
  <2>2. Rest /\ drawn' \subseteq Sids /\ UNCHANGED <<session, limiter>>
    BY <1>4 DEF Reads, TypeOK
  <2> QED
    BY <1>1, <1>2, <1>3, <2>1, <2>2
<1>5. ASSUME NEW w \in Workers, NEW i \in Ips, NEW r \in Realms, NEW u \in Users,
             login(p, w, i, r, u)
      PROVE  GatewayInv'
  <2> DEFINE c == [pc |-> "realm", realm |-> r, user |-> u, row |-> None, sid |-> None,
                   token |-> None, at |-> now]
  <2>1. c \in LoginCall /\ c.pc = "realm"
    BY DEF LoginCall
  <2>2. Sound(c)
    BY <2>1 DEF Sound, Call
  <2>3. Calls
    <3> HIDE DEF c
    <3> QED
      BY <1>5, <2>2, ContinueType DEF login, c
  <2>4. LimiterTypeOK'
    BY <1>5, CapacityType DEF login, check_key, LimiterTypeOK
  <2> QED
    BY <1>1, <1>2, <1>5, <2>3, <2>4 DEF login, TypeOK
<1>6. CASE ExtractRealm(p)
  <2> DEFINE row == get_realm(call[p].realm)
             c == [call[p] EXCEPT !.pc = "issue", !.row = row]
  <2>1. call[p] \in LoginCall
    BY <1>6, LoginCallType DEF ExtractRealm
  <2>2. row \in RealmRow
    BY <1>6, <2>1 DEF ExtractRealm, LoginCall, TypeOK, get_realm
  <2> HIDE DEF row
  <2>3. c \in LoginCall /\ c.pc = "issue" /\ c.row = row
    BY <2>1, <2>2 DEF LoginCall
  <2>4. Sound(c)
    BY <2>2, <2>3 DEF Sound, Call
  <2> QED
    BY <1>4, <1>6, <2>4 DEF ExtractRealm, row
<1>7. ASSUME NEW extra \in Extras, issue_token(p, extra)
      PROVE  GatewayInv'
  <2> DEFINE token == [realm |-> call[p].realm, user |-> call[p].user, extra |-> extra,
                       iat |-> now, exp |-> now + call[p].row.max_age]
             c(s) == [call[p] EXCEPT !.pc = "insert", !.sid = s, !.token = token, !.at = now]
  <2>1. PICK s \in NewSids : drawn' = drawn \cup {s} /\ Continue(p, c(s))
    BY <1>7 DEF issue_token
  <2>2. call[p] \in LoginCall /\ call[p].row \in RealmRow /\ s \in Sids
    BY <1>7, LoginCallType DEF issue_token, Sound, NewSids
  <2>3. token \in Token /\ token.iat = now /\ token.exp = now + call[p].row.max_age
    BY <2>2, GatewayDataAssumption DEF Token, LoginCall, RealmRow
  <2> HIDE DEF token
  <2>4. c(s) \in LoginCall
    BY <2>2, <2>3 DEF LoginCall
  <2>5. /\ c(s).pc = "insert" /\ c(s).sid = s /\ c(s).token = token /\ c(s).at = now
        /\ c(s).row = call[p].row
    BY <2>2 DEF LoginCall
  <2> HIDE DEF c
  <2>6. Sound(c(s))
    BY <2>2, <2>3, <2>4, <2>5 DEF Sound, Call
  <2>7. Calls
    BY <2>1, <2>6, ContinueType
  <2>8. Rest /\ drawn' \subseteq Sids /\ UNCHANGED <<session, limiter>>
    BY <1>7, <2>1, <2>2 DEF issue_token, TypeOK
  <2> QED
    BY <1>1, <1>2, <1>3, <2>7, <2>8
<1>8. CASE upsert_session(p)
  <2> DEFINE c == call[p]
  <2>1. /\ c \in LoginCall /\ c.row \in RealmRow /\ c.sid \in Sids /\ c.token \in Token
        /\ c.token.iat = c.at /\ c.token.exp = c.at + c.row.max_age
    BY <1>8, LoginCallType DEF upsert_session, Sound
  <2>2. c.row.max_age \in Nat /\ c.row.stale_age \in Nat /\ c.at \in Nat
    BY <2>1 DEF LoginCall, RealmRow
  <2>9. PICK t \in c.at..now : session' = [session EXCEPT ![c.sid] = RowFor(c, t)]
    BY <1>8 DEF upsert_session
  <2> DEFINE row == RowFor(c, t)
  <2> HIDE DEF c
  <2>3. row \in SessionRow
    BY <2>1, <2>2, <2>9 DEF RowFor, SessionRow
  <2>4. RowSound(row)
    BY <2>1, <2>2, <2>9 DEF RowFor, RowSound, AbsoluteExpiry
  <2>5. session' = [session EXCEPT ![c.sid] = row]
    BY <2>9
  <2> HIDE DEF row
  <2>6. Rows
    BY <2>1, <2>3, <2>4, <2>5 DEF GatewayInv, TypeOK
  <2>7. Calls
    BY <1>8, ContinueType DEF upsert_session
  <2>8. Rest /\ drawn' \subseteq Sids /\ UNCHANGED limiter
    BY <1>8 DEF upsert_session, TypeOK
  <2> QED
    BY <1>2, <1>3, <2>6, <2>7, <2>8
<1>9. ASSUME NEW s \in Sids, get_session(p, s)
      PROVE  GatewayInv'
  <2> DEFINE c == [pc |-> "select", sid |-> s, row |-> None, body |-> None, at |-> now]
  <2>1. c \in SessionCall /\ c.pc = "select"
    BY DEF SessionCall
  <2>2. Sound(c)
    BY <2>1 DEF Sound, Call
  <2> QED
    BY <1>4, <1>9, <2>2 DEF get_session
<1>14. CASE get_session_select(p)
  <2> DEFINE c == call[p]
             row == session[c.sid]
             d == [c EXCEPT !.pc = SelectedFor(row, c.at), !.row = row]
  <2>1. c \in SessionCall
    BY <1>14, SessionCallType DEF get_session_select
  <2>2. c.sid \in Sids /\ c.at \in Nat
    BY <2>1 DEF SessionCall
  <2>3. Reads /\ Continue(p, IF row = None THEN None ELSE d)
    BY <1>14 DEF get_session_select
  <2> HIDE DEF c
  <2>4. row # None => row \in SessionRow /\ RowSound(row)
    BY <2>2 DEF GatewayInv, TypeOK
  <2>5. /\ SelectedFor(row, c.at) \in {"purge", "refresh"}
        /\ SelectedFor(row, c.at) = "refresh" => ~Expired(row, c.at)
    BY DEF SelectedFor
  <2> HIDE DEF row
  <2>6. ASSUME row # None PROVE Sound(d)
    <3>1. d \in SessionCall /\ d.pc = SelectedFor(row, c.at) /\ d.row = row /\ d.at = c.at
      BY <2>1, <2>4, <2>5, <2>6 DEF SessionCall
    <3> HIDE DEF d
    <3> QED
      BY <2>4, <2>5, <2>6, <3>1 DEF Sound, Call
  <2> HIDE DEF d
  <2> QED
    BY <1>4, <2>3, <2>6
<1>10. CASE get_session_purge(p)
  <2>1. session' = [session EXCEPT ![call[p].sid] = None]
    BY <1>10 DEF get_session_purge
  <2>2. Rows
    BY <2>1 DEF GatewayInv, TypeOK
  <2>3. Calls
    BY <1>10, ContinueType DEF get_session_purge
  <2>4. Rest /\ drawn' \subseteq Sids /\ UNCHANGED limiter
    BY <1>10 DEF get_session_purge, TypeOK
  <2> QED
    BY <1>2, <1>3, <2>2, <2>3, <2>4
<1>11. ASSUME NEW body \in Bodies \cup {None}, get_session_update(p, body) PROVE GatewayInv'
  <2> DEFINE c == call[p]
             t == c.at + Min2(c.row.max_stale, AbsoluteExpiry(c.row) - c.at)
             d == [c EXCEPT !.pc = "certify", !.body = body]
  <2>1. c \in SessionCall /\ c # None /\ c.row \in SessionRow
    BY <1>11, SessionCallType DEF get_session_update, Sound
  <2>2. c.sid \in Sids /\ c.row \in SessionRow /\ c.at \in Nat
    BY <2>1 DEF SessionCall
  <2>3. t \in Nat
    <3> HIDE DEF c
    <3> QED
      BY <2>2, RowType DEF Min2
  <2>4. d \in SessionCall /\ d.pc = "certify" /\ d.body = body /\ d.row \in SessionRow
    <3> HIDE DEF c
    <3> QED
      BY <1>11, <2>1, GatewayDataAssumption DEF SessionCall
  <2>5. /\ session' = session \/ (session[c.sid] # None /\ session' = [session EXCEPT ![c.sid].stale_at = t])
        /\ Continue(p, None) \/ (body # None /\ BodyOK(body) /\ Continue(p, d))
    BY <1>11 DEF get_session_update
  <2> HIDE DEF c, t, d
  <2>6. body # None /\ BodyOK(body) => Sound(d)
    BY <2>4 DEF Sound, Call
  <2>7. Calls
    BY <2>5, <2>6, ContinueType
  <2>8. ASSUME session[c.sid] # None, session' = [session EXCEPT ![c.sid].stale_at = t] PROVE Rows
    <3>1. session[c.sid] \in SessionRow /\ RowSound(session[c.sid])
      BY <2>2, <2>8 DEF GatewayInv, TypeOK
    <3> DEFINE row == [session[c.sid] EXCEPT !.stale_at = t]
    <3>2. row \in SessionRow
      BY <2>3, <3>1 DEF SessionRow
    <3>3. RowSound(row)
      <4>1. /\ row.token = session[c.sid].token /\ row.created_at = session[c.sid].created_at
            /\ row.max_age = session[c.sid].max_age
        BY <3>1 DEF SessionRow
      <4> QED
        BY <3>1, <4>1 DEF RowSound, AbsoluteExpiry
    <3>4. session' = [session EXCEPT ![c.sid] = row]
      BY <2>8
    <3> HIDE DEF row
    <3> QED
      BY <2>2, <3>2, <3>3, <3>4 DEF GatewayInv, TypeOK
  <2>9. Rest /\ drawn' \subseteq Sids /\ UNCHANGED limiter
    BY <1>11 DEF get_session_update, TypeOK
  <2> QED
    BY <1>1, <1>2, <1>3, <2>5, <2>7, <2>8, <2>9
<1>12. CASE certify(p)
  <2> DEFINE c == call[p]
             r == get_realm(c.row.token.realm)
             extra == c.body.claims \cap c.row.token.extra
             sub == IF c.body.exclude_sub THEN None ELSE c.row.token.user
  <2>1. c \in SessionCall /\ c.row \in SessionRow /\ c.body # None /\ BodyOK(c.body)
    BY <1>12, SessionCallType DEF certify, Sound
  <2>2. /\ c.body \in CertifyRequest /\ c.row \in SessionRow
        /\ c.row.token \in Token /\ c.row.token.realm \in Realms
    BY <2>1, RowType DEF SessionCall
  <2>3. r \in RealmRow \cup {None}
    BY <2>2 DEF TypeOK, get_realm
  <2>4. extra \in SUBSET (ClaimNames \ Reserved)
    BY <2>1, <2>2 DEF CertifyRequest, Token, BodyOK, reject_reserved_claim_names
  <2>5. c.row.token.user \in Users /\ sub \in Users \cup {None}
    BY <2>2 DEF Token
  <2>6. ASSUME r # None, ~(c.body.exclude_sub /\ extra = {})
        PROVE  [realm |-> c.row.token.realm, sub |-> sub, extra |-> extra,
                iat |-> now, exp |-> now + r.cert_age] \in Certificate
    <3>1. sub # None \/ extra # {}
      BY <2>5, <2>6, GatewayDataAssumption
    <3>2. r.cert_age \in Nat
      BY <2>3, <2>6 DEF RealmRow
    <3> HIDE DEF c, r, extra, sub
    <3> QED
      BY <2>2, <2>4, <2>5, <3>1, <3>2 DEF Certificate
  <2>7. cert' = IF r = None \/ (c.body.exclude_sub /\ extra = {}) THEN None
                ELSE [realm |-> c.row.token.realm, sub |-> sub, extra |-> extra,
                      iat |-> now, exp |-> now + r.cert_age]
    BY <1>12 DEF certify, Certified
  <2>8. cert' \in Certificate \cup {None}
    <3> HIDE DEF c, r, extra, sub
    <3> QED
      BY <2>6, <2>7
  <2>9. Calls
    BY <1>12, ContinueType DEF certify
  <2>10. UNCHANGED <<limiter, now, realm, session, drawn, changes>>
    BY <1>12 DEF certify
  <2> QED
    BY <1>1, <1>3, <2>8, <2>9, <2>10, StepKeeps DEF TypeOK
<1>13. CASE abandon(p)
  BY <1>4, <1>13 DEF abandon
<1> QED
  BY <1>5, <1>6, <1>7, <1>8, <1>9, <1>10, <1>11, <1>12, <1>13, <1>14 DEF Request

\* Every step keeps the invariant: the tables are also changed by logouts, the
\* collector and the administrators while requests are between two statements.
LEMMA GatewayStep == GatewayInv /\ [Next]_vars => GatewayInv'
<1> SUFFICES ASSUME GatewayInv, [Next]_vars PROVE GatewayInv'
  OBVIOUS
<1>1. CASE UNCHANGED vars
  BY <1>1 DEF vars, GatewayInv, TypeOK, LimiterTypeOK, RowSound, AbsoluteExpiry, Sound, Expired, BodyOK
<1>2. ASSUME NEW p \in Procs, Request(p), Observe PROVE GatewayInv'
  BY <1>2, RequestStep
<1>3. ASSUME Observe, LimiterTypeOK', now' \in Nat, changes' \in Nat,
             realm' \in [Realms -> RealmRow \cup {None}],
             session' = session \/ \E S : session' = Without(S),
             cert' = None, UNCHANGED <<drawn, call>>
      PROVE  GatewayInv'
  <2>1. /\ session' \in [Sids -> SessionRow \cup {None}]
        /\ \A s \in Sids : session'[s] # None => RowSound(session'[s])
    BY <1>3, WithoutSound DEF GatewayInv, TypeOK
  <2>2. /\ call' \in [Procs -> Call \cup {None}]
        /\ \A p \in Procs : call'[p] # None => Sound(call'[p])
    BY <1>3 DEF GatewayInv, TypeOK
  <2>3. drawn' \subseteq Sids /\ cert' \in Certificate \cup {None}
    BY <1>3 DEF GatewayInv, TypeOK
  <2> QED
    BY <1>3, <2>1, <2>2, <2>3, StepKeeps
<1>4. /\ now \in Nat /\ changes \in Nat /\ realm \in [Realms -> RealmRow \cup {None}]
      /\ LimiterTypeOK /\ (UNCHANGED limiter => LimiterTypeOK')
  BY DEF GatewayInv, TypeOK, limiter, LimiterTypeOK
<1>5. ASSUME NEW w \in Workers, NEW i \in Ips, saml_scope(w, i), Observe PROVE GatewayInv'
  <2>1. LimiterTypeOK'
    BY <1>4, <1>5, CapacityType DEF saml_scope, check_key, LimiterTypeOK
  <2> QED
    BY <1>3, <1>4, <1>5, <2>1 DEF saml_scope
<1>6. ASSUME Observe, \/ \E sids \in SUBSET Sids : delete_sessions(sids)
                      \/ \E r \in Realms : delete_sessions_for_realm(r)
      PROVE  GatewayInv'
  BY <1>3, <1>4, <1>6 DEF delete_sessions, delete_sessions_for_realm
<1>7. ASSUME delete_expired_sessions, Observe PROVE GatewayInv'
  BY <1>3, <1>4, <1>7 DEF delete_expired_sessions
<1>8. ASSUME NEW r \in Realms, NEW row \in RealmRow \cup {None}, change_realm(r, row), Observe
      PROVE  GatewayInv'
  <2>1. realm' \in [Realms -> RealmRow \cup {None}] /\ changes' \in Nat
    BY <1>4, <1>8 DEF change_realm
  <2> QED
    BY <1>3, <1>4, <1>8, <2>1 DEF change_realm
<1>9. ASSUME Tick, Observe PROVE GatewayInv'
  <2>1. LimiterTypeOK'
    <3>1. Cardinality(Workers) \in Nat
      BY BurstAssumption, FS_CardinalityType
    <3> QED
      BY <1>4, <1>9, <3>1, CapacityType DEF Tick, replenish, LimiterTypeOK
  <2> QED
    BY <1>3, <1>4, <1>9, <2>1 DEF Tick
<1> QED
  BY <1>1, <1>2, <1>5, <1>6, <1>7, <1>8, <1>9, GatewayDataAssumption
  DEF Next, create_realm, update_realm, delete_realm

\* The server starts in states that satisfy the invariant.
LEMMA GatewayInit == Init => GatewayInv
<1> SUFFICES ASSUME Init PROVE GatewayInv
  OBVIOUS
<1>1. LimiterTypeOK
  BY CapacityType DEF Init, LimiterInit, LimiterTypeOK
<1>2. Nothing \in Held
  BY DEF Nothing, Held
<1>3. realm \in [Realms -> RealmRow \cup {None}]
  BY GatewayDataAssumption DEF Init
<1>4. TypeOK
  BY <1>1, <1>2, <1>3 DEF Init, TypeOK
<1> QED
  BY <1>4 DEF Init, GatewayInv

\* The types hold; among them, a certificate names its holder or one of the
\* claims at least, and no reserved claim (certify).
THEOREM GatewayTypeCorrect == Spec => []TypeOK
<1>1. GatewayInv => TypeOK
  BY DEF GatewayInv
<1> QED
  BY <1>1, GatewayInit, GatewayStep, PTL DEF Spec

\* A row that get_session serves is refused only if the time from issuing its
\* token to storing it and the time from looking it up to validating it exceed
\* the leeway together, for all ages and all their changes.
THEOREM RefusedOnlyIfSlowAlways == Spec => []RefusedOnlyIfSlow
<1>1. GatewayInv => RefusedOnlyIfSlow
  <2> SUFFICES ASSUME GatewayInv, NEW p \in Procs, call[p] # None, call[p].pc = "refresh",
                      (call[p].row.created_at - call[p].row.token.iat) + (now - call[p].at) <= Leeway
               PROVE  call[p].row.token.exp >= now - Leeway
    <3>1. ASSUME GatewayInv, NEW p \in Procs, call[p] # None, call[p].pc = "refresh"
          PROVE  /\ now \in Nat /\ call[p].at \in Nat /\ call[p].row.created_at \in Nat
                 /\ call[p].row.token.iat \in Nat
      <4>1. call[p] \in SessionCall /\ call[p].row \in SessionRow
        BY <3>1, SessionCallType DEF GatewayInv, Sound
      <4> QED
        BY <3>1, <4>1, RowType DEF GatewayInv, TypeOK, SessionCall
    <3> QED
      BY <3>1, GatewayBoundAssumption DEF RefusedOnlyIfSlow, validate_token
  <2> DEFINE c == call[p]
             row == c.row
  <2>1. c \in SessionCall /\ row \in SessionRow /\ RowSound(row) /\ ~Expired(row, c.at)
    BY SessionCallType DEF GatewayInv, Sound
  <2>2. c.at \in Nat /\ now \in Nat
    BY <2>1 DEF SessionCall, GatewayInv, TypeOK
  <2> HIDE DEF c
  <2>3. /\ row.token.exp \in Nat /\ row.token.iat \in Nat /\ row.created_at \in Nat
        /\ row.stale_at \in Nat /\ AbsoluteExpiry(row) \in Nat
    BY <2>1, RowType
  <2>4. c.at <= AbsoluteExpiry(row) /\ AbsoluteExpiry(row) = row.token.exp + (row.created_at - row.token.iat)
    BY <2>1, <2>2, <2>3 DEF Expired, RowSound
  <2>5. (row.created_at - row.token.iat) + (now - c.at) <= Leeway
    BY DEF c
  <2>6. row.token.exp >= now - Leeway
    BY <2>2, <2>3, <2>4, <2>5, GatewayBoundAssumption
  <2> QED
    BY <2>6 DEF c
<1> QED
  BY <1>1, GatewayInit, GatewayStep, PTL DEF Spec

-----------------------------------------------------------------------------
(***************************************************************************)
(* Certificates.  A request that was told to refresh its session has seen  *)
(* it live, and keeps that when the row goes while it is under way.        *)
(***************************************************************************)
Served(c) == c # None /\ c.pc \in {"refresh", "certify"}

LiveInv ==
  /\ GatewayInv
  /\ \A p \in Procs : Served(call[p]) => held[p].live

\* How a step can bring a request to the point where its session is served: it
\* was there already, or get_session now finds the row unexpired.
LEMMA ServedStep ==
  ASSUME GatewayInv, Next, NEW p \in Procs, Served(call[p])'
  PROVE  Served(call[p]) \/ (Certifying(call[p]) /\ LiveNow(call[p]))
<1> call \in [Procs -> Call \cup {None}]
  BY DEF GatewayInv, TypeOK
<1>1. CASE call'[p] = call[p]
  BY <1>1 DEF Served
<1>2. ASSUME NEW q \in Procs, NEW c, Continue(q, c), call'[p] # call[p] PROVE q = p /\ call'[p] = c
  BY <1>2 DEF Continue
<1>3. ASSUME NEW q \in Procs, Request(q), call'[p] # call[p]
      PROVE  Served(call[p]) \/ (Certifying(call[p]) /\ LiveNow(call[p]))
  <2>1. ASSUME NEW w \in Workers, NEW i \in Ips, NEW r \in Realms, NEW u \in Users,
               login(q, w, i, r, u)
        PROVE  FALSE
    <3>1. call'[p].pc = "realm"
      BY <1>2, <1>3, <2>1 DEF login
    <3> QED
      BY <3>1 DEF Served
  <2>2. CASE ExtractRealm(q)
    <3>1. call[q] \in LoginCall
      BY <2>2, LoginCallType DEF ExtractRealm
    <3>2. call'[p] = [call[q] EXCEPT !.pc = "issue", !.row = get_realm(call[q].realm)]
      BY <1>2, <1>3, <2>2 DEF ExtractRealm
    <3>3. call'[p].pc = "issue"
      BY <3>1, <3>2 DEF LoginCall
    <3> QED
      BY <3>3 DEF Served
  <2>3. ASSUME NEW extra \in Extras, issue_token(q, extra) PROVE FALSE
    <3>1. call[q] \in LoginCall
      BY <2>3, LoginCallType DEF issue_token
    <3>2. PICK s, token : call'[p] = [call[q] EXCEPT !.pc = "insert", !.sid = s, !.token = token,
                                                     !.at = now]
      BY <1>2, <1>3, <2>3 DEF issue_token
    <3>3. call'[p].pc = "insert"
      BY <3>1, <3>2 DEF LoginCall
    <3> QED
      BY <3>3 DEF Served
  <2>4. ASSUME Continue(q, None) PROVE FALSE
    BY <1>2, <1>3, <2>4 DEF Served
  <2>5. ASSUME NEW s \in Sids, get_session(q, s) PROVE FALSE
    <3>1. call'[p].pc = "select"
      BY <1>2, <1>3, <2>5 DEF get_session
    <3> QED
      BY <3>1 DEF Served
  <2>6. CASE get_session_select(q)
    <3> DEFINE row == session[call[q].sid]
               d == [call[q] EXCEPT !.pc = SelectedFor(row, call[q].at), !.row = row]
    <3>1. call[q] \in SessionCall /\ call[q] # None /\ call[q].pc = "select"
      BY <2>6, SessionCallType DEF get_session_select
    <3>2. q = p /\ call'[p] = IF row = None THEN None ELSE d
      BY <1>2, <1>3, <2>6 DEF get_session_select
    <3>3. row # None /\ d.pc \in {"refresh", "certify"}
      BY <3>2 DEF Served
    <3>4. d.pc = SelectedFor(row, call[q].at)
      BY <3>1 DEF SessionCall
    <3> QED
      BY <3>1, <3>2, <3>3, <3>4 DEF SelectedFor, LiveNow, Certifying
  <2>7. ASSUME NEW body \in Bodies \cup {None}, get_session_update(q, body) PROVE Served(call[p])
    <3>1. Served(call[q])
      BY <2>7 DEF get_session_update, Served
    <3>2. \E c : Continue(q, c)
      BY <2>7 DEF get_session_update
    <3> QED
      BY <1>2, <1>3, <3>1, <3>2
  <2> QED
    BY <1>3, <2>1, <2>2, <2>3, <2>4, <2>5, <2>6, <2>7
    DEF Request, upsert_session, get_session_purge, certify, abandon
<1> QED
  BY <1>1, <1>3
  DEF Next, saml_scope, delete_sessions, delete_sessions_for_realm, delete_expired_sessions,
      create_realm, update_realm, delete_realm, change_realm, Tick

\* What a request has seen stays with it.
LEMMA LiveStep == LiveInv /\ [Next]_vars => LiveInv'
<1> SUFFICES ASSUME LiveInv, [Next]_vars PROVE LiveInv'
  OBVIOUS
<1>1. GatewayInv'
  BY GatewayStep DEF LiveInv
<1>2. CASE UNCHANGED vars
  BY <1>1, <1>2 DEF vars, LiveInv, Served
<1>3. CASE Next
  <2> SUFFICES ASSUME NEW p \in Procs, Served(call[p])' PROVE held'[p].live
    BY <1>1 DEF LiveInv
  <2> DEFINE c == IF Certifying(call[p]) THEN call[p] ELSE call'[p]
  <2>1. held'[p] = IF call'[p] = None \/ ~Certifying(c) THEN Nothing
                   ELSE [live |-> held[p].live \/ LiveNow(c), rows |-> held[p].rows \cup RealmNow(c)]
    BY <1>3 DEF Next, Observe
  <2>2. call'[p] # None /\ Certifying(c)
    BY DEF Served, Certifying
  <2>3. held[p].live \/ LiveNow(c)
    BY <1>3, ServedStep DEF LiveInv
  <2> HIDE DEF c
  <2>4. held'[p].live = (held[p].live \/ LiveNow(c))
    BY <2>1, <2>2
  <2> QED
    BY <2>3, <2>4
<1> QED
  BY <1>2, <1>3

\* A certificate is only issued for a session that was stored at some moment of
\* the request and had not expired when it came in, with a lifetime its realm had
\* during it.
THEOREM CertifiedWhileLiveAlways == Spec => CertifiedWhileLive
<1> DEFINE Issued(p) == cert' # None /\ call[p] # None /\ call'[p] = None /\ Certifying(call[p])
           Rows(p) == held[p].rows \cup ({realm[cert'.realm]} \ {None})
           Good == \A p \in Procs : Issued(p) =>
                     /\ held[p].live
                     /\ \E r \in Rows(p) : cert'.exp = cert'.iat + r.cert_age
<1>1. LiveInv /\ Next => Good
  <2> SUFFICES ASSUME LiveInv, Next, NEW p \in Procs, Issued(p)
               PROVE  held[p].live /\ \E r \in Rows(p) : cert'.exp = cert'.iat + r.cert_age
    OBVIOUS
  <2>1. PICK q \in Procs : certify(q)
    <3>1. PICK q \in Procs : Request(q)
      BY DEF Next, saml_scope, delete_sessions, delete_sessions_for_realm, delete_expired_sessions,
             create_realm, update_realm, delete_realm, change_realm, Tick
    <3> QED
      BY <3>1 DEF Request, login, ExtractRealm, issue_token, upsert_session, get_session,
                  get_session_select, get_session_purge, get_session_update, abandon, Reads
  <2>2. q = p
    BY <2>1 DEF certify, Continue, LiveInv, GatewayInv, TypeOK
  <2>3. held[p].live
    BY <2>1, <2>2 DEF certify, LiveInv, Served
  <2> DEFINE r == realm[call[p].row.token.realm]
  <2>4. cert' = Certified(call[p], r)
    BY <2>1, <2>2 DEF certify, get_realm
  <2>5. r # None /\ cert'.realm = call[p].row.token.realm
    BY <2>4 DEF Certified
  <2>6. cert'.exp = cert'.iat + r.cert_age
    BY <2>4 DEF Certified
  <2> QED
    BY <2>3, <2>5, <2>6
<1>2. LiveInv /\ [Next]_vars => [Good]_vars
  BY <1>1
<1> HIDE DEF Good
<1>3. Init => LiveInv
  BY GatewayInit DEF Init, LiveInv, Served
<1>4. Spec => [][Good]_vars
  BY <1>2, <1>3, LiveStep, PTL DEF Spec
<1> QED
  BY <1>4 DEF CertifiedWhileLive, Good
=============================================================================
