---------------------------- MODULE AppAuthProofs ----------------------------
(***************************************************************************)
(* The two auth methods that issue app tokens, for every number of roles,  *)
(* secret ids, keys, tokens and concurrent requests.                       *)
(*                                                                         *)
(* AppRole: a secret id is accepted no more often than it was created for, *)
(* revoked and expired tokens stay dead, no two roles share a role_id, and *)
(* the tables stay consistent.  Kubernetes: a token is issued on the terms *)
(* of one version of the role and for a key served during the login.       *)
(*                                                                         *)
(* Each method has its own specification, Spec and K8sSpec, over its own   *)
(* tables and the common clock.                                            *)
(***************************************************************************)
EXTENDS AppAuth, K8sAuth, TLAPS

\* What a handler holds at each point of its program.
CallOK(c) ==
  /\ c.pc = "create_role" => c.name \in Names /\ c.role \in Role
  /\ c.pc = "insert_secret" =>
       c.sid \in SecretIds /\ c.row \in Secret /\ c.row.uses # 0
  /\ c.pc = "consume" =>
       c.name \in Names /\ c.sid \in SecretIds /\ c.role \in Role
  /\ c.pc = "issue" => c.role \in Role
  /\ c.pc \in {"renew", "revoke"} => c.token \in Tokens

TypeInv == TypeOK /\ \A p \in Procs : CallOK(call[p])

\* Clock readings are natural numbers at most Lag behind the clock.
LEMMA AppReading ==
  ASSUME now \in Nat, NEW t \in Readings
  PROVE  t \in Nat /\ t <= now /\ now - Lag <= t
BY AppClockAssumption DEF Readings

\* A finished request holds nothing.
LEMMA AppIdle == Idle \in Call /\ CallOK(Idle)
BY DEF Idle, Holding, Call, CallOK

\* The terms of a role that was read are well typed.
LEMMA ExpiryType ==
  ASSUME NEW t \in Nat, NEW ttl \in Nat
  PROVE  /\ ExpiryAt(t, ttl) \in Nat
         /\ ExpiryAt(t, ttl) = 0 <=> ttl = 0
BY DEF ExpiryAt

\* The calls in flight stay well formed when one of them moves on.
LEMMA ContinueOK ==
  ASSUME TypeInv, NEW p \in Procs, NEW c \in Call, CallOK(c), Continue(p, c)
  PROVE  call' \in [Procs -> Call] /\ \A q \in Procs : CallOK(call'[q])
BY DEF TypeInv, TypeOK, Continue

\* A call that is over leaves the calls well typed.
LEMMA FinishOK ==
  ASSUME TypeInv, NEW p \in Procs, Finish(p)
  PROVE  call' \in [Procs -> Call] /\ \A q \in Procs : CallOK(call'[q])
BY AppIdle, ContinueOK DEF Finish

-----------------------------------------------------------------------------
\* Every step of every handler keeps the tables and the calls in flight well
\* typed (all operations of approle.rs and auth_token.rs).
THEOREM AppTypeCorrect == Spec => []TypeInv
<1>1. Init => TypeInv
  BY AppIdle DEF Init, TypeInv, TypeOK
<1>2. TypeInv /\ [Next]_vars => TypeInv'
  <2> SUFFICES ASSUME TypeInv, [Next]_vars PROVE TypeInv'
    OBVIOUS
  <2> TypeOK /\ \A p \in Procs : CallOK(call[p])
    BY DEF TypeInv
  <2>1. ASSUME NEW p \in Procs, NEW n \in Names, NEW st \in SecretTtls,
               NEW tt \in TokenTtls, NEW b \in BOOLEAN,
               approle_create_role(p, n, st, tt, b)
        PROVE  TypeInv'
    <3>1. PICK id \in RoleIds :
            /\ drawn' = drawn \/ drawn' = drawn \cup {id}
            /\ Continue(p, Holding("create_role", n,
                             [role_id |-> id, secret_id_ttl |-> st,
                              token_ttl |-> tt, bind_secret_id |-> b],
                             None, None, None))
      BY <2>1 DEF approle_create_role
    <3> DEFINE r == [role_id |-> id, secret_id_ttl |-> st, token_ttl |-> tt,
                     bind_secret_id |-> b]
    <3>2. r \in Role
      BY DEF Role
    <3> HIDE DEF r
    <3>3. /\ Holding("create_role", n, r, None, None, None) \in Call
          /\ CallOK(Holding("create_role", n, r, None, None, None))
      BY <3>2 DEF Holding, Call, CallOK
    <3>4. call' \in [Procs -> Call] /\ \A q \in Procs : CallOK(call'[q])
      BY <3>1, <3>3, ContinueOK DEF r
    <3> QED
      BY <2>1, <3>1, <3>4 DEF approle_create_role, TypeInv, TypeOK
  <2>2. ASSUME NEW p \in Procs, create_approle(p)
        PROVE  TypeInv'
    BY <2>2, FinishOK DEF create_approle, TypeInv, TypeOK, CallOK
  <2>3. ASSUME NEW p \in Procs, NEW n \in Names, NEW ttl \in SecretTtls,
               NEW u \in NumUses, approle_generate_secret_id(p, n, ttl, u)
        PROVE  TypeInv'
    <3> DEFINE life == IF ttl > 0 THEN ttl ELSE role[n].secret_id_ttl
               row == [role_name |-> n, expiry |-> ExpiryAt(now, life),
                       uses |-> UsesFor(u)]
    <3>1. PICK x \in SecretIds \ drawn :
            /\ drawn' = drawn \cup {x}
            /\ Continue(p, Holding("insert_secret", None, None, x, row, None))
      BY <2>3 DEF approle_generate_secret_id
    <3>2. row \in Secret /\ row.uses # 0
      <4>1. UsesFor(u) \in Int /\ UsesFor(u) # 0
        BY AppTtlAssumption DEF UsesFor
      <4>2. life \in Nat /\ now \in Nat
        BY <2>3, AppTtlAssumption DEF TypeOK, Role, approle_generate_secret_id
      <4>3. ExpiryAt(now, life) \in Nat
        BY <4>2, ExpiryType
      <4> QED
        BY <4>1, <4>3 DEF Secret
    <3> HIDE DEF row
    <3>3. /\ Holding("insert_secret", None, None, x, row, None) \in Call
          /\ CallOK(Holding("insert_secret", None, None, x, row, None))
      BY <3>2 DEF Holding, Call, CallOK
    <3>4. call' \in [Procs -> Call] /\ \A q \in Procs : CallOK(call'[q])
      BY <3>1, <3>3, ContinueOK
    <3> QED
      BY <2>3, <3>1, <3>4 DEF approle_generate_secret_id, TypeInv, TypeOK
  <2>4. ASSUME NEW p \in Procs, create_secret_id(p)
        PROVE  TypeInv'
    <3>1. call[p].sid \in SecretIds /\ call[p].row \in Secret
      BY <2>4 DEF create_secret_id, CallOK
    <3>2. call[p].row.uses \in Int
      BY <3>1 DEF Secret
    <3> QED
      BY <2>4, <3>1, <3>2, FinishOK DEF create_secret_id, TypeInv, TypeOK
  <2>5. ASSUME NEW p \in Procs, NEW n \in Names, NEW x \in SecretIds \cup {None},
               approle_login(p, n, x)
        PROVE  TypeInv'
    <3>1. PICK c :
            /\ Continue(p, c)
            /\ \/ c = Holding("consume", n, role[n], x, None, None) /\ x # None
               \/ c = Holding("issue", n, role[n], None, None, None)
      BY <2>5 DEF approle_login
    <3>2. role[n] \in Role
      BY <2>5 DEF approle_login, TypeOK
    <3>3. c \in Call /\ CallOK(c)
      BY <3>1, <3>2 DEF Holding, Call, CallOK
    <3>4. call' \in [Procs -> Call] /\ \A q \in Procs : CallOK(call'[q])
      BY <3>1, <3>3, ContinueOK
    <3> QED
      BY <2>5, <3>4 DEF approle_login, TypeInv, TypeOK
  <2>6. ASSUME NEW p \in Procs, consume_secret_id(p)
        PROVE  TypeInv'
    <3> DEFINE x == call[p].sid
    <3>1. x \in SecretIds /\ call[p].name \in Names /\ call[p].role \in Role
      BY <2>6 DEF consume_secret_id, CallOK
    <3>2. secret[x] # None => AfterUse(secret[x]) \in Secret \cup {None}
      BY <3>1 DEF AfterUse, TypeOK, Secret
    <3>3. /\ Holding("issue", call[p].name, call[p].role, None, None, None) \in Call
          /\ CallOK(Holding("issue", call[p].name, call[p].role, None, None, None))
      BY <3>1 DEF Holding, Call, CallOK
    <3>4. call' \in [Procs -> Call] /\ \A q \in Procs : CallOK(call'[q])
      BY <2>6, <3>3, ContinueOK, FinishOK DEF consume_secret_id
    <3>5. secret' \in [SecretIds -> Secret \cup {None}]
      BY <2>6, <3>1, <3>2 DEF consume_secret_id, TypeOK
    <3>6. logins' \in [SecretIds -> Nat]
      BY <2>6, <3>1 DEF consume_secret_id, TypeOK
    <3> QED
      BY <2>6, <3>4, <3>5, <3>6 DEF consume_secret_id, TypeInv, TypeOK
  <2>7. ASSUME NEW p \in Procs, issue_app_token(p)
        PROVE  TypeInv'
    <3>1. PICK k \in Tokens \ drawn, t \in Readings :
            /\ drawn' = drawn \cup {k}
            /\ token' = [token EXCEPT ![k] =
                          [expiry |-> ExpiryAt(t, call[p].role.token_ttl),
                           lease |-> call[p].role.token_ttl]]
      BY <2>7 DEF issue_app_token
    <3>2. call[p].role.token_ttl \in TokenTtls /\ now \in Nat
      BY <2>7 DEF issue_app_token, CallOK, Role, TypeOK
    <3>3. ExpiryAt(t, call[p].role.token_ttl) \in Nat
      BY <3>2, AppReading, ExpiryType, AppTtlAssumption
    <3> QED
      BY <2>7, <3>1, <3>2, <3>3, FinishOK
      DEF issue_app_token, TypeInv, TypeOK, Token
  <2>8. ASSUME NEW p \in Procs, NEW k \in Tokens, NEW op \in {"renew", "revoke"},
               AppTokenExtract(p, k, op)
        PROVE  TypeInv'
    <3>1. /\ Holding(op, None, None, None, None, k) \in Call
          /\ CallOK(Holding(op, None, None, None, None, k))
      BY DEF Holding, Call, CallOK
    <3>2. call' \in [Procs -> Call] /\ \A q \in Procs : CallOK(call'[q])
      BY <2>8, <3>1, ContinueOK DEF AppTokenExtract
    <3> QED
      BY <2>8, <3>2 DEF AppTokenExtract, TypeInv, TypeOK
  <2>9. ASSUME NEW p \in Procs, renew_app_token(p)
        PROVE  TypeInv'
    <3>1. PICK t \in Readings :
            token' = IF token[call[p].token] # None
                          /\ Renewable(token[call[p].token], t)
                     THEN [token EXCEPT ![call[p].token] =
                            [expiry |-> t + token[call[p].token].lease,
                             lease |-> token[call[p].token].lease]]
                     ELSE token
      BY <2>9 DEF renew_app_token
    <3>2. call[p].token \in Tokens /\ t \in Nat
      BY <2>9, AppReading DEF renew_app_token, CallOK, TypeOK
    <3>3. token[call[p].token] # None =>
            [expiry |-> t + token[call[p].token].lease,
             lease |-> token[call[p].token].lease] \in Token
      <4> SUFFICES ASSUME token[call[p].token] # None
                   PROVE  [expiry |-> t + token[call[p].token].lease,
                           lease |-> token[call[p].token].lease] \in Token
        OBVIOUS
      <4>1. token[call[p].token] \in Token
        BY <3>2 DEF TypeOK
      <4>2. token[call[p].token].lease \in TokenTtls
        BY <4>1 DEF Token
      <4> DEFINE lease == token[call[p].token].lease
      <4>3. lease \in Nat
        BY <4>2, AppTtlAssumption
      <4>4. t + lease \in Nat
        <5> HIDE DEF lease
        <5> QED
          BY <3>2, <4>3
      <4> QED
        BY <4>2, <4>4 DEF Token
    <3>4. token' \in [Tokens -> Token \cup {None}]
      BY <3>1, <3>2, <3>3 DEF TypeOK
    <3> QED
      BY <2>9, <3>4, FinishOK DEF renew_app_token, TypeInv, TypeOK
  <2>10. ASSUME NEW p \in Procs, revoke_app_token(p)
         PROVE  TypeInv'
    BY <2>10, FinishOK DEF revoke_app_token, TypeInv, TypeOK, CallOK
  <2>11. ASSUME NEW p \in Procs, abandon(p)
         PROVE  TypeInv'
    BY <2>11, FinishOK DEF abandon, TypeInv, TypeOK
  <2>12. ASSUME NEW n \in Names,
                delete_approle(n) \/ \E x \in SecretIds : destroy_secret_id(n, x)
         PROVE  TypeInv'
    BY <2>12 DEF delete_approle, destroy_secret_id, TypeInv, TypeOK
  <2>13. CASE Tick \/ UNCHANGED vars
    BY <2>13 DEF Tick, vars, TypeInv, TypeOK
  <2> QED
    BY <2>1, <2>2, <2>3, <2>4, <2>5, <2>6, <2>7, <2>8, <2>9, <2>10, <2>11,
       <2>12, <2>13
    DEF Next, Handle
<1> QED
  BY <1>1, <1>2, PTL DEF Spec

\* The tables and the calls of the AppRole handlers always have their types
\* (approle.rs, auth_token.rs).
THEOREM AppTypeOKAlways == Spec => []TypeOK
<1>1. TypeInv => TypeOK
  BY DEF TypeInv
<1> QED
  BY <1>1, AppTypeCorrect, PTL

-----------------------------------------------------------------------------
\* Uses left and uses made never exceed the uses granted; a secret id that is
\* still to be inserted has been drawn by one request only and never used.
UseInv ==
  /\ \A x \in SecretIds : x \notin drawn => secret[x] = None /\ logins[x] = 0
  /\ \A p \in Procs : call[p].pc = "insert_secret" =>
       /\ call[p].sid \in drawn
       /\ secret[call[p].sid] = None
       /\ logins[call[p].sid] = 0
       /\ \A q \in Procs : (q # p /\ call[q].pc = "insert_secret")
            => call[q].sid # call[p].sid
  /\ \A x \in SecretIds : (secret[x] # None /\ granted[x] > 0) =>
       secret[x].uses > 0 /\ logins[x] + secret[x].uses <= granted[x]
  /\ UsesBounded

\* Steps that draw no secret id, accept none and create none keep UseInv; they
\* may delete secret ids.
LEMMA UseFrame ==
  ASSUME TypeInv, UseInv, drawn \subseteq drawn',
         \A x \in SecretIds : secret'[x] \in {secret[x], None},
         granted' = granted, logins' = logins,
         \A p \in Procs : call'[p] = call[p] \/ call'[p].pc # "insert_secret"
  PROVE  UseInv'
BY DEF UseInv, UsesBounded, TypeInv, CallOK

\* What a process does next is not an insertion of a secret id.
LEMMA ContinuePc ==
  ASSUME TypeInv, NEW p \in Procs, NEW c, Continue(p, c), c.pc # "insert_secret"
  PROVE  \A q \in Procs : call'[q] = call[q] \/ call'[q].pc # "insert_secret"
BY DEF Continue, TypeInv, TypeOK

\* A call that is over has no program counter but "idle".
LEMMA FinishPc ==
  ASSUME TypeInv, NEW p \in Procs, Finish(p)
  PROVE  \A q \in Procs : call'[q] = call[q] \/ call'[q].pc # "insert_secret"
BY ContinuePc DEF Finish, Idle, Holding

\* A secret id is accepted at most as often as it was created for, however many
\* logins present it at the same time (consume_secret_id).
THEOREM UsesBoundedAlways == Spec => []UsesBounded
<1>1. Init => UseInv
  BY DEF Init, UseInv, UsesBounded, Idle, Holding
<1>2. TypeInv /\ TypeInv' /\ UseInv /\ [Next]_vars => UseInv'
  <2> SUFFICES ASSUME TypeInv, TypeInv', UseInv, [Next]_vars PROVE UseInv'
    OBVIOUS
  <2>1. ASSUME NEW p \in Procs, NEW n \in Names, NEW st \in SecretTtls,
               NEW tt \in TokenTtls, NEW b \in BOOLEAN,
               approle_create_role(p, n, st, tt, b)
        PROVE  UseInv'
    <3>1. PICK r : Continue(p, Holding("create_role", n, r, None, None, None))
      BY <2>1 DEF approle_create_role
    <3>2. \A q \in Procs : call'[q] = call[q] \/ call'[q].pc # "insert_secret"
      BY <3>1, ContinuePc DEF Holding
    <3> QED
      BY <2>1, <3>2, UseFrame DEF approle_create_role
  <2>2. ASSUME NEW p \in Procs,
               \/ create_approle(p) \/ issue_app_token(p)
               \/ renew_app_token(p) \/ revoke_app_token(p) \/ abandon(p)
        PROVE  UseInv'
    <3>1. Finish(p)
      BY <2>2 DEF create_approle, issue_app_token, renew_app_token,
                  revoke_app_token, abandon
    <3>2. /\ secret' = secret /\ granted' = granted /\ logins' = logins
          /\ drawn \subseteq drawn'
      BY <2>2 DEF create_approle, issue_app_token, renew_app_token,
                  revoke_app_token, abandon
    <3> QED
      BY <3>1, <3>2, FinishPc, UseFrame
  <2>3. ASSUME NEW p \in Procs, NEW n \in Names, NEW ttl \in SecretTtls,
               NEW u \in NumUses, approle_generate_secret_id(p, n, ttl, u)
        PROVE  UseInv'
    <3>1. PICK x, row :
            /\ x \in SecretIds \ drawn
            /\ drawn' = drawn \cup {x}
            /\ Continue(p, Holding("insert_secret", None, None, x, row, None))
      BY <2>3 DEF approle_generate_secret_id
    <3>2. /\ call'[p].sid = x
          /\ \A q \in Procs : q # p => call'[q] = call[q]
      BY <3>1 DEF Continue, Holding, TypeInv, TypeOK
    <3>3. secret' = secret /\ granted' = granted /\ logins' = logins
      BY <2>3 DEF approle_generate_secret_id
    <3> QED
      BY <3>1, <3>2, <3>3 DEF UseInv, UsesBounded
  <2>4. ASSUME NEW p \in Procs, create_secret_id(p)
        PROVE  UseInv'
    <3> DEFINE x == call[p].sid
    <3>1. /\ x \in SecretIds /\ call[p].row \in Secret /\ call[p].row.uses # 0
          /\ call[p].row.uses \in Int
      BY <2>4 DEF create_secret_id, TypeInv, CallOK, Secret
    <3>2. Finish(p) /\ drawn' = drawn /\ logins' = logins
      BY <2>4 DEF create_secret_id
    <3>3. CASE role[call[p].row.role_name] = None
      BY <2>4, <3>2, <3>3, FinishPc, UseFrame DEF create_secret_id
    <3>4. CASE role[call[p].row.role_name] # None
      <4>1. /\ secret' = [secret EXCEPT ![x] = call[p].row]
            /\ granted' = [granted EXCEPT ![x] = call[p].row.uses]
        BY <2>4, <3>4 DEF create_secret_id
      <4>2. /\ secret'[x] = call[p].row /\ granted'[x] = call[p].row.uses
            /\ \A y \in SecretIds : y # x =>
                 secret'[y] = secret[y] /\ granted'[y] = granted[y]
        BY <3>1, <4>1 DEF TypeInv, TypeOK
      <4>3. /\ call'[p].pc = "idle"
            /\ \A q \in Procs : q # p => call'[q] = call[q]
        BY <3>2 DEF Finish, Continue, Idle, Holding, TypeInv, TypeOK
      <4>4. x \in drawn /\ logins[x] = 0
        BY <2>4 DEF create_secret_id, UseInv
      <4>5. \A q \in Procs : call'[q].pc = "insert_secret" =>
              /\ q # p /\ call'[q] = call[q] /\ call[q].sid # x
              /\ call[q].sid \in SecretIds
        BY <2>4, <4>3 DEF create_secret_id, UseInv, TypeInv, CallOK
      <4>6. \A y \in SecretIds : y \notin drawn' => secret'[y] = None /\ logins'[y] = 0
        BY <3>2, <4>2, <4>4 DEF UseInv
      <4>7. \A q \in Procs : call'[q].pc = "insert_secret" =>
              /\ call'[q].sid \in drawn'
              /\ secret'[call'[q].sid] = None
              /\ logins'[call'[q].sid] = 0
              /\ \A o \in Procs : (o # q /\ call'[o].pc = "insert_secret")
                   => call'[o].sid # call'[q].sid
        BY <3>2, <4>2, <4>5 DEF UseInv
      <4>8. \A y \in SecretIds : (secret'[y] # None /\ granted'[y] > 0) =>
              secret'[y].uses > 0 /\ logins'[y] + secret'[y].uses <= granted'[y]
        BY <3>1, <3>2, <4>2, <4>4 DEF UseInv
      <4>9. UsesBounded'
        BY <3>1, <3>2, <4>2, <4>4 DEF UseInv, UsesBounded
      <4> QED
        BY <4>6, <4>7, <4>8, <4>9 DEF UseInv
    <3> QED
      BY <3>3, <3>4
  <2>5. ASSUME NEW p \in Procs, NEW n \in Names, NEW x \in SecretIds \cup {None},
               approle_login(p, n, x)
        PROVE  UseInv'
    <3>1. PICK c : Continue(p, c) /\ c.pc # "insert_secret"
      BY <2>5 DEF approle_login, Holding
    <3> QED
      BY <2>5, <3>1, ContinuePc, UseFrame DEF approle_login
  <2>6. ASSUME NEW p \in Procs, consume_secret_id(p)
        PROVE  UseInv'
    <3> DEFINE x == call[p].sid
    <3>1. x \in SecretIds
      BY <2>6 DEF consume_secret_id, TypeInv, CallOK
    <3>2. PICK c : Continue(p, c) /\ c.pc # "insert_secret"
      BY <2>6 DEF consume_secret_id, Finish, Idle, Holding
    <3>3. \A q \in Procs : call'[q] = call[q] \/ call'[q].pc # "insert_secret"
      BY <3>2, ContinuePc
    <3>4. drawn' = drawn /\ granted' = granted
      BY <2>6 DEF consume_secret_id
    <3>5. CASE secret' = secret /\ logins' = logins
      BY <3>3, <3>4, <3>5, UseFrame
    <3>6. CASE /\ secret[x] # None
               /\ secret' = [secret EXCEPT ![x] = AfterUse(secret[x])]
               /\ logins' = [logins EXCEPT ![x] =
                              IF granted[x] > 0 THEN @ + 1 ELSE @]
      <4>1. /\ secret'[x] = AfterUse(secret[x])
            /\ logins'[x] = IF granted[x] > 0 THEN logins[x] + 1 ELSE logins[x]
            /\ \A y \in SecretIds : y # x =>
                 secret'[y] = secret[y] /\ logins'[y] = logins[y]
        BY <3>1, <3>6 DEF TypeInv, TypeOK
      <4>2. /\ secret[x].uses \in Int /\ granted[x] \in Int /\ logins[x] \in Nat
            /\ secret[x] \in Secret
        BY <3>1, <3>6 DEF TypeInv, TypeOK, Secret
      <4>3. granted[x] > 0 =>
              secret[x].uses > 0 /\ logins[x] + secret[x].uses <= granted[x]
        BY <3>1, <3>6 DEF UseInv
      <4>4. /\ secret[x].uses = 1 => AfterUse(secret[x]) = None
            /\ secret[x].uses > 1 => AfterUse(secret[x]).uses = secret[x].uses - 1
        BY <4>2 DEF AfterUse, Secret
      <4>5. granted[x] > 0 =>
              /\ logins'[x] <= granted[x]
              /\ secret'[x] # None =>
                   secret'[x].uses > 0 /\ logins'[x] + secret'[x].uses <= granted[x]
        BY <4>1, <4>2, <4>3, <4>4
      <4>6. x \in drawn
        BY <3>1, <3>6 DEF UseInv
      <4>7. \A q \in Procs : call'[q].pc = "insert_secret" =>
              /\ call'[q] = call[q] /\ call[q].sid # x
              /\ call[q].sid \in SecretIds
        BY <3>3, <3>6 DEF UseInv, TypeInv, CallOK
      <4>8. \A y \in SecretIds : y \notin drawn' => secret'[y] = None /\ logins'[y] = 0
        BY <3>4, <4>1, <4>6 DEF UseInv
      <4>9. \A q \in Procs : call'[q].pc = "insert_secret" =>
              /\ call'[q].sid \in drawn'
              /\ secret'[call'[q].sid] = None
              /\ logins'[call'[q].sid] = 0
              /\ \A o \in Procs : (o # q /\ call'[o].pc = "insert_secret")
                   => call'[o].sid # call'[q].sid
        BY <3>4, <4>1, <4>7 DEF UseInv
      <4>10. \A y \in SecretIds : (secret'[y] # None /\ granted'[y] > 0) =>
               secret'[y].uses > 0 /\ logins'[y] + secret'[y].uses <= granted'[y]
        BY <3>4, <4>1, <4>5 DEF UseInv
      <4>11. UsesBounded'
        BY <3>4, <4>1, <4>5 DEF UseInv, UsesBounded
      <4> QED
        BY <4>8, <4>9, <4>10, <4>11 DEF UseInv
    <3> QED
      BY <2>6, <3>5, <3>6 DEF consume_secret_id
  <2>7. ASSUME NEW p \in Procs, NEW k \in Tokens, NEW op \in {"renew", "revoke"},
               AppTokenExtract(p, k, op)
        PROVE  UseInv'
    <3>1. PICK c : Continue(p, c) /\ c.pc # "insert_secret"
      BY <2>7 DEF AppTokenExtract, Holding
    <3> QED
      BY <2>7, <3>1, ContinuePc, UseFrame DEF AppTokenExtract
  <2>8. ASSUME NEW n \in Names,
               delete_approle(n) \/ \E x \in SecretIds : destroy_secret_id(n, x)
        PROVE  UseInv'
    <3>1. \A x \in SecretIds : secret'[x] \in {secret[x], None}
      BY <2>8 DEF delete_approle, destroy_secret_id, TypeInv, TypeOK
    <3> QED
      BY <2>8, <3>1, UseFrame DEF delete_approle, destroy_secret_id
  <2>9. CASE Tick \/ UNCHANGED vars
    BY <2>9, UseFrame DEF Tick, vars
  <2> QED
    BY <2>1, <2>2, <2>3, <2>4, <2>5, <2>6, <2>7, <2>8, <2>9 DEF Next, Handle
<1>3. UseInv => UsesBounded
  BY DEF UseInv
<1> QED
  BY <1>1, <1>2, <1>3, AppTypeCorrect, PTL DEF Spec

-----------------------------------------------------------------------------
\* What each step does to the token table: nothing, issue a new token, renew
\* one that has not expired, or revoke one.
LEMMA TokenSteps ==
  ASSUME TypeInv, [Next]_vars
  PROVE  \/ token' = token /\ revoked' = revoked
         \/ \E k \in Tokens \ drawn, t \in Nat, l \in TokenTtls :
              /\ token' = [token EXCEPT ![k] =
                            [expiry |-> ExpiryAt(t, l), lease |-> l]]
              /\ revoked' = revoked
         \/ \E k \in Tokens, t \in Readings :
              /\ token[k] # None /\ Renewable(token[k], t)
              /\ token' = [token EXCEPT ![k] =
                            [expiry |-> t + token[k].lease,
                             lease |-> token[k].lease]]
              /\ revoked' = revoked
         \/ \E p \in Procs : revoke_app_token(p)
<1>1. ASSUME NEW p \in Procs, issue_app_token(p)
      PROVE  \E k \in Tokens \ drawn, t \in Nat, l \in TokenTtls :
               /\ token' = [token EXCEPT ![k] =
                             [expiry |-> ExpiryAt(t, l), lease |-> l]]
               /\ revoked' = revoked
  <2>1. call[p].role.token_ttl \in TokenTtls
    BY <1>1 DEF issue_app_token, TypeInv, CallOK, Role
  <2>2. \A t \in Readings : t \in Nat
    BY DEF Readings
  <2> QED
    BY <1>1, <2>1, <2>2 DEF issue_app_token
<1>2. ASSUME NEW p \in Procs, renew_app_token(p), token' # token
      PROVE  \E k \in Tokens, t \in Readings :
               /\ token[k] # None /\ Renewable(token[k], t)
               /\ token' = [token EXCEPT ![k] =
                             [expiry |-> t + token[k].lease,
                              lease |-> token[k].lease]]
               /\ revoked' = revoked
  <2>1. call[p].token \in Tokens
    BY <1>2 DEF renew_app_token, TypeInv, CallOK
  <2> QED
    BY <1>2, <2>1 DEF renew_app_token
<1>3. ASSUME NEW p \in Procs, renew_app_token(p)
      PROVE  revoked' = revoked
  BY <1>3 DEF renew_app_token
<1>4. ASSUME NEW p \in Procs, Handle(p),
             ~issue_app_token(p), ~renew_app_token(p), ~revoke_app_token(p)
      PROVE  token' = token /\ revoked' = revoked
  BY <1>4
  DEF Handle, approle_create_role, create_approle, approle_generate_secret_id,
      create_secret_id, approle_login, consume_secret_id, AppTokenExtract,
      abandon
<1>5. ASSUME \/ \E n \in Names : delete_approle(n)
             \/ \E n \in Names, x \in SecretIds : destroy_secret_id(n, x)
             \/ Tick
             \/ UNCHANGED vars
      PROVE  token' = token /\ revoked' = revoked
  BY <1>5 DEF delete_approle, destroy_secret_id, Tick, vars
<1> QED
  BY <1>1, <1>2, <1>3, <1>4, <1>5 DEF Next

\* No renewal turns a non-expiring token into one that has expired
\* (renew_app_token, issue_app_token).
THEOREM NonExpiringAlways == Spec => []NonExpiringStays
<1>1. Init => NonExpiringStays
  BY DEF Init, NonExpiringStays
<1>2. TypeInv /\ NonExpiringStays /\ [Next]_vars => NonExpiringStays'
  <2> SUFFICES ASSUME TypeInv, NonExpiringStays, [Next]_vars,
                      NEW k \in Tokens, token'[k] # None
               PROVE  token'[k].expiry = 0 <=> token'[k].lease = 0
    BY DEF NonExpiringStays
  <2>1. ASSUME NEW j \in Tokens, NEW t \in Nat, NEW l \in TokenTtls,
               token' = [token EXCEPT ![j] =
                          [expiry |-> ExpiryAt(t, l), lease |-> l]]
        PROVE  token'[k].expiry = 0 <=> token'[k].lease = 0
    <3>1. ExpiryAt(t, l) = 0 <=> l = 0
      BY ExpiryType, AppTtlAssumption
    <3> QED
      BY <2>1, <3>1 DEF NonExpiringStays, TypeInv, TypeOK
  <2>2. ASSUME NEW j \in Tokens, NEW t \in Readings,
               token[j] # None, Renewable(token[j], t),
               token' = [token EXCEPT ![j] =
                          [expiry |-> t + token[j].lease,
                           lease |-> token[j].lease]]
        PROVE  token'[k].expiry = 0 <=> token'[k].lease = 0
    <3> DEFINE lease == token[j].lease
    <3>1. token[j] \in Token
      BY <2>2 DEF TypeInv, TypeOK
    <3>2. lease \in Nat /\ token[j].expiry \in Nat
      BY <3>1, AppTtlAssumption DEF Token
    <3>3. lease # 0 /\ t \in Nat
      BY <2>2, <3>2 DEF NonExpiringStays, Renewable, Readings
    <3>4. t + lease # 0
      <4> HIDE DEF lease
      <4> QED
        BY <3>2, <3>3
    <3> QED
      BY <2>2, <3>3, <3>4 DEF NonExpiringStays, TypeInv, TypeOK
  <2>3. ASSUME NEW p \in Procs, revoke_app_token(p)
        PROVE  token'[k].expiry = 0 <=> token'[k].lease = 0
    BY <2>3 DEF revoke_app_token, NonExpiringStays, TypeInv, TypeOK, CallOK
  <2> QED
    BY <2>1, <2>2, <2>3, TokenSteps DEF NonExpiringStays
<1> QED
  BY <1>1, <1>2, AppTypeCorrect, PTL DEF Spec

-----------------------------------------------------------------------------
\* A token that is stored, revoked or held by a request was once drawn, and a
\* revoked one is in the table no more.
TokenInv ==
  /\ \A k \in Tokens : token[k] # None => k \in drawn
  /\ \A p \in Procs : call[p].pc \in {"renew", "revoke"} => call[p].token \in drawn
  /\ \A k \in revoked : k \in drawn /\ token[k] = None

\* The inductive step for requests that leave the token table alone.
LEMMA TokenFrame ==
  ASSUME TypeInv, TokenInv, NEW p \in Procs, NEW c, Continue(p, c),
         c.pc \in {"renew", "revoke"} => c.token \in drawn,
         drawn \subseteq drawn', token' = token, revoked' = revoked
  PROVE  TokenInv'
BY DEF TokenInv, Continue, TypeInv, TypeOK

\* Random values are never drawn twice, so that nothing brings back a token
\* that was revoked (all operations on app_tokens).
LEMMA TokenInvariance == Spec => []TokenInv
<1>1. Init => TokenInv
  BY DEF Init, TokenInv, Idle, Holding
<1>2. TypeInv /\ TokenInv /\ [Next]_vars => TokenInv'
  <2> SUFFICES ASSUME TypeInv, TokenInv, [Next]_vars PROVE TokenInv'
    OBVIOUS
  <2>1. ASSUME NEW p \in Procs, issue_app_token(p)
        PROVE  TokenInv'
    <3>1. PICK k, row :
            /\ k \in Tokens \ drawn
            /\ drawn' = drawn \cup {k} /\ token' = [token EXCEPT ![k] = row]
      BY <2>1 DEF issue_app_token
    <3>2. revoked' = revoked /\ Finish(p)
      BY <2>1 DEF issue_app_token
    <3>3. \A q \in Procs : call'[q] = call[q] \/ call'[q].pc = "idle"
      BY <3>2 DEF Finish, Continue, Idle, Holding, TypeInv, TypeOK
    <3> QED
      BY <3>1, <3>2, <3>3 DEF TokenInv, TypeInv, TypeOK
  <2>2. ASSUME NEW p \in Procs, renew_app_token(p)
        PROVE  TokenInv'
    <3>1. /\ revoked' = revoked /\ drawn' = drawn /\ Finish(p)
          /\ call[p].token \in drawn /\ call[p].token \in Tokens
      BY <2>2 DEF renew_app_token, TokenInv, TypeInv, CallOK
    <3>2. \A q \in Procs : call'[q] = call[q] \/ call'[q].pc = "idle"
      BY <3>1 DEF Finish, Continue, Idle, Holding, TypeInv, TypeOK
    <3>3. \A k \in Tokens : token[k] = None => token'[k] = None
      BY <2>2 DEF renew_app_token, TypeInv, TypeOK
    <3> QED
      BY <3>1, <3>2, <3>3 DEF TokenInv, TypeInv, TypeOK
  <2>3. ASSUME NEW p \in Procs, revoke_app_token(p)
        PROVE  TokenInv'
    <3>1. /\ drawn' = drawn /\ Finish(p)
          /\ call[p].token \in drawn /\ call[p].token \in Tokens
          /\ token' = [token EXCEPT ![call[p].token] = None]
          /\ revoked' = revoked \cup {call[p].token}
      BY <2>3 DEF revoke_app_token, TokenInv, TypeInv, CallOK
    <3>2. \A q \in Procs : call'[q] = call[q] \/ call'[q].pc = "idle"
      BY <3>1 DEF Finish, Continue, Idle, Holding, TypeInv, TypeOK
    <3> QED
      BY <3>1, <3>2 DEF TokenInv, TypeInv, TypeOK
  <2>4. ASSUME NEW p \in Procs, Handle(p),
               ~issue_app_token(p), ~renew_app_token(p), ~revoke_app_token(p)
        PROVE  TokenInv'
    <3>1. /\ token' = token /\ revoked' = revoked /\ drawn \subseteq drawn'
      BY <2>4
      DEF Handle, approle_create_role, create_approle,
          approle_generate_secret_id, create_secret_id, approle_login,
          consume_secret_id, AppTokenExtract, abandon
    <3>2. PICK c : /\ Continue(p, c)
                   /\ c.pc \in {"renew", "revoke"} =>
                        c.token \in Tokens /\ token[c.token] # None
      <4>1. ASSUME Finish(p)
            PROVE  \E c : Continue(p, c) /\ c.pc = "idle"
        BY <4>1 DEF Finish, Idle, Holding
      <4>2. CASE create_approle(p) \/ create_secret_id(p) \/ abandon(p)
        BY <4>1, <4>2 DEF create_approle, create_secret_id, abandon
      <4>3. CASE consume_secret_id(p)
        BY <4>1, <4>3 DEF consume_secret_id, Holding
      <4>4. ASSUME NEW n \in Names, NEW x \in SecretIds \cup {None},
                   approle_login(p, n, x)
            PROVE  \E c : Continue(p, c) /\ c.pc \notin {"renew", "revoke"}
        BY <4>4 DEF approle_login, Holding
      <4>5. ASSUME NEW n \in Names, NEW ttl \in SecretTtls, NEW u \in NumUses,
                   approle_generate_secret_id(p, n, ttl, u)
            PROVE  \E c : Continue(p, c) /\ c.pc \notin {"renew", "revoke"}
        BY <4>5 DEF approle_generate_secret_id, Holding
      <4>6. ASSUME NEW n \in Names, NEW st \in SecretTtls, NEW tt \in TokenTtls,
                   NEW b \in BOOLEAN, approle_create_role(p, n, st, tt, b)
            PROVE  \E c : Continue(p, c) /\ c.pc \notin {"renew", "revoke"}
        BY <4>6 DEF approle_create_role, Holding
      <4>7. ASSUME NEW k \in Tokens, NEW op \in {"renew", "revoke"},
                   AppTokenExtract(p, k, op)
            PROVE  \E c : Continue(p, c) /\ c.token = k /\ token[k] # None
        BY <4>7 DEF AppTokenExtract, Holding
      <4> QED
        BY <2>4, <4>2, <4>3, <4>4, <4>5, <4>6, <4>7 DEF Handle
    <3>3. c.pc \in {"renew", "revoke"} => c.token \in drawn
      BY <3>2 DEF TokenInv
    <3> QED
      BY <3>1, <3>2, <3>3, TokenFrame
  <2>5. ASSUME \/ \E n \in Names : delete_approle(n)
               \/ \E n \in Names, x \in SecretIds : destroy_secret_id(n, x)
               \/ Tick
               \/ UNCHANGED vars
        PROVE  TokenInv'
    BY <2>5 DEF delete_approle, destroy_secret_id, Tick, vars, TokenInv
  <2> QED
    BY <2>1, <2>2, <2>3, <2>4, <2>5 DEF Next
<1> QED
  BY <1>1, <1>2, AppTypeCorrect, PTL DEF Spec

\* A revoked token is refused by every later lookup, whatever renewals were
\* under way when it was revoked (revoke_app_token, renew_app_token).
THEOREM RevokedAlways == Spec => []RevokedRefused
<1>1. TokenInv => RevokedRefused
  BY DEF TokenInv, RevokedRefused
<1> QED
  BY <1>1, TokenInvariance, PTL

\* A renewal that was under way when a token expired comes too late
\* (renew_app_token).
THEOREM ExpiredAlways == Spec => ExpiredStaysExpired
<1> DEFINE Kept ==
      \A k \in Tokens :
        (token[k] # None /\ token[k].expiry > 0 /\ token[k].expiry <= now - Lag)
          => token'[k] \in {token[k], None}
<1>1. TypeInv /\ TokenInv /\ [Next]_vars => Kept
  <2> SUFFICES ASSUME TypeInv, TokenInv, [Next]_vars, NEW k \in Tokens,
                      token[k] # None, token[k].expiry > 0,
                      token[k].expiry <= now - Lag
               PROVE  token'[k] \in {token[k], None}
    OBVIOUS
  <2>1. ASSUME NEW j \in Tokens, NEW t \in Readings, Renewable(token[j], t)
        PROVE  j # k
    <3>1. t \in Nat /\ now \in Nat /\ now - Lag <= t
      BY AppReading DEF TypeInv, TypeOK
    <3>2. token[k].expiry \in Nat
      BY DEF TypeInv, TypeOK, Token
    <3> SUFFICES ASSUME j = k PROVE FALSE
      OBVIOUS
    <3>3. token[k].expiry > t
      BY <2>1 DEF Renewable
    <3> DEFINE e == token[k].expiry
    <3>4. e \in Nat /\ e > t /\ e <= now - Lag
      BY <3>2, <3>3
    <3> HIDE DEF e
    <3> QED
      BY <3>1, <3>4, AppClockAssumption
  <2>2. ASSUME NEW p \in Procs, revoke_app_token(p)
        PROVE  token'[k] \in {token[k], None}
    BY <2>2 DEF revoke_app_token, TypeInv, TypeOK
  <2>3. k \in drawn
    BY DEF TokenInv
  <2> QED
    BY <2>1, <2>2, <2>3, TokenSteps DEF TypeInv, TypeOK
<1>2. Kept => [Kept]_vars
  OBVIOUS
<1> QED
  BY <1>1, AppTypeCorrect, TokenInvariance, PTL DEF Spec, ExpiredStaysExpired

-----------------------------------------------------------------------------
\* Every secret id belongs to a role that exists, also when the role is deleted
\* while the secret id is being generated (delete_approle, create_secret_id).
THEOREM SecretsHaveRolesAlways == Spec => []SecretsHaveRoles
<1>1. Init => SecretsHaveRoles
  BY DEF Init, SecretsHaveRoles
<1>2. TypeInv /\ SecretsHaveRoles /\ [Next]_vars => SecretsHaveRoles'
  <2> SUFFICES ASSUME TypeInv, SecretsHaveRoles, [Next]_vars
               PROVE  SecretsHaveRoles'
    OBVIOUS
  <2>1. ASSUME NEW p \in Procs, create_approle(p)
        PROVE  SecretsHaveRoles'
    <3>1. call[p].name \in Names /\ call[p].role # None
      BY <2>1, AppNoneAssumption DEF create_approle, TypeInv, CallOK, Role
    <3> QED
      BY <2>1, <3>1 DEF create_approle, SecretsHaveRoles, TypeInv, TypeOK, Secret
  <2>2. ASSUME NEW p \in Procs, create_secret_id(p)
        PROVE  SecretsHaveRoles'
    BY <2>2 DEF create_secret_id, SecretsHaveRoles, TypeInv, TypeOK
  <2>3. ASSUME NEW p \in Procs, consume_secret_id(p)
        PROVE  SecretsHaveRoles'
    <3>1. \A x \in SecretIds : secret[x] # None =>
            \/ AfterUse(secret[x]) = None
            \/ AfterUse(secret[x]).role_name = secret[x].role_name
      BY DEF AfterUse, TypeInv, TypeOK, Secret
    <3>2. /\ role' = role
          /\ \A x \in SecretIds :
               \/ secret'[x] = secret[x]
               \/ secret[x] # None /\ secret'[x] = AfterUse(secret[x])
      BY <2>3 DEF consume_secret_id, TypeInv, TypeOK, CallOK
    <3> QED
      BY <3>1, <3>2 DEF SecretsHaveRoles
  <2>4. ASSUME NEW n \in Names, delete_approle(n)
        PROVE  SecretsHaveRoles'
    BY <2>4 DEF delete_approle, SecretsHaveRoles, TypeInv, TypeOK, Secret
  <2>5. ASSUME NEW n \in Names, NEW x \in SecretIds, destroy_secret_id(n, x)
        PROVE  SecretsHaveRoles'
    BY <2>5 DEF destroy_secret_id, SecretsHaveRoles, TypeInv, TypeOK
  <2>6. ASSUME NEW p \in Procs, Handle(p),
               ~create_approle(p), ~create_secret_id(p), ~consume_secret_id(p)
        PROVE  SecretsHaveRoles'
    BY <2>6
    DEF Handle, approle_create_role, approle_generate_secret_id, approle_login,
        issue_app_token, AppTokenExtract, renew_app_token, revoke_app_token,
        abandon, SecretsHaveRoles
  <2>7. CASE Tick \/ UNCHANGED vars
    BY <2>7 DEF Tick, vars, SecretsHaveRoles
  <2> QED
    BY <2>1, <2>2, <2>3, <2>4, <2>5, <2>6, <2>7 DEF Next
<1> QED
  BY <1>1, <1>2, AppTypeCorrect, PTL DEF Spec

-----------------------------------------------------------------------------
(***************************************************************************)
(* Role ids.  approle_login finds the role by its role_id, which the model *)
(* takes as naming one role.  Two concurrent creations of a role can       *)
(* change its role_id, but no interleaving gives two roles the same one.   *)
(***************************************************************************)

\* The role n has this role_id, or a creation of it is about to store it.
HoldsId(n, id) ==
  \/ role[n] # None /\ role[n].role_id = id
  \/ \E p \in Procs : /\ call[p].pc = "create_role" /\ call[p].name = n
                      /\ call[p].role.role_id = id

RoleIdInv ==
  \A id \in RoleIds :
    /\ \A n, m \in Names : HoldsId(n, id) /\ HoldsId(m, id) => n = m
    /\ \A n \in Names : HoldsId(n, id) => id \in drawn

\* No two roles have the same role_id.
RoleIdsDistinct ==
  \A n, m \in Names :
    (role[n] # None /\ role[m] # None /\ role[n].role_id = role[m].role_id) => n = m

\* A step that gives no role a role_id it did not have keeps the invariant, and
\* so does one that gives one role a new one.
LEMMA IdsKept ==
  ASSUME RoleIdInv, drawn \subseteq drawn', NEW n0 \in Names, NEW id0 \in RoleIds,
         \A n \in Names, id \in RoleIds :
           HoldsId(n, id)' =>
             HoldsId(n, id) \/ (n = n0 /\ id = id0 /\ id0 \notin drawn /\ id0 \in drawn')
  PROVE  RoleIdInv'
<1> SUFFICES ASSUME NEW id \in RoleIds
             PROVE  /\ \A n, m \in Names : HoldsId(n, id)' /\ HoldsId(m, id)' => n = m
                    /\ \A n \in Names : HoldsId(n, id)' => id \in drawn'
  BY DEF RoleIdInv
<1>1. /\ \A n, m \in Names : HoldsId(n, id) /\ HoldsId(m, id) => n = m
      /\ \A n \in Names : HoldsId(n, id) => id \in drawn
  BY DEF RoleIdInv
<1> QED
  BY <1>1

\* A request that leaves the roles alone and does not create one.
LEMMA IdsFrame ==
  ASSUME TypeInv, RoleIdInv, drawn \subseteq drawn',
         \A n \in Names : role'[n] = role[n] \/ role'[n] = None,
         \A p \in Procs : call'[p] = call[p] \/ call'[p].pc # "create_role"
  PROVE  RoleIdInv'
<1>1. \A n \in Names, id \in RoleIds : HoldsId(n, id)' => HoldsId(n, id)
  BY DEF HoldsId
<1> QED
  BY <1>1 DEF RoleIdInv

\* No two roles ever have the same role_id, however many creations and deletions
\* of roles overlap, so a login by role_id finds one role (approle_create_role,
\* create_approle, delete_approle, approle_login).
THEOREM RoleIdsDistinctAlways == Spec => []RoleIdsDistinct
<1>1. Init => RoleIdInv
  BY DEF Init, RoleIdInv, HoldsId, Idle, Holding
<1>2. TypeInv /\ RoleIdInv /\ [Next]_vars => RoleIdInv'
  <2> SUFFICES ASSUME TypeInv, RoleIdInv, [Next]_vars PROVE RoleIdInv'
    OBVIOUS
  <2>1. ASSUME NEW p \in Procs, NEW n0 \in Names, NEW st \in SecretTtls,
               NEW tt \in TokenTtls, NEW b \in BOOLEAN,
               approle_create_role(p, n0, st, tt, b)
        PROVE  RoleIdInv'
    <3>1. PICK id0 \in RoleIds :
            /\ IF role[n0] # None
               THEN id0 = role[n0].role_id /\ UNCHANGED drawn
               ELSE id0 \notin drawn /\ drawn' = drawn \cup {id0}
            /\ Continue(p, Holding("create_role", n0,
                 [role_id |-> id0, secret_id_ttl |-> st, token_ttl |-> tt,
                  bind_secret_id |-> b], None, None, None))
      BY <2>1 DEF approle_create_role
    <3>2. /\ call'[p].name = n0 /\ call'[p].role.role_id = id0
          /\ \A q \in Procs : q # p => call'[q] = call[q]
      BY <3>1 DEF Continue, Holding, TypeInv, TypeOK
    <3>3. role' = role /\ drawn \subseteq drawn'
      BY <2>1, <3>1 DEF approle_create_role
    <3>4. ASSUME NEW n \in Names, NEW id \in RoleIds, HoldsId(n, id)'
          PROVE  HoldsId(n, id) \/ (n = n0 /\ id = id0)
      BY <3>2, <3>3, <3>4 DEF HoldsId
    <3>5. HoldsId(n0, id0) \/ (id0 \notin drawn /\ id0 \in drawn')
      BY <3>1 DEF HoldsId
    <3> QED
      BY <3>3, <3>4, <3>5, IdsKept
  <2>2. ASSUME NEW p \in Procs, create_approle(p)
        PROVE  RoleIdInv'
    <3>1. /\ call[p].pc = "create_role" /\ call[p].name \in Names
          /\ drawn' = drawn /\ role' = [role EXCEPT ![call[p].name] = call[p].role]
      BY <2>2 DEF create_approle, TypeInv, CallOK
    <3>2. \A q \in Procs : call'[q] = call[q] \/ call'[q].pc = "idle"
      BY <2>2 DEF create_approle, Finish, Continue, Idle, Holding, TypeInv, TypeOK
    <3>3. \A n \in Names : role'[n] = role[n] \/ (n = call[p].name /\ role'[n] = call[p].role)
      BY <3>1 DEF TypeInv, TypeOK
    <3>4. \A n \in Names, id \in RoleIds : HoldsId(n, id)' => HoldsId(n, id)
      BY <3>1, <3>2, <3>3 DEF HoldsId
    <3> QED
      BY <3>1, <3>4 DEF RoleIdInv
  <2>3. ASSUME NEW p \in Procs, Handle(p), ~create_approle(p),
               ~ \E n \in Names, st \in SecretTtls, tt \in TokenTtls, b \in BOOLEAN :
                   approle_create_role(p, n, st, tt, b)
        PROVE  RoleIdInv'
    <3>1. role' = role /\ drawn \subseteq drawn'
      BY <2>3
      DEF Handle, approle_generate_secret_id, create_secret_id, approle_login,
          consume_secret_id, issue_app_token, AppTokenExtract, renew_app_token,
          revoke_app_token, abandon
    <3>2. \E c : Continue(p, c) /\ c.pc # "create_role"
      <4>1. Finish(p) => \E c : Continue(p, c) /\ c.pc # "create_role"
        BY DEF Finish, Idle, Holding
      <4>2. CASE create_secret_id(p) \/ issue_app_token(p) \/ renew_app_token(p)
                 \/ revoke_app_token(p) \/ abandon(p)
        BY <4>1, <4>2
        DEF create_secret_id, issue_app_token, renew_app_token, revoke_app_token, abandon
      <4>3. CASE consume_secret_id(p)
        BY <4>1, <4>3 DEF consume_secret_id, Holding
      <4>4. ASSUME NEW n \in Names, NEW x \in SecretIds \cup {None}, approle_login(p, n, x)
            PROVE  \E c : Continue(p, c) /\ c.pc # "create_role"
        BY <4>4 DEF approle_login, Holding
      <4>5. ASSUME NEW n \in Names, NEW ttl \in SecretTtls, NEW u \in NumUses,
                   approle_generate_secret_id(p, n, ttl, u)
            PROVE  \E c : Continue(p, c) /\ c.pc # "create_role"
        BY <4>5 DEF approle_generate_secret_id, Holding
      <4>6. ASSUME NEW k \in Tokens, NEW op \in {"renew", "revoke"}, AppTokenExtract(p, k, op)
            PROVE  \E c : Continue(p, c) /\ c.pc # "create_role"
        BY <4>6 DEF AppTokenExtract, Holding
      <4> QED
        BY <2>3, <4>2, <4>3, <4>4, <4>5, <4>6 DEF Handle
    <3>3. \A q \in Procs : call'[q] = call[q] \/ call'[q].pc # "create_role"
      BY <3>2 DEF Continue, TypeInv, TypeOK
    <3> QED
      BY <3>1, <3>3, IdsFrame
  <2>4. ASSUME \/ \E n \in Names : delete_approle(n)
               \/ \E n \in Names, x \in SecretIds : destroy_secret_id(n, x)
               \/ Tick
               \/ UNCHANGED vars
        PROVE  RoleIdInv'
    <3>1. /\ drawn \subseteq drawn' /\ call' = call
          /\ \A n \in Names : role'[n] = role[n] \/ role'[n] = None
      BY <2>4 DEF delete_approle, destroy_secret_id, Tick, vars, TypeInv, TypeOK
    <3> QED
      BY <3>1, IdsFrame
  <2> QED
    BY <2>1, <2>2, <2>3, <2>4 DEF Next, Handle
<1>3. TypeInv /\ RoleIdInv => RoleIdsDistinct
  <2> SUFFICES ASSUME TypeInv, RoleIdInv, NEW n \in Names, NEW m \in Names,
                      role[n] # None, role[m] # None, role[n].role_id = role[m].role_id
               PROVE  n = m
    BY DEF RoleIdsDistinct
  <2>1. role[n].role_id \in RoleIds
    BY DEF TypeInv, TypeOK, Role
  <2> QED
    BY <2>1 DEF RoleIdInv, HoldsId
<1> QED
  BY <1>1, <1>2, <1>3, AppTypeCorrect, PTL DEF Spec

-----------------------------------------------------------------------------
(***************************************************************************)
(* The Kubernetes method.  What a login rests on was read, not cached: its *)
(* role row and its key set enter the history `held` in the step that      *)
(* reads them, and `held` only grows while the login lasts.  Founded says  *)
(* so for each point of k8s_login.                                         *)
(***************************************************************************)

\* A stored row's list of names or namespaces is never empty (OrAny).
LEMMA OrAnyType ==
  ASSUME NEW S, NEW list \in SUBSET (S \cup {Any})
  PROVE  OrAny(list) \in (SUBSET (S \cup {Any})) \ {{}}
BY DEF OrAny

\* A body that passes the checks of k8s_create_role makes a well-formed row.
LEMMA RoleOfType ==
  ASSUME NEW q \in Requests, q.jwks_url \in HttpsUrls, q.jwks_url \notin PrivateUrls,
         q.token_ttl >= 0
  PROVE  RoleOf(q) \in K8sRole
<1>1. q \in K8sRoleRequest
  BY K8sDataAssumption
<1>2. /\ q.names \in SUBSET (Accounts \cup {Any})
      /\ q.namespaces \in SUBSET (Namespaces \cup {Any})
      /\ q.token_ttl \in Nat /\ q.jwks_url \in Allowed
      /\ q.issuer \in Issuers \cup {None} /\ q.audiences \in SUBSET Audiences
  BY <1>1 DEF K8sRoleRequest, Allowed
<1>3. /\ OrAny(q.names) \in (SUBSET (Accounts \cup {Any})) \ {{}}
      /\ OrAny(q.namespaces) \in (SUBSET (Namespaces \cup {Any})) \ {{}}
  BY <1>2, OrAnyType
<1> QED
  BY <1>2, <1>3 DEF RoleOf, K8sRole

\* The row of a token for an admitted account is well typed.
LEMMA TokenForType ==
  ASSUME NEW r \in K8sRole, NEW j \in Jwts, NEW t \in Nat, Admits(r, j)
  PROVE  TokenFor(r, j, t) \in AppToken
<1>1. j.sub \in Namespaces \X Accounts
  BY K8sDataAssumption DEF Admits, Jwt
<1>2. r.token_ttl \in Nat
  BY DEF K8sRole
<1> QED
  BY <1>1, <1>2, ExpiryType DEF TokenFor, AppToken

\* The keys a signature is tried with were downloaded (validate_k8s_jwt).
LEMMA CandidatesServed ==
  ASSUME NEW j, NEW keys
  PROVE  Candidates(j, keys) \subseteq keys
BY DEF Candidates

\* The logins stay well typed when one of them moves on.
LEMMA ProceedOK ==
  ASSUME K8sTypeOK, NEW p \in Procs, NEW c \in K8sCall \cup {None}, Proceed(p, c)
  PROVE  login' \in [Procs -> K8sCall \cup {None}]
BY DEF K8sTypeOK, Proceed

\* Every step of a login keeps the logins and the table app_tokens well typed.
LEMMA K8sLoginTypes ==
  ASSUME K8sTypeOK, NEW p \in Procs, Login(p)
  PROVE  /\ login' \in [Procs -> K8sCall \cup {None}]
         /\ app_token' \in [Tokens -> AppToken \cup {None}]
         /\ UNCHANGED <<now, k8s_role, published, changes>>
<1>1. login[p] # None => login[p] \in K8sCall
  BY DEF K8sTypeOK
<1>2. ASSUME NEW n \in Names, NEW j \in Jwts, k8s_login(p, n, j)
      PROVE  login' \in [Procs -> K8sCall \cup {None}]
  <2>1. (IF get_k8s_role(n) = None THEN None
         ELSE [pc |-> "fetch", name |-> n, role |-> get_k8s_role(n), jwt |-> j,
               keys |-> {}, row |-> None]) \in K8sCall \cup {None}
    BY DEF K8sTypeOK, K8sCall, get_k8s_role
  <2> QED
    BY <1>2, <2>1, ProceedOK DEF k8s_login
<1>3. ASSUME fetch_jwks(p)
      PROVE  login' \in [Procs -> K8sCall \cup {None}]
  <2>1. login[p] \in K8sCall
    BY <1>1, <1>3 DEF fetch_jwks
  <2>2. published[login[p].role.jwks_url] \in SUBSET Keys
    BY <2>1 DEF K8sTypeOK, K8sCall, K8sRole
  <2>3. [login[p] EXCEPT !.pc = "validate", !.keys = published[login[p].role.jwks_url]]
          \in K8sCall
    BY <2>1, <2>2 DEF K8sCall
  <2> QED
    BY <1>3, <2>3, ProceedOK DEF fetch_jwks
<1>4. ASSUME decide(p)
      PROVE  login' \in [Procs -> K8sCall \cup {None}]
  <2>1. login[p] \in K8sCall
    BY <1>1, <1>4 DEF decide
  <2>2. login[p].role \in K8sRole /\ login[p].jwt \in Jwts /\ now \in Nat
    BY <2>1 DEF K8sCall, K8sTypeOK
  <2>3. Admits(login[p].role, login[p].jwt) =>
          TokenFor(login[p].role, login[p].jwt, now) \in AppToken
    BY <2>2, TokenForType
  <2>4. Admits(login[p].role, login[p].jwt) =>
          [login[p] EXCEPT !.pc = "issue",
                           !.row = TokenFor(login[p].role, login[p].jwt, now)] \in K8sCall
    BY <2>1, <2>3 DEF K8sCall
  <2> QED
    BY <1>4, <2>4, ProceedOK DEF decide
<1>5. k8s_issue(p) \/ k8s_abandon(p) => login' \in [Procs -> K8sCall \cup {None}]
  BY ProceedOK DEF k8s_issue, k8s_abandon
<1>6. k8s_issue(p) => app_token' \in [Tokens -> AppToken \cup {None}]
  BY <1>1 DEF k8s_issue, K8sCall, K8sTypeOK
<1> QED
  BY <1>2, <1>3, <1>4, <1>5, <1>6
     DEF Login, k8s_login, fetch_jwks, decide, k8s_issue, k8s_abandon, Reads, K8sTypeOK

\* The tables keep their types under every change of a role or of a key set.
LEMMA K8sChangeTypes ==
  ASSUME K8sTypeOK,
         \/ \E n \in Names, q \in Requests : k8s_create_role(n, q)
         \/ \E n \in Names : k8s_delete_role(n)
         \/ \E u \in Allowed, keys \in SUBSET Keys : rotate(u, keys)
         \/ K8sTick
  PROVE  /\ now' \in Nat /\ changes' \in Nat
         /\ k8s_role' \in [Names -> K8sRole \cup {None}]
         /\ published' \in [Allowed -> SUBSET Keys]
         /\ UNCHANGED <<app_token, login>>
<1>1. ASSUME NEW n \in Names, NEW q \in Requests, k8s_create_role(n, q)
      PROVE  /\ k8s_role' \in [Names -> K8sRole \cup {None}]
             /\ published' = published /\ Change
  <2>1. RoleOf(q) \in K8sRole
    BY <1>1, RoleOfType DEF k8s_create_role
  <2> QED
    BY <1>1, <2>1 DEF k8s_create_role, K8sTypeOK
<1>2. ASSUME NEW n \in Names, k8s_delete_role(n)
      PROVE  /\ k8s_role' \in [Names -> K8sRole \cup {None}]
             /\ published' = published /\ Change
  BY <1>2 DEF k8s_delete_role, K8sTypeOK
<1>3. ASSUME NEW u \in Allowed, NEW keys \in SUBSET Keys, rotate(u, keys)
      PROVE  /\ published' \in [Allowed -> SUBSET Keys]
             /\ k8s_role' = k8s_role /\ Change
  BY <1>3 DEF rotate, K8sTypeOK
<1>4. Change => now' \in Nat /\ changes' \in Nat /\ UNCHANGED <<app_token, login>>
  BY DEF Change, K8sTypeOK
<1>5. CASE K8sTick
  BY <1>5 DEF K8sTick, K8sTypeOK
<1> QED
  BY <1>1, <1>2, <1>3, <1>4, <1>5 DEF K8sTypeOK

\* What a login's history holds are rows of the table and keys of a cluster.
LEMMA ObserveType ==
  ASSUME K8sTypeOK, Observe, login' \in [Procs -> K8sCall \cup {None}]
  PROVE  held' \in [Procs -> Held]
<1> SUFFICES ASSUME NEW p \in Procs
             PROVE  (IF login'[p] = None THEN Nothing
                     ELSE IF login[p] = None
                          THEN [roles |-> {k8s_role[login'[p].name]}, keys |-> {}]
                          ELSE HeldNow(p, login[p])) \in Held
  BY DEF Observe
<1>1. Nothing \in Held
  BY DEF Nothing, Held
<1>2. ASSUME login'[p] # None
      PROVE  [roles |-> {k8s_role[login'[p].name]}, keys |-> {}] \in Held
  <2>1. login'[p].name \in Names
    BY <1>2 DEF K8sCall
  <2> QED
    BY <2>1 DEF Held, K8sTypeOK
<1>3. ASSUME login[p] # None
      PROVE  HeldNow(p, login[p]) \in Held
  <2>1. login[p].name \in Names /\ login[p].role.jwks_url \in Allowed
    BY <1>3 DEF K8sTypeOK, K8sCall, K8sRole
  <2>2. held[p].roles \subseteq K8sRole \cup {None} /\ held[p].keys \subseteq Keys
    BY DEF K8sTypeOK, Held
  <2> QED
    BY <2>1, <2>2 DEF HeldNow, Held, K8sTypeOK
<1> QED
  BY <1>1, <1>2, <1>3

\* The tables, the key sets and every Kubernetes login keep their types, for all
\* sets of roles, keys, JWTs and concurrent logins (kubernetes.rs).
THEOREM K8sTypeCorrect == K8sSpec => []K8sTypeOK
<1>1. K8sInit => K8sTypeOK
  BY DEF K8sInit, K8sTypeOK, Nothing, Held
<1>2. K8sTypeOK /\ [K8sNext]_k8sVars => K8sTypeOK'
  <2> SUFFICES ASSUME K8sTypeOK, [K8sNext]_k8sVars PROVE K8sTypeOK'
    OBVIOUS
  <2>1. CASE UNCHANGED k8sVars
    BY <2>1 DEF k8sVars, K8sTypeOK
  <2>2. CASE K8sNext
    <3>1. CASE \E p \in Procs : Login(p)
      BY <2>2, <3>1, K8sLoginTypes, ObserveType DEF K8sNext, K8sTypeOK
    <3>2. CASE ~ \E p \in Procs : Login(p)
      <4>1. /\ now' \in Nat /\ changes' \in Nat
            /\ k8s_role' \in [Names -> K8sRole \cup {None}]
            /\ published' \in [Allowed -> SUBSET Keys]
            /\ UNCHANGED <<app_token, login>>
        BY <2>2, <3>2, K8sChangeTypes DEF K8sNext
      <4>2. held' \in [Procs -> Held]
        BY <2>2, <4>1, ObserveType DEF K8sNext, K8sTypeOK
      <4> QED
        BY <4>1, <4>2 DEF K8sTypeOK
    <3> QED
      BY <3>1, <3>2
  <2> QED
    BY <2>1, <2>2
<1> QED
  BY <1>1, <1>2, PTL DEF K8sSpec

-----------------------------------------------------------------------------
\* What a login rests on at each point of k8s_login: the row it decides by was
\* stored, and the keys it tries were served, during the login; once decided,
\* the row admits the JWT, one of those keys signed it, and the token to store
\* has the terms of that row.
Founded(c, h) ==
  /\ c.role \in h.roles
  /\ c.pc = "validate" => c.keys \subseteq h.keys
  /\ c.pc = "issue" =>
       /\ Admits(c.role, c.jwt) /\ Bound(c.jwt, c.role)
       /\ c.jwt.key \in h.keys
       /\ c.row \in AppToken
       /\ c.row.entity = c.jwt.sub /\ c.row.lease = c.role.token_ttl
       /\ c.row.expiry = 0 <=> c.row.lease = 0

LoginsFounded == \A p \in Procs : login[p] # None => Founded(login[p], held[p])

\* History only grows while a login lasts, so what was established stays so.
LEMMA FoundedKept ==
  ASSUME K8sTypeOK, LoginsFounded, Observe, NEW p \in Procs, login[p] # None,
         login'[p] = login[p]
  PROVE  Founded(login'[p], held'[p])
<1>1. held'[p] = HeldNow(p, login[p])
  BY DEF Observe
<1>2. held[p].roles \subseteq held'[p].roles /\ held[p].keys \subseteq held'[p].keys
  BY <1>1 DEF HeldNow
<1> QED
  BY <1>2 DEF LoginsFounded, Founded

\* A login begins with the row that is stored when it begins (k8s_login).
LEMMA BeginFounded ==
  ASSUME K8sTypeOK, Observe, NEW p \in Procs, NEW n \in Names, NEW j \in Jwts,
         k8s_login(p, n, j), login'[p] # None
  PROVE  Founded(login'[p], held'[p])
<1>1. login[p] = None
  BY DEF k8s_login
<1>2. login'[p] = [pc |-> "fetch", name |-> n, role |-> k8s_role[n], jwt |-> j,
                   keys |-> {}, row |-> None]
  BY DEF k8s_login, Proceed, get_k8s_role, K8sTypeOK
<1>3. held'[p] = [roles |-> {k8s_role[login'[p].name]}, keys |-> {}]
  BY <1>1 DEF Observe
<1> QED
  BY <1>2, <1>3 DEF Founded

\* The keys a login downloads are those its URL serves at that moment
\* (fetch_jwks).
LEMMA FetchFounded ==
  ASSUME K8sTypeOK, LoginsFounded, Observe, NEW p \in Procs, fetch_jwks(p)
  PROVE  Founded(login'[p], held'[p])
<1>1. login[p] \in K8sCall /\ login[p] # None
  BY DEF fetch_jwks, K8sTypeOK
<1>2. login'[p] = [login[p] EXCEPT !.pc = "validate",
                                   !.keys = published[login[p].role.jwks_url]]
  BY DEF fetch_jwks, Proceed, K8sTypeOK
<1>3. /\ login'[p].pc = "validate" /\ login'[p].role = login[p].role
      /\ login'[p].keys = published[login[p].role.jwks_url]
  BY <1>1, <1>2 DEF K8sCall
<1>4. login'[p] # None
  <2>1. published[login[p].role.jwks_url] \in SUBSET Keys
    BY <1>1 DEF K8sTypeOK, K8sCall, K8sRole
  <2>2. login'[p] \in K8sCall
    BY <1>1, <1>2, <2>1 DEF K8sCall
  <2> QED
    BY <2>2, K8sNoneAssumption DEF K8sCall
<1>5. held'[p] = HeldNow(p, login[p])
  BY <1>1, <1>4 DEF Observe
<1>6. login[p].role \in held[p].roles
  BY <1>1 DEF LoginsFounded, Founded
<1> QED
  BY <1>3, <1>5, <1>6 DEF HeldNow, Founded

\* A login that passes decide has an admitted JWT, signed with a key that was
\* downloaded, and a row on the terms of its role (validate_k8s_jwt, TokenFor).
LEMMA DecideFounded ==
  ASSUME K8sTypeOK, LoginsFounded, Observe, NEW p \in Procs, decide(p), login'[p] # None
  PROVE  Founded(login'[p], held'[p])
<1> DEFINE c == login[p]
           row == TokenFor(c.role, c.jwt, now)
<1>1. c \in K8sCall /\ c # None /\ c.pc = "validate"
  BY DEF decide, K8sTypeOK
<1>2. /\ validate_k8s_jwt(c.jwt, c.keys, c.role, now) /\ Admits(c.role, c.jwt)
      /\ login'[p] = [c EXCEPT !.pc = "issue", !.row = row]
  BY DEF decide, Proceed, K8sTypeOK
<1>3. c.role \in K8sRole /\ c.jwt \in Jwts /\ now \in Nat
  BY <1>1 DEF K8sCall, K8sTypeOK
<1>4. row \in AppToken
  BY <1>2, <1>3, TokenForType
<1>5. row.entity = c.jwt.sub /\ row.lease = c.role.token_ttl
        /\ row.expiry = ExpiryAt(now, c.role.token_ttl)
  BY DEF TokenFor
<1>6. row.expiry = 0 <=> row.lease = 0
  BY <1>3, <1>5, ExpiryType DEF K8sRole
<1>7. /\ login'[p].pc = "issue" /\ login'[p].role = c.role
      /\ login'[p].jwt = c.jwt /\ login'[p].row = row
  BY <1>1, <1>2 DEF K8sCall
<1>8. c.role \in held[p].roles /\ c.jwt.key \in held[p].keys
  BY <1>1, <1>2, CandidatesServed DEF LoginsFounded, Founded, validate_k8s_jwt
<1>9. held'[p] = HeldNow(p, c)
  BY <1>1 DEF Observe
<1>10. c.role \in held'[p].roles /\ c.jwt.key \in held'[p].keys
  BY <1>8, <1>9 DEF HeldNow
<1>11. Bound(c.jwt, c.role)
  BY <1>2 DEF validate_k8s_jwt
<1> HIDE DEF row, c
<1> QED
  BY <1>2, <1>4, <1>5, <1>6, <1>7, <1>10, <1>11 DEF Founded

\* At every point of every login, what the login rests on held at a moment of
\* that login (k8s_login, fetch_jwks, decide): the inductive invariant behind
\* the two theorems below.
THEOREM FoundedInvariance == K8sSpec => []LoginsFounded
<1>1. K8sInit => LoginsFounded
  BY DEF K8sInit, LoginsFounded
<1>2. K8sTypeOK /\ LoginsFounded /\ [K8sNext]_k8sVars => LoginsFounded'
  <2> SUFFICES ASSUME K8sTypeOK, LoginsFounded, [K8sNext]_k8sVars,
                      NEW p \in Procs, login'[p] # None
               PROVE  Founded(login'[p], held'[p])
    BY DEF LoginsFounded
  <2>1. CASE UNCHANGED k8sVars
    BY <2>1 DEF k8sVars, LoginsFounded
  <2>2. CASE K8sNext
    <3>1. Observe
      BY <2>2 DEF K8sNext
    <3>2. CASE ~ \E q \in Procs : Login(q)
      <4>1. login' = login
        BY <2>2, <3>2, K8sChangeTypes DEF K8sNext
      <4> QED
        BY <3>1, <4>1, FoundedKept
    <3>3. CASE \E q \in Procs : Login(q)
      <4>1. PICK q \in Procs : Login(q)
        BY <3>3
      <4>2. CASE p # q
        <5>1. \E d : Proceed(q, d)
          BY <4>1 DEF Login, k8s_login, fetch_jwks, decide, k8s_issue, k8s_abandon
        <5>2. login'[p] = login[p]
          BY <4>2, <5>1 DEF Proceed, K8sTypeOK
        <5> QED
          BY <3>1, <5>2, FoundedKept
      <4>3. CASE p = q
        <5>1. ~ k8s_issue(p) /\ ~ k8s_abandon(p)
          BY DEF k8s_issue, k8s_abandon, Proceed, K8sTypeOK
        <5> QED
          BY <3>1, <4>1, <4>3, <5>1, BeginFounded, FetchFounded, DecideFounded DEF Login
      <4> QED
        BY <4>2, <4>3
    <3> QED
      BY <3>2, <3>3
  <2> QED
    BY <2>1, <2>2
<1> QED
  BY <1>1, <1>2, K8sTypeCorrect, PTL DEF K8sSpec

\* The row a token gets is the one its own login has decided on: no other step
\* stores a token (k8s_issue).
LEMMA IssuedRow ==
  ASSUME K8sTypeOK, [K8sNext]_k8sVars, NEW p \in Procs, NEW k \in Tokens, Issued(p, k)
  PROVE  app_token'[k] = login[p].row
<1>1. app_token' # app_token /\ login'[p] # login[p]
  BY DEF Issued
<1>2. K8sNext
  BY <1>1 DEF k8sVars
<1>3. PICK q \in Procs : k8s_issue(q)
  BY <1>1, <1>2, K8sChangeTypes
     DEF K8sNext, Login, k8s_login, fetch_jwks, decide, k8s_abandon, Reads
<1>4. p = q
  BY <1>1, <1>3 DEF k8s_issue, Proceed, K8sTypeOK
<1> QED
  BY <1>3, <1>4 DEF k8s_issue, Issued, K8sTypeOK

\* Whatever replaces or deletes the role while a login waits for the key
\* download, its token is issued on the terms of one version of the role.
THEOREM GrantOfOneRoleAlways == K8sSpec => GrantOfOneRole
<1>1. ASSUME K8sTypeOK, LoginsFounded, [K8sNext]_k8sVars
      PROVE  \A p \in Procs, k \in Tokens : Issued(p, k) =>
               \E r \in held[p].roles \ {None} :
                 /\ Admits(r, login[p].jwt) /\ Bound(login[p].jwt, r)
                 /\ r.token_ttl = app_token'[k].lease
                 /\ app_token'[k].entity = login[p].jwt.sub
  <2> TAKE p \in Procs, k \in Tokens
  <2> HAVE Issued(p, k)
  <2>1. login[p] # None /\ login[p].pc = "issue" /\ login[p] \in K8sCall
    BY <1>1 DEF Issued, K8sTypeOK
  <2>2. Founded(login[p], held[p])
    BY <1>1, <2>1 DEF LoginsFounded
  <2>3. login[p].role \in held[p].roles \ {None}
    BY <2>1, <2>2, K8sNoneAssumption DEF Founded, K8sCall
  <2>4. app_token'[k] = login[p].row
    BY <1>1, IssuedRow
  <2> WITNESS login[p].role \in held[p].roles \ {None}
  <2> QED
    BY <2>1, <2>2, <2>4 DEF Founded
<1> QED
  BY <1>1, K8sTypeCorrect, FoundedInvariance, PTL DEF K8sSpec, GrantOfOneRole

\* No login accepts a key that its role's URL did not serve during the login:
\* a key withdrawn before the login began is refused.
THEOREM KeyServedAlways == K8sSpec => KeyServedDuringLogin
<1>1. LoginsFounded =>
        \A p \in Procs, k \in Tokens : Issued(p, k) => login[p].jwt.key \in held[p].keys
  BY DEF LoginsFounded, Founded, Issued
<1> QED
  BY <1>1, FoundedInvariance, PTL DEF KeyServedDuringLogin

\* A stored Kubernetes token is non-expiring exactly when its lease is zero.
K8sRowsSound ==
  \A k \in Tokens : app_token[k] # None =>
    (app_token[k].expiry = 0 <=> app_token[k].lease = 0)

\* The rows the Kubernetes method stores have the form that NonExpiringStays
\* asks of a token: renewals, which AppAuth follows, find what they expect
\* (TokenFor, k8s_issue).
THEOREM K8sRowsSoundAlways == K8sSpec => []K8sRowsSound
<1>1. K8sInit => K8sRowsSound
  BY DEF K8sInit, K8sRowsSound
<1>2. K8sTypeOK /\ LoginsFounded /\ K8sRowsSound /\ [K8sNext]_k8sVars => K8sRowsSound'
  <2> SUFFICES ASSUME K8sTypeOK, LoginsFounded, K8sRowsSound, [K8sNext]_k8sVars
               PROVE  K8sRowsSound'
    OBVIOUS
  <2>1. CASE app_token' = app_token
    BY <2>1 DEF K8sRowsSound
  <2>2. CASE app_token' # app_token
    <3>1. K8sNext
      BY <2>2 DEF k8sVars
    <3>2. PICK p \in Procs : k8s_issue(p)
      BY <2>2, <3>1, K8sChangeTypes
         DEF K8sNext, Login, k8s_login, fetch_jwks, decide, k8s_abandon, Reads
    <3>3. /\ login[p].row.expiry = 0 <=> login[p].row.lease = 0
          /\ \A k \in Tokens : app_token'[k] = app_token[k] \/ app_token'[k] = login[p].row
      BY <3>2 DEF k8s_issue, LoginsFounded, Founded, K8sTypeOK
    <3> QED
      BY <3>3 DEF K8sRowsSound
  <2> QED
    BY <2>1, <2>2
<1> QED
  BY <1>1, <1>2, K8sTypeCorrect, FoundedInvariance, PTL DEF K8sSpec
=============================================================================
