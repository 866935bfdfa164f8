--------------------------- MODULE SamlLoginProofs ---------------------------
(***************************************************************************)
(* Proofs about SamlLogin: a request leads to at most one session, an      *)
(* assertion is used at most once in a realm, and a used assertion is      *)
(* remembered while it is still acceptable, for all sets of requests,      *)
(* assertions and processes and for all delays.                            *)
(***************************************************************************)
EXTENDS SamlRealm, TLAPS

\* Whole seconds are natural numbers, and a second that has ended lies before
\* every instant of a later one: what makes rounding up enough in KeptUntil.
LEMMA Seconds ==
  ASSUME NEW t \in Nat, NEW u \in Nat
  PROVE  /\ Sec(t) \in Nat
         /\ Sec(u) + 1 <= Sec(t) => u < t
  BY DEF Sec

-----------------------------------------------------------------------------
\* A response that is being consumed carries an assertion a provider signed:
\* without this, the expiry recorded for it would not be known to be a number.
HeldIssued ==
  \A p \in Procs : call[p] # None => issued[call[p].assertion] # None

TypeInv == TypeOK /\ HeldIssued

\* Every statement of every handler keeps the types.
LEMMA TypeStep == TypeInv /\ [Next]_vars => TypeInv'
<1>1. TypeInv /\ [Next]_vars => TypeOK'
  <2> SUFFICES ASSUME TypeInv, [Next]_vars
               PROVE  TypeOK'
    OBVIOUS
  <2> USE SamlAssumption DEF TypeOK, TypeInv
  <2>1. ASSUME NEW q \in Requests, NEW r \in Realms, saml_login(q, r)
        PROVE  TypeOK'
    <3>1. PICK t \in 0..now : pending' = [pending EXCEPT ![q] =
                    [realm |-> r, expires_at |-> Sec(t) + PendingSecs]]
      BY <2>1 DEF saml_login
    <3>2. Sec(t) + PendingSecs \in Nat
      BY Seconds
    <3>3. [realm |-> r, expires_at |-> Sec(t) + PendingSecs] \in Pending
      BY <3>2 DEF Pending
    <3> QED
      BY <2>1, <3>1, <3>3 DEF saml_login
  <2>2. ASSUME NEW a \in Assertions, NEW q \in Requests, issue(a, q)
        PROVE  TypeOK'
    BY <2>2 DEF issue, Issued
  <2>3. ASSUME NEW p \in Procs, NEW q \in Requests, NEW r \in Realms,
               NEW a \in Assertions, take_pending_request(p, q, r, a)
        PROVE  TypeOK'
    BY <2>3 DEF take_pending_request, Taken, Call
  <2>4. ASSUME NEW p \in Procs, validate_saml_response(p)
        PROVE  TypeOK'
    <3>1. call[p] \in Call
      BY <2>4 DEF validate_saml_response
    <3>2. [pc |-> "record", req |-> call[p].req, realm |-> call[p].realm,
           assertion |-> call[p].assertion] \in Call
      BY <3>1 DEF Call
    <3> QED
      BY <2>4, <3>2 DEF validate_saml_response
  <2>5. ASSUME NEW p \in Procs, record_assertion_id(p)
        PROVE  TypeOK'
    <3>1. call[p] \in Call
      BY <2>5 DEF record_assertion_id
    <3>2. [pc |-> "session", req |-> call[p].req, realm |-> call[p].realm,
           assertion |-> call[p].assertion] \in Call
      BY <3>1 DEF Call
    <3>3. call' \in [Procs -> Call \cup {None}]
      BY <2>5, <3>2 DEF record_assertion_id
    <3>4. seen' \in [Realms \X Assertions -> Nat \cup {None}]
      <4>1. CASE seen' = seen
        BY <4>1
      <4>2. CASE seen' # seen
        <5>1. call[p].realm \in Realms /\ call[p].assertion \in Assertions
          BY <3>1 DEF Call
        <5>2. issued[call[p].assertion] \in Issued
          BY <2>5, <5>1 DEF HeldIssued, record_assertion_id
        <5>3. AcceptedUntil(call[p].assertion) \in Nat
          BY <5>2 DEF AcceptedUntil, Issued
        <5>4. KeptUntil(call[p].assertion) \in Nat
          BY <5>3, Seconds DEF KeptUntil
        <5> QED
          BY <2>5, <4>2, <5>1, <5>4 DEF record_assertion_id
      <4> QED
        BY <4>1, <4>2
    <3> QED
      BY <2>5, <3>3, <3>4 DEF record_assertion_id
  <2>6. ASSUME NEW p \in Procs, saml_acs(p) \/ abandon(p)
        PROVE  TypeOK'
    <3>1. CASE saml_acs(p)
      <4>1. call[p] \in Call
        BY <3>1 DEF saml_acs
      <4>2. /\ call[p].req \in Requests
            /\ <<call[p].realm, call[p].assertion>> \in Realms \X Assertions
        BY <4>1 DEF Call
      <4>3. sessions' \in [Requests -> Nat]
        BY <3>1, <4>2 DEF saml_acs
      <4>4. uses' \in [Realms \X Assertions -> Nat]
        <5>1. PICK x \in Realms \X Assertions : uses' = [uses EXCEPT ![x] = @ + 1]
          BY <3>1, <4>2 DEF saml_acs
        <5>2. uses[x] + 1 \in Nat
          OBVIOUS
        <5> QED
          BY <5>1, <5>2, Zenon
      <4> QED
        BY <3>1, <4>3, <4>4 DEF saml_acs
    <3>2. CASE abandon(p)
      BY <3>2 DEF abandon
    <3> QED
      BY <2>6, <3>1, <3>2
  <2>7. CASE \/ \E Q \in SUBSET Requests : purge_pending(Q, now)
             \/ \E X \in SUBSET (Realms \X Assertions) : purge_seen(X, now)
    BY <2>7 DEF purge_pending, purge_seen
  <2>8. CASE Tick \/ UNCHANGED vars
    BY <2>8 DEF Tick, vars
  <2> QED
    BY <2>1, <2>2, <2>3, <2>4, <2>5, <2>6, <2>7, <2>8 DEF Next, Handle
<1>2. TypeInv /\ [Next]_vars => HeldIssued'
  <2> SUFFICES ASSUME TypeInv, [Next]_vars, NEW p \in Procs, call'[p] # None
               PROVE  issued'[call'[p].assertion] # None
    BY DEF HeldIssued
  <2> USE SamlAssumption DEF TypeOK, TypeInv, HeldIssued
  <2>1. ASSUME NEW a \in Assertions, NEW q \in Requests, issue(a, q)
        PROVE  issued'[call'[p].assertion] # None
    BY <2>1 DEF issue, Issued, Call
  <2>2. ASSUME NEW o \in Procs, NEW q \in Requests, NEW r \in Realms,
               NEW a \in Assertions, take_pending_request(o, q, r, a)
        PROVE  issued'[call'[p].assertion] # None
    BY <2>2 DEF take_pending_request
  <2>3. ASSUME NEW o \in Procs, validate_saml_response(o)
        PROVE  issued'[call'[p].assertion] # None
    BY <2>3 DEF validate_saml_response
  <2>4. ASSUME NEW o \in Procs, record_assertion_id(o)
        PROVE  issued'[call'[p].assertion] # None
    BY <2>4 DEF record_assertion_id
  <2>5. ASSUME NEW o \in Procs, saml_acs(o) \/ abandon(o)
        PROVE  issued'[call'[p].assertion] # None
    BY <2>5 DEF saml_acs, abandon
  <2>6. ASSUME issued' = issued, call' = call
        PROVE  issued'[call'[p].assertion] # None
    BY <2>6
  <2> QED
    BY <2>1, <2>2, <2>3, <2>4, <2>5, <2>6
    DEF Next, Handle, saml_login, purge_pending, purge_seen, Tick, vars
<1> QED
  BY <1>1, <1>2 DEF TypeInv

\* Type correctness: the tables and the calls always hold rows of their types
\* (all handlers of saml/endpoints.rs and the statements they run).
THEOREM SamlTypeCorrect == Spec => []TypeInv
<1>1. Init => TypeInv
  BY DEF Init, TypeOK, TypeInv, HeldIssued
<1> QED
  BY <1>1, TypeStep, PTL DEF Spec

\* The tables of the SAML store and the responses being handled always have
\* their types (saml/endpoints.rs).
THEOREM SamlTypeOKAlways == Spec => []TypeOK
<1>1. TypeInv => TypeOK
  BY DEF TypeInv
<1> QED
  BY <1>1, SamlTypeCorrect, PTL

-----------------------------------------------------------------------------
\* The life of a request identifier: it is not generated, pending, held by one
\* process, or over, and only the last step of its holder counts a session.
OneHolder ==
  /\ \A q \in Requests : q \notin started => pending[q] = None /\ sessions[q] = 0
  /\ \A q \in Requests : pending[q] # None => sessions[q] = 0
  /\ \A p \in Procs : call[p] # None =>
       /\ call[p].req \in started
       /\ pending[call[p].req] = None
       /\ sessions[call[p].req] = 0
       /\ \A o \in Procs : call[o] # None /\ call[o].req = call[p].req => o = p

\* Past its validation, a process holds an assertion that answers its request.
BoundTo ==
  \A p \in Procs : (call[p] # None /\ call[p].pc # "validate") =>
    issued[call[p].assertion].req = call[p].req

\* Each use of an assertion is a session of the request it answers.
UsesCounted ==
  \A r \in Realms, a \in Assertions : uses[<<r, a>>] > 0 =>
    issued[a] # None /\ uses[<<r, a>>] <= sessions[issued[a].req]

OnceInv == OneHolder /\ BoundTo /\ UsesCounted /\ RequestOnce

\* Every step keeps the counting invariant.
LEMMA OnceStep == TypeInv /\ OnceInv /\ [Next]_vars => OnceInv'
<1> SUFFICES ASSUME TypeInv, OnceInv, [Next]_vars
             PROVE  OnceInv'
  OBVIOUS
<1> USE SamlAssumption DEF OnceInv, TypeInv, TypeOK, HeldIssued
<1>1. ASSUME NEW q \in Requests, NEW r \in Realms, saml_login(q, r)
      PROVE  OnceInv'
  BY <1>1 DEF saml_login, OneHolder, BoundTo, UsesCounted, RequestOnce, Call
<1>2. ASSUME NEW a \in Assertions, NEW q \in Requests, issue(a, q)
      PROVE  OnceInv'
  <2>1. OneHolder' /\ RequestOnce'
    BY <1>2 DEF issue, OneHolder, RequestOnce
  <2>2. BoundTo'
    BY <1>2 DEF issue, BoundTo, Call
  <2>3. UsesCounted'
    BY <1>2 DEF issue, UsesCounted
  <2> QED
    BY <2>1, <2>2, <2>3
<1>3. ASSUME NEW p \in Procs, NEW q \in Requests, NEW r \in Realms,
             NEW a \in Assertions, take_pending_request(p, q, r, a)
      PROVE  OnceInv'
  <2>1. /\ call' = [call EXCEPT ![p] = [pc |-> "validate", req |-> q,
                                        realm |-> r, assertion |-> a]]
        /\ pending[q] # None /\ pending' = [pending EXCEPT ![q] = None]
        /\ UNCHANGED <<issued, started, sessions, uses>>
    BY <1>3 DEF take_pending_request, Taken
  <2>2. q \in started /\ sessions[q] = 0
    BY <2>1 DEF OneHolder
  <2>3. OneHolder'
    BY <2>1, <2>2 DEF OneHolder, Call
  <2>4. BoundTo' /\ UsesCounted' /\ RequestOnce'
    BY <2>1 DEF BoundTo, UsesCounted, RequestOnce
  <2> QED
    BY <2>3, <2>4
<1>4. ASSUME NEW p \in Procs,
             validate_saml_response(p) \/ record_assertion_id(p) \/ abandon(p)
      PROVE  OnceInv'
  <2>1. UNCHANGED <<pending, issued, started, sessions, uses>>
    BY <1>4 DEF validate_saml_response, record_assertion_id, abandon
  <2>2. call[p] # None /\ \A o \in Procs : o # p => call'[o] = call[o]
    BY <1>4 DEF validate_saml_response, record_assertion_id, abandon
  <2>3. call'[p] # None =>
          /\ call'[p].req = call[p].req
          /\ call'[p].assertion = call[p].assertion
          /\ issued[call[p].assertion].req = call[p].req
    <3>1. CASE validate_saml_response(p)
      BY <3>1 DEF validate_saml_response, Valid
    <3>2. CASE record_assertion_id(p)
      BY <3>2 DEF record_assertion_id, BoundTo
    <3>3. CASE abandon(p)
      BY <3>3 DEF abandon
    <3> QED
      BY <1>4, <3>1, <3>2, <3>3
  <2>4. OneHolder'
    BY <2>1, <2>2, <2>3 DEF OneHolder
  <2>5. BoundTo'
    BY <2>1, <2>2, <2>3 DEF BoundTo
  <2>6. UsesCounted' /\ RequestOnce'
    BY <2>1 DEF UsesCounted, RequestOnce
  <2> QED
    BY <2>4, <2>5, <2>6
<1>5. ASSUME NEW p \in Procs, saml_acs(p)
      PROVE  OnceInv'
  <2>1. /\ call[p] # None
        /\ sessions' = [sessions EXCEPT ![call[p].req] = @ + 1]
        /\ call' = [call EXCEPT ![p] = None]
        /\ UNCHANGED <<pending, issued, started>>
    BY <1>5 DEF saml_acs
  <2>2. /\ call[p].req \in Requests /\ call[p].assertion \in Assertions
        /\ call[p].realm \in Realms
    BY <2>1 DEF Call
  <2>3. issued[call[p].assertion].req = call[p].req
    BY <1>5 DEF saml_acs, BoundTo
  <2>4. OneHolder' /\ RequestOnce' /\ BoundTo'
    BY <2>1, <2>2 DEF OneHolder, RequestOnce, BoundTo
  <2>5. UsesCounted'
    <3> SUFFICES ASSUME NEW r \in Realms, NEW a \in Assertions, uses'[<<r, a>>] > 0
                 PROVE  issued[a] # None /\ uses'[<<r, a>>] <= sessions'[issued[a].req]
      BY <2>1 DEF UsesCounted
    <3>1. \A q \in Requests : sessions'[q] >= sessions[q] /\ sessions'[q] \in Nat
      BY <2>1, <2>2
    <3>2. CASE r = call[p].realm /\ a = call[p].assertion
      <4>1. issued[a] # None
        BY <2>1, <3>2
      <4>2. sessions[issued[a].req] = 0 /\ sessions'[issued[a].req] = 1
        BY <2>1, <2>2, <2>3, <3>2 DEF OneHolder
      <4>3. <<r, a>> \in Realms \X Assertions /\ uses[<<r, a>>] \in Nat
        OBVIOUS
      <4>4. uses[<<r, a>>] = 0
        BY <4>2, <4>3 DEF UsesCounted
      <4>5. uses'[<<r, a>>] = uses[<<r, a>>] + 1
        BY <1>5, <3>2, <4>3 DEF saml_acs
      <4> QED
        BY <4>1, <4>2, <4>4, <4>5
    <3>3. CASE r # call[p].realm \/ a # call[p].assertion
      <4>1. uses'[<<r, a>>] = uses[<<r, a>>]
        BY <1>5, <3>3 DEF saml_acs
      <4>2. issued[a] # None /\ uses[<<r, a>>] <= sessions[issued[a].req]
        BY <4>1 DEF UsesCounted
      <4>3. issued[a].req \in Requests
        BY <4>2 DEF Issued
      <4>4. uses[<<r, a>>] \in Nat /\ sessions[issued[a].req] \in Nat
        BY <4>3
      <4> QED
        BY <3>1, <4>1, <4>2, <4>3, <4>4
    <3> QED
      BY <3>2, <3>3
  <2> QED
    BY <2>4, <2>5
<1>6. ASSUME NEW Q \in SUBSET Requests, purge_pending(Q, now)
      PROVE  OnceInv'
  BY <1>6 DEF purge_pending, OneHolder, BoundTo, UsesCounted, RequestOnce, Call
<1>7. CASE UNCHANGED <<pending, issued, call, started, sessions, uses>>
  BY <1>7 DEF OneHolder, BoundTo, UsesCounted, RequestOnce
<1> QED
  BY <1>1, <1>2, <1>3, <1>4, <1>5, <1>6, <1>7
  DEF Next, Handle, purge_seen, Tick, vars

\* The counting invariant holds in every reachable state.
LEMMA OnceInvariance == Spec => []OnceInv
<1>1. Init => OnceInv
  BY SamlAssumption DEF Init, OnceInv, OneHolder, BoundTo, UsesCounted, RequestOnce
<1> QED
  BY <1>1, OnceStep, SamlTypeCorrect, PTL DEF Spec

\* One login request leads to at most one session, however many responses are
\* posted for it at once (take_pending_request's DELETE ... RETURNING).
THEOREM RequestOnceAlways == Spec => []RequestOnce
<1>1. OnceInv => RequestOnce
  BY DEF OnceInv
<1> QED
  BY <1>1, OnceInvariance, PTL

\* An assertion is used at most once in a realm, even when its entry in the
\* replay cache was purged before a delayed INSERT (validate_saml_response,
\* take_pending_request).
THEOREM AssertionOnceAlways == Spec => []AssertionOnce
<1>1. TypeInv /\ OnceInv => AssertionOnce
  <2> SUFFICES ASSUME TypeInv, OnceInv, NEW r \in Realms, NEW a \in Assertions
               PROVE  uses[<<r, a>>] <= 1
    BY DEF AssertionOnce
  <2>1. uses[<<r, a>>] \in Nat
    BY DEF TypeInv, TypeOK
  <2>2. CASE uses[<<r, a>>] > 0
    <3>1. issued[a] \in Issued /\ uses[<<r, a>>] <= sessions[issued[a].req]
      BY <2>2 DEF OnceInv, UsesCounted, TypeInv, TypeOK
    <3>2. issued[a].req \in Requests
      BY <3>1 DEF Issued
    <3>3. sessions[issued[a].req] \in Nat /\ sessions[issued[a].req] <= 1
      BY <3>2 DEF OnceInv, RequestOnce, TypeInv, TypeOK
    <3> QED
      BY <2>1, <3>1, <3>3
  <2> QED
    BY <2>1, <2>2
<1> QED
  BY <1>1, OnceInvariance, SamlTypeCorrect, PTL

-----------------------------------------------------------------------------
\* The process p is about to store a session for assertion a in realm r.
Storing(p, r, a) ==
  /\ call[p] # None /\ call[p].pc = "session"
  /\ call[p].realm = r /\ call[p].assertion = a

\* The replay cache: an entry carries the rounded-up end of its assertion's
\* validity ...
EntryUntil ==
  \A r \in Realms, a \in Assertions :
    seen[<<r, a>>] # None => issued[a] # None /\ seen[<<r, a>>] = KeptUntil(a)

\* ... and an accepted assertion keeps its entry until it is too old.
EntryKept ==
  \A r \in Realms, a \in Assertions :
    (uses[<<r, a>>] > 0 \/ \E p \in Procs : Storing(p, r, a)) =>
      issued[a] # None /\ (seen[<<r, a>>] # None \/ AcceptedUntil(a) <= now)

\* What a step does to the issued assertions and the clock.
LEMMA IssuedStays ==
  ASSUME TypeInv, [Next]_vars, NEW a \in Assertions, issued[a] # None
  PROVE  issued'[a] = issued[a] /\ now <= now' /\ now' \in Nat
<1> USE DEF TypeInv, TypeOK
<1>1. ASSUME NEW b \in Assertions, NEW q \in Requests, issue(b, q)
      PROVE  issued'[a] = issued[a] /\ now <= now' /\ now' \in Nat
  BY <1>1 DEF issue
<1>2. ASSUME issued' = issued, now' = now \/ now' = now + 1
      PROVE  issued'[a] = issued[a] /\ now <= now' /\ now' \in Nat
  BY <1>2
<1> QED
  BY <1>1, <1>2
  DEF Next, Handle, saml_login, take_pending_request, validate_saml_response,
      record_assertion_id, saml_acs, abandon, purge_pending, purge_seen, Tick,
      vars

\* How a step may change an entry: a process records its assertion, or the
\* purge removes an entry whose second has come.
LEMMA EntrySteps ==
  ASSUME TypeInv, [Next]_vars, NEW r \in Realms, NEW a \in Assertions,
         seen'[<<r, a>>] # seen[<<r, a>>]
  PROVE  \/ /\ seen[<<r, a>>] = None
            /\ seen'[<<r, a>>] = KeptUntil(a) /\ issued[a] # None
         \/ /\ seen'[<<r, a>>] = None /\ seen[<<r, a>>] # None
            /\ seen[<<r, a>>] <= Sec(now)
<1> USE DEF TypeInv, TypeOK
<1>1. ASSUME NEW p \in Procs, record_assertion_id(p)
      PROVE  /\ seen[<<r, a>>] = None
             /\ seen'[<<r, a>>] = KeptUntil(a) /\ issued[a] # None
  <2>1. call[p] \in Call
    BY <1>1 DEF record_assertion_id
  <2>2. PICK x \in Realms \X Assertions :
          /\ x = <<call[p].realm, call[p].assertion>>
          /\ seen[x] = None
          /\ seen' = [seen EXCEPT ![x] = KeptUntil(call[p].assertion)]
    BY <1>1, <2>1 DEF record_assertion_id, Call
  <2>3. x = <<r, a>>
    BY <2>2
  <2>4. a = call[p].assertion
    BY <2>2, <2>3
  <2> QED
    BY <1>1, <2>2, <2>3, <2>4 DEF record_assertion_id, HeldIssued
<1>2. ASSUME NEW X \in SUBSET (Realms \X Assertions), purge_seen(X, now)
      PROVE  /\ seen'[<<r, a>>] = None /\ seen[<<r, a>>] # None
             /\ seen[<<r, a>>] <= Sec(now)
  BY <1>2 DEF purge_seen
<1>3. seen' # seen
  OBVIOUS
<1>4. CASE \E p \in Procs : record_assertion_id(p)
  BY <1>1, <1>4
<1>5. CASE \E X \in SUBSET (Realms \X Assertions) : purge_seen(X, now)
  BY <1>2, <1>5
<1> QED
  BY <1>3, <1>4, <1>5
  DEF Next, Handle, saml_login, issue, take_pending_request,
      validate_saml_response, saml_acs, abandon, purge_pending, Tick, vars

\* Every step keeps the first half of the cache invariant ...
LEMMA EntryUntilStep == TypeInv /\ EntryUntil /\ [Next]_vars => EntryUntil'
<1> SUFFICES ASSUME TypeInv, EntryUntil, [Next]_vars,
                    NEW r \in Realms, NEW a \in Assertions, seen'[<<r, a>>] # None
             PROVE  issued'[a] # None /\ seen'[<<r, a>>] = KeptUntil(a)'
  BY DEF EntryUntil
<1>1. issued[a] # None /\ seen'[<<r, a>>] = KeptUntil(a)
  BY EntrySteps DEF EntryUntil
<1>2. issued'[a] = issued[a]
  BY <1>1, IssuedStays
<1> QED
  BY <1>1, <1>2 DEF KeptUntil, AcceptedUntil, Sec

\* Whoever is accepted after a step was accepted before it, or has just been
\* recorded.
LEMMA AcceptedSteps ==
  ASSUME TypeInv, [Next]_vars, NEW r \in Realms, NEW a \in Assertions,
         uses'[<<r, a>>] > 0 \/ \E p \in Procs : Storing(p, r, a)'
  PROVE  \/ uses[<<r, a>>] > 0
         \/ \E p \in Procs : Storing(p, r, a)
         \/ seen'[<<r, a>>] # None /\ issued[a] # None
<1> USE SamlAssumption DEF TypeInv, TypeOK, Storing
<1> DEFINE Goal == \/ uses[<<r, a>>] > 0
                   \/ \E p \in Procs : Storing(p, r, a)
                   \/ seen'[<<r, a>>] # None /\ issued[a] # None
<1>1. ASSUME NEW o \in Procs, NEW q \in Requests, NEW s \in Realms,
             NEW b \in Assertions, take_pending_request(o, q, s, b)
      PROVE  Goal
  BY <1>1 DEF take_pending_request
<1>2. ASSUME NEW o \in Procs, validate_saml_response(o)
      PROVE  Goal
  BY <1>2 DEF validate_saml_response
<1>3. ASSUME NEW o \in Procs, record_assertion_id(o)
      PROVE  Goal
  <2>1. CASE uses'[<<r, a>>] > 0
    BY <1>3, <2>1 DEF record_assertion_id
  <2>2. ASSUME NEW p \in Procs, Storing(p, r, a)', ~Storing(p, r, a)
        PROVE  Goal
    <3>1. p = o
      BY <1>3, <2>2 DEF record_assertion_id
    <3>2. call[o] \in Call /\ issued[call[o].assertion] # None
      BY <1>3 DEF record_assertion_id, HeldIssued
    <3>3. seen[<<call[o].realm, call[o].assertion>>] = None
      BY <1>3, <2>2, <3>1 DEF record_assertion_id
    <3>4. /\ call'[o] = [pc |-> "session", req |-> call[o].req,
                        realm |-> call[o].realm, assertion |-> call[o].assertion]
          /\ seen' = [seen EXCEPT ![<<call[o].realm, call[o].assertion>>] =
                                   KeptUntil(call[o].assertion)]
      BY <1>3, <3>3 DEF record_assertion_id
    <3>5. r = call[o].realm /\ a = call[o].assertion
      BY <2>2, <3>1, <3>4
    <3>6. KeptUntil(a) \in Nat
      <4>1. issued[a] \in Issued
        BY <3>2, <3>5
      <4>2. AcceptedUntil(a) \in Nat
        BY <4>1 DEF AcceptedUntil, Issued
      <4> QED
        BY <4>2, Seconds DEF KeptUntil
    <3>7. seen'[<<r, a>>] = KeptUntil(a)
      BY <3>4, <3>5
    <3> QED
      BY <3>2, <3>5, <3>6, <3>7
  <2> QED
    BY <2>1, <2>2
<1>4. ASSUME NEW o \in Procs, saml_acs(o)
      PROVE  Goal
  <2>1. CASE uses'[<<r, a>>] # uses[<<r, a>>]
    <3>1. call[o] \in Call
      BY <1>4 DEF saml_acs
    <3>2. PICK x \in Realms \X Assertions :
            /\ x = <<call[o].realm, call[o].assertion>>
            /\ uses' = [uses EXCEPT ![x] = @ + 1]
      BY <1>4, <3>1 DEF saml_acs, Call
    <3>3. x = <<r, a>>
      BY <2>1, <3>2
    <3>4. Storing(o, r, a)
      BY <1>4, <3>2, <3>3 DEF saml_acs
    <3> QED
      BY <3>4
  <2>2. CASE uses'[<<r, a>>] = uses[<<r, a>>]
    BY <1>4, <2>2 DEF saml_acs
  <2> QED
    BY <2>1, <2>2
<1>5. ASSUME NEW o \in Procs, abandon(o)
      PROVE  Goal
  BY <1>5 DEF abandon
<1>6. CASE UNCHANGED <<uses, call>>
  BY <1>6
<1> QED
  BY <1>1, <1>2, <1>3, <1>4, <1>5, <1>6
  DEF Next, Handle, saml_login, issue, purge_pending, purge_seen, Tick, vars

\* ... and the second half.
LEMMA EntryKeptStep ==
  TypeInv /\ EntryUntil /\ EntryKept /\ [Next]_vars => EntryKept'
<1> SUFFICES ASSUME TypeInv, EntryUntil, EntryKept, [Next]_vars,
                    NEW r \in Realms, NEW a \in Assertions,
                    uses'[<<r, a>>] > 0 \/ \E p \in Procs : Storing(p, r, a)'
             PROVE  /\ issued'[a] # None
                    /\ seen'[<<r, a>>] # None \/ AcceptedUntil(a)' <= now'
  BY DEF EntryKept
<1>1. \/ /\ issued[a] # None
         /\ seen[<<r, a>>] # None \/ AcceptedUntil(a) <= now
      \/ seen'[<<r, a>>] # None /\ issued[a] # None
  BY AcceptedSteps DEF EntryKept
<1>2. issued'[a] = issued[a] /\ now <= now'
  BY <1>1, IssuedStays
<1>3. AcceptedUntil(a)' = AcceptedUntil(a) /\ AcceptedUntil(a) \in Nat
  <2>1. issued[a] \in Issued
    BY <1>1 DEF TypeInv, TypeOK
  <2> QED
    BY <1>2, <2>1, SamlAssumption DEF AcceptedUntil, Issued
<1>4. now \in Nat /\ now' \in Nat
  BY <1>1, IssuedStays DEF TypeInv, TypeOK
<1>5. CASE AcceptedUntil(a) <= now
  BY <1>1, <1>2, <1>3, <1>4, <1>5
<1>6. CASE seen[<<r, a>>] # None /\ seen'[<<r, a>>] = None
  <2>1. seen[<<r, a>>] <= Sec(now)
    BY <1>6, EntrySteps
  <2>2. Sec(AcceptedUntil(a)) + 1 <= Sec(now)
    BY <1>6, <2>1 DEF EntryUntil, KeptUntil
  <2>3. AcceptedUntil(a) < now
    BY <1>3, <1>4, <2>2, Seconds
  <2> QED
    BY <1>1, <1>2, <1>3, <1>4, <2>3
<1> QED
  BY <1>1, <1>2, <1>5, <1>6

\* A used assertion is in the replay cache as long as it could be accepted
\* again, whenever the purge runs (KeptUntil, purge_seen).
THEOREM ReplayRememberedAlways == Spec => []ReplayRemembered
<1>1. Init => EntryUntil /\ EntryKept
  BY SamlAssumption DEF Init, EntryUntil, EntryKept, Storing
<1>2. TypeInv /\ EntryKept => ReplayRemembered
  <2> SUFFICES ASSUME TypeInv, EntryKept, NEW r \in Realms, NEW a \in Assertions,
                      uses[<<r, a>>] > 0, now < AcceptedUntil(a)
               PROVE  seen[<<r, a>>] # None
    BY DEF ReplayRemembered
  <2>1. issued[a] \in Issued
    BY DEF EntryKept, TypeInv, TypeOK
  <2>2. now \in Nat /\ AcceptedUntil(a) \in Nat
    BY <2>1, SamlAssumption DEF AcceptedUntil, Issued, TypeInv, TypeOK
  <2> QED
    BY <2>2 DEF EntryKept
<1> QED
  BY <1>1, <1>2, EntryUntilStep, EntryKeptStep, SamlTypeCorrect, PTL DEF Spec

-----------------------------------------------------------------------------
(***************************************************************************)
(* The realms' settings and the stores (SamlRealm).  A key of Redis never  *)
(* disappears before the second its entry was to be kept until: this makes *)
(* every expiry a purge of SamlLogin, and is where Ttl and the clocks it   *)
(* is computed from matter.  A row that a MySQL transaction has selected   *)
(* is there until that transaction ends, and no other has selected it:     *)
(* this makes the DELETE a step that takes the request.                    *)
(***************************************************************************)
ExpiryInv ==
  backend = "redis" =>
    /\ \A q \in Requests : pending[q] # None => expiry[q] >= 2 * pending[q].expires_at
    /\ \A x \in Realms \X Assertions : seen[x] # None => expiry[x] >= 2 * seen[x]

Selected(p, q) ==
  /\ backend = "mysql" /\ lock[q] = {p}
  /\ Posted(p) /\ acs[p].req = q
  /\ pending[q] # None /\ pending[q].realm = acs[p].realm
  /\ \E t \in 0..now : pending[q].expires_at > Sec(t)

LockInv ==
  /\ \A q \in Requests : pending[q] # None => q \in started
  /\ \A p \in Procs : acs[p] # None => issued[acs[p].assertion] # None
  /\ \A q \in Requests : \A p \in lock[q] : Selected(p, q)

RealmInv == RealmTypeOK /\ HeldIssued /\ ExpiryInv /\ LockInv

\* The DELETE of MySQL takes a request that is pending, since FOR UPDATE kept
\* everyone else from it.
LEMMA CommitTakes ==
  ASSUME RealmInv, NEW p \in Procs, delete_and_commit(p)
  PROVE  take_pending_request(p, acs[p].req, acs[p].realm, acs[p].assertion)
<1>1. acs[p] # None /\ call[p] = None /\ acs[p].req \in Requests /\ p \in lock[acs[p].req]
  BY DEF delete_and_commit, Posted, RealmInv, RealmTypeOK
<1>2. Selected(p, acs[p].req) /\ issued[acs[p].assertion] # None
  BY <1>1 DEF RealmInv, LockInv
<1> QED
  BY <1>1, <1>2 DEF Selected, delete_and_commit, take_pending_request

\* Whole seconds grow with the clock, a whole second is not later than the
\* instant it was cut from, and it has come when the clock has reached it.
LEMMA SecondsGrow ==
  ASSUME NEW t \in Nat, NEW u \in Nat
  PROVE  /\ t <= u => Sec(t) <= Sec(u)
         /\ 2 * Sec(t) <= t
         /\ 2 * u <= t => u <= Sec(t)
BY DEF Sec

\* The time left that a key is stored with does not run out early (Ttl).
LEMMA TtlEnough ==
  ASSUME NEW until \in Nat, NEW t \in 0..now, now \in Nat, until > Sec(t)
  PROVE  now + Ttl(until, t) \in Nat /\ now + Ttl(until, t) >= 2 * until
<1>1. Sec(t) \in Nat /\ 2 * Sec(t) <= t /\ t \in Nat /\ t <= now
  BY Seconds, SecondsGrow
<1>2. Ttl(until, t) = 2 * (until - Sec(t))
  BY DEF Ttl
<1> QED
  BY <1>1, <1>2

\* An assertion that is being handled has a second until which it is kept.
LEMMA KeptType ==
  ASSUME TypeOK, NEW a \in Assertions, issued[a] # None
  PROVE  KeptUntil(a) \in Nat
<1>1. issued[a] \in Issued
  BY DEF TypeOK
<1>2. AcceptedUntil(a) \in Nat
  BY <1>1, SamlAssumption DEF AcceptedUntil, Issued
<1> QED
  BY <1>2, Seconds DEF KeptUntil

\* A purge that read the clock earlier deletes nothing that one of now would
\* keep, and a key that Redis drops has expired.
LEMMA PurgeSteps ==
  ASSUME RealmInv
  PROVE  /\ \A t \in 0..now, Q \in SUBSET Requests : purge_pending(Q, t) => purge_pending(Q, now)
         /\ \A t \in 0..now, X \in SUBSET (Realms \X Assertions) : purge_seen(X, t) => purge_seen(X, now)
         /\ \A q \in Requests : Due(q) /\ pending[q] # None => pending[q].expires_at <= Sec(now)
         /\ \A x \in Realms \X Assertions : Due(x) /\ seen[x] # None => seen[x] <= Sec(now)
<1>1. /\ now \in Nat /\ Sec(now) \in Nat
      /\ \A q \in Requests : pending[q] # None => pending[q].expires_at \in Nat
      /\ \A x \in Realms \X Assertions : seen[x] # None => seen[x] \in Nat
  BY Seconds DEF RealmInv, RealmTypeOK, TypeOK, Pending
<1>2. \A t \in 0..now : Sec(t) \in Nat /\ Sec(t) <= Sec(now)
  BY <1>1, Seconds, SecondsGrow
<1>3. ASSUME NEW t \in 0..now, NEW Q \in SUBSET Requests, purge_pending(Q, t)
      PROVE  purge_pending(Q, now)
  <2>1. \A q \in Q : pending[q].expires_at <= Sec(now)
    BY <1>1, <1>2, <1>3 DEF purge_pending
  <2> QED
    BY <1>3, <2>1 DEF purge_pending
<1>4. ASSUME NEW t \in 0..now, NEW X \in SUBSET (Realms \X Assertions), purge_seen(X, t)
      PROVE  purge_seen(X, now)
  <2>1. \A x \in X : seen[x] <= Sec(now)
    BY <1>1, <1>2, <1>4 DEF purge_seen
  <2> QED
    BY <1>4, <2>1 DEF purge_seen
<1>5. expiry \in [Entries -> Nat]
  BY DEF RealmInv, RealmTypeOK
<1>6. ASSUME NEW q \in Requests, Due(q), pending[q] # None
      PROVE  pending[q].expires_at <= Sec(now)
  <2>1. expiry[q] \in Nat /\ expiry[q] <= now /\ expiry[q] >= 2 * pending[q].expires_at
    BY <1>5, <1>6 DEF Due, RealmInv, ExpiryInv, Entries
  <2> QED
    BY <1>1, <1>6, <2>1, SecondsGrow
<1>7. ASSUME NEW x \in Realms \X Assertions, Due(x), seen[x] # None
      PROVE  seen[x] <= Sec(now)
  <2>1. expiry[x] \in Nat /\ expiry[x] <= now /\ expiry[x] >= 2 * seen[x]
    BY <1>5, <1>7 DEF Due, RealmInv, ExpiryInv, Entries
  <2> QED
    BY <1>1, <1>7, <2>1, SecondsGrow
<1> QED
  BY <1>3, <1>4, <1>6, <1>7

\* What expires by itself in Redis could have been purged.
LEMMA ExpireKeyStep == ASSUME RealmInv, expire_key PROVE Next
<1>1. TypeOK
  BY DEF RealmInv, RealmTypeOK
<1>2. ASSUME NEW q \in Requests, Due(q), pending[q] # None,
             pending' = [pending EXCEPT ![q] = None], UNCHANGED seen
      PROVE  purge_pending({q}, now)
  <2>1. pending[q].expires_at <= Sec(now)
    BY <1>2, PurgeSteps
  <2>2. pending' = [o \in Requests |-> IF o \in {q} THEN None ELSE pending[o]]
    BY <1>1, <1>2 DEF TypeOK
  <2> QED
    BY <1>2, <2>1, <2>2 DEF purge_pending, expire_key
<1>3. ASSUME NEW x \in DOMAIN seen, Due(x), seen[x] # None,
             seen' = [seen EXCEPT ![x] = None], UNCHANGED pending
      PROVE  x \in Realms \X Assertions /\ purge_seen({x}, now)
  <2>1. DOMAIN seen = Realms \X Assertions
    BY <1>1 DEF TypeOK
  <2>2. seen[x] <= Sec(now)
    BY <1>3, <2>1, PurgeSteps
  <2>3. seen' = [o \in Realms \X Assertions |-> IF o \in {x} THEN None ELSE seen[o]]
    BY <1>1, <1>3, <2>1 DEF TypeOK
  <2> QED
    BY <1>3, <2>1, <2>2, <2>3 DEF purge_seen, expire_key
<1> QED
  BY <1>2, <1>3 DEF expire_key, Next

\* Every step of every store, with whatever settings, is one of SamlLogin.
LEMMA SamlStep == RealmInv /\ [RealmNext]_rvars => [Next]_vars
<1> SUFFICES ASSUME RealmInv, [RealmNext]_rvars PROVE [Next]_vars
  OBVIOUS
<1> RealmTypeOK /\ TypeOK
  BY DEF RealmInv, RealmTypeOK
<1>1. ASSUME NEW p \in Procs, NEW q \in Requests, store_pending_request(p, q) PROVE Next
  <2>1. login[p].realm \in Realms /\ saml_login(q, login[p].realm)
    BY <1>1 DEF store_pending_request, RealmTypeOK
  <2> QED
    BY <2>1 DEF Next
<1>2. ASSUME NEW p \in Procs, Respond(p) PROVE [Next]_vars
  <2>1. acs[p] # None => /\ acs[p].req \in Requests /\ acs[p].realm \in Realms
                         /\ acs[p].assertion \in Assertions
    BY DEF RealmTypeOK
  <2>2. ASSUME Posted(p), take_pending_request(p, acs[p].req, acs[p].realm, acs[p].assertion)
        PROVE  Next
    BY <2>1, <2>2 DEF Posted, Next, Handle
  <2>3. CASE getdel(p)
    <3>1. CASE StillPending(pending[acs[p].req], now)
      BY <2>2, <2>3, <3>1 DEF getdel
    <3>2. CASE ~StillPending(pending[acs[p].req], now)
      <4>1. purge_pending({acs[p].req}, now) /\ {acs[p].req} \in SUBSET Requests
        BY <2>1, <2>3, <3>2 DEF getdel, Posted
      <4> QED
        BY <4>1 DEF Next
    <3> QED
      BY <3>1, <3>2
  <2>4. CASE delete_returning(p) \/ delete_and_commit(p)
    BY <2>2, <2>4, CommitTakes DEF delete_returning, delete_and_commit
  <2>5. CASE check_response(p) \/ record_assertion(p) \/ finish(p)
    BY <2>5 DEF check_response, record_assertion, finish, Next, Handle
  <2>6. CASE abandon_acs(p) \/ select_for_update(p)
    BY <2>6 DEF abandon_acs, select_for_update, Next, Handle
  <2> QED
    BY <1>2, <2>3, <2>4, <2>5, <2>6 DEF Respond, begin_acs
<1>3. ASSUME NEW t \in 0..now, delete_expired(t) PROVE [Next]_vars
  <2> DEFINE Q == {q \in Requests : pending[q] # None /\ pending[q].expires_at <= Sec(t)}
             X == {x \in DOMAIN seen : seen[x] # None /\ seen[x] <= Sec(t)}
  <2>1. Q \in SUBSET Requests /\ X \in SUBSET (Realms \X Assertions)
    BY DEF TypeOK
  <2>2. UNCHANGED vars \/ purge_pending(Q, t) \/ purge_seen(X, t)
    BY <1>3 DEF delete_expired
  <2> HIDE DEF Q, X
  <2>3. UNCHANGED vars \/ purge_pending(Q, now) \/ purge_seen(X, now)
    BY <2>1, <2>2, PurgeSteps
  <2> QED
    BY <2>1, <2>3 DEF Next
<1>4. CASE expire_key
  BY <1>4, ExpireKeyStep
<1>5. CASE Clock
  BY <1>5 DEF Clock, Next
<1>6. ASSUME NEW a \in Assertions, NEW q \in Requests, provider_issues(a, q) PROVE Next
  BY <1>6 DEF provider_issues, Next
<1> QED
  BY <1>1, <1>2, <1>3, <1>4, <1>5, <1>6
  DEF RealmNext, save_realm, remove_settings, Change, begin_login, abandon_login, rvars

\* Settings that are saved have their type, and what validate_saml_params asks.
ParamsSound(s) ==
  /\ s \in SamlParams
  /\ s.default \in s.origins
  /\ {s.claim_map[x] : x \in Attributes} \cap Reserved = {}

\* What check_saml_params lets through is sound.
LEMMA SavedSound ==
  ASSUME NEW r \in Realms, NEW b \in Bodies, NEW t, check_saml_params(r, b, t)
  PROVE  ParamsSound(ParamsOf(b))
<1>1. /\ b.metadata.keys \subseteq [use : {"signing", "encryption", "unspecified"}, cert : Certs]
      /\ b.subject_attribute \in BOOLEAN /\ b.claim_map \in [Attributes -> ClaimNames \cup {None}]
      /\ b.origins \subseteq Origins /\ b.default \in Origins
  BY SamlRealmAssumption DEF Body, Metadata
<1>2. signing_certificates(b.metadata) \subseteq Certs
  BY <1>1 DEF signing_certificates
<1>3. ParamsOf(b) \in SamlParams
  BY <1>1, <1>2 DEF ParamsOf, SamlParams
<1>4. /\ ParamsOf(b).default = b.default /\ ParamsOf(b).origins = b.origins
      /\ ParamsOf(b).claim_map = b.claim_map
  BY DEF ParamsOf
<1>5. b.default \in b.origins /\ {b.claim_map[x] : x \in Attributes} \cap Reserved = {}
  BY DEF check_saml_params, validate_saml_params, validate_identity_mapping, validate_return_urls,
         reject_reserved_claim_names
<1> QED
  BY <1>3, <1>4, <1>5 DEF ParamsSound

\* The certificates a response has seen trusted have their type.
LEMMA HeldCerts ==
  ASSUME RealmTypeOK, Observe,
         acs' \in [Procs -> [req : Requests, realm : Realms, assertion : Assertions,
                             params : SamlParams] \cup {None}]
  PROVE  held' \in [Procs -> SUBSET Certs]
<1>1. \A r \in Realms : CertsOf(r) \subseteq Certs
  BY DEF RealmTypeOK, CertsOf, SamlParams
<1>2. ASSUME NEW p \in Procs, acs'[p] # None PROVE held[p] \cup CertsOf(acs'[p].realm) \subseteq Certs
  <2>1. acs'[p].realm \in Realms
    BY <1>2
  <2> QED
    BY <1>1, <2>1 DEF RealmTypeOK
<1> QED
  BY <1>2 DEF Observe

\* Every step keeps the types of what SamlRealm adds.
LEMMA RealmTypeStep == RealmInv /\ [RealmNext]_rvars => RealmTypeOK' /\ HeldIssued'
<1> SUFFICES ASSUME RealmInv, [RealmNext]_rvars PROVE RealmTypeOK' /\ HeldIssued'
  OBVIOUS
<1> DEFINE Acs == [req : Requests, realm : Realms, assertion : Assertions, params : SamlParams]
           Login == [realm : Realms, url : Origins, allowed : SUBSET Origins]
           Rest == /\ params' \in [Realms -> SamlParams \cup {None}]
                   /\ login' \in [Procs -> Login \cup {None}]
                   /\ acs' \in [Procs -> Acs \cup {None}]
                   /\ url' \in [Requests -> Origins \cup {None}]
                   /\ lock' \in [Requests -> SUBSET Procs]
                   /\ expiry' \in [Entries -> Nat]
                   /\ changes' \in Nat
                   /\ taken' \in [Requests -> Nat]
                   /\ fresh' \in [Realms \X Assertions -> Nat \cup {None}]
                   /\ allowed' \in [Requests -> SUBSET Origins]
                   /\ backend' = backend
<1>1. TypeOK' /\ HeldIssued'
  BY SamlStep, TypeStep DEF RealmInv, RealmTypeOK, TypeInv
<1>2. CASE UNCHANGED rvars
  BY <1>1, <1>2 DEF rvars, added, RealmInv, RealmTypeOK
<1>3. CASE RealmNext
  <2> TypeOK /\ now \in Nat /\ HeldIssued
    BY DEF RealmInv, RealmTypeOK, TypeOK
  <2> USE DEF RealmInv, RealmTypeOK
  <2>1. SUFFICES Rest
    BY <1>1, <1>3, HeldCerts DEF RealmNext
  <2>2. ASSUME NEW r \in Realms, NEW s \in SamlParams \cup {None}, Change(r, s) PROVE Rest
    BY <2>2 DEF Change
  <2>3. ASSUME NEW p \in Procs, NEW r \in Realms, NEW to \in Origins \cup {None}, begin_login(p, r, to)
        PROVE  Rest
    <3>1. params[r] \in SamlParams
      BY <2>3 DEF begin_login
    <3>2. params[r].origins \subseteq Origins /\ resolve_return_url(params[r], to) \in Origins
      BY <3>1 DEF SamlParams, resolve_return_url
    <3>3. [realm |-> r, url |-> resolve_return_url(params[r], to), allowed |-> params[r].origins] \in Login
      BY <3>2
    <3> HIDE DEF Login
    <3> QED
      BY <2>3, <3>3 DEF begin_login, Login
  <2>4. ASSUME NEW p \in Procs, NEW q \in Requests, store_pending_request(p, q) PROVE Rest
    <3>1. login[p] \in Login
      BY <2>4 DEF store_pending_request
    <3>2. PICK t \in 0..now : /\ pending'[q].expires_at > Sec(t)
                              /\ expiry' = [expiry EXCEPT ![q] =
                                   IF backend = "redis" THEN now + Ttl(pending'[q].expires_at, t) ELSE 0]
      BY <2>4 DEF store_pending_request
    <3>3. pending'[q].expires_at \in Nat
      <4>1. PICK u \in 0..now : pending' = [pending EXCEPT ![q] =
                                  [realm |-> login[p].realm, expires_at |-> Sec(u) + PendingSecs]]
        BY <2>4 DEF store_pending_request, saml_login
      <4>2. pending'[q].expires_at = Sec(u) + PendingSecs
        BY <4>1 DEF TypeOK
      <4> QED
        BY <4>2, Seconds, SamlAssumption
    <3>4. now + Ttl(pending'[q].expires_at, t) \in Nat
      BY <3>2, <3>3, TtlEnough
    <3>5. expiry' \in [Entries -> Nat]
      BY <3>2, <3>4
    <3>6. url' \in [Requests -> Origins \cup {None}] /\ allowed' \in [Requests -> SUBSET Origins]
      BY <2>4, <3>1 DEF store_pending_request
    <3>7. login' \in [Procs -> Login \cup {None}]
      BY <2>4 DEF store_pending_request
    <3> QED
      BY <2>4, <3>5, <3>6, <3>7 DEF store_pending_request
  <2>5. ASSUME NEW p \in Procs, NEW q \in Requests, NEW r \in Realms, NEW a \in Assertions,
               begin_acs(p, q, r, a)
        PROVE  Rest
    <3>1. [req |-> q, realm |-> r, assertion |-> a, params |-> params[r]] \in Acs
      BY <2>5 DEF begin_acs
    <3> HIDE DEF Acs
    <3> QED
      BY <2>5, <3>1 DEF begin_acs, Acs
  <2>6. ASSUME NEW p \in Procs, record_assertion(p) PROVE Rest
    <3> DEFINE x == <<call[p].realm, call[p].assertion>>
    <3>1. call[p] \in Call /\ issued[call[p].assertion] # None
      BY <2>6 DEF record_assertion, record_assertion_id, TypeOK, HeldIssued
    <3>2. x \in Realms \X Assertions /\ x[2] = call[p].assertion /\ KeptUntil(x[2]) \in Nat
      BY <3>1, KeptType DEF Call
    <3> HIDE DEF x
    <3>3. CASE call'[p] = None
      BY <2>6, <3>3 DEF record_assertion
    <3>4. CASE call'[p] # None
      <4>1. PICK t \in 0..now : /\ KeptUntil(x[2]) > Sec(t)
                                /\ expiry' = [expiry EXCEPT ![x] =
                                     IF backend = "redis" THEN now + Ttl(KeptUntil(x[2]), t) ELSE 0]
        BY <2>6, <3>4 DEF record_assertion, x
      <4>2. now + Ttl(KeptUntil(x[2]), t) \in Nat
        BY <3>2, <4>1, TtlEnough
      <4>3. expiry' \in [Entries -> Nat]
        BY <4>1, <4>2
      <4>4. fresh' = [fresh EXCEPT ![x] = KeptUntil(x[2])]
        BY <2>6, <3>4 DEF record_assertion, x
      <4>5. fresh' \in [Realms \X Assertions -> Nat \cup {None}]
        BY <3>2, <4>4
      <4> QED
        BY <2>6, <3>4, <4>3, <4>5 DEF record_assertion
    <3> QED
      BY <3>3, <3>4
  <2>7. ASSUME NEW p \in Procs, getdel(p) \/ delete_returning(p) \/ delete_and_commit(p) PROVE Rest
    <3>1. acs[p].req \in Requests
      BY <2>7 DEF getdel, delete_returning, delete_and_commit, Posted
    <3>2. ASSUME HandOut(acs[p].req) PROVE taken' \in [Requests -> Nat]
      BY <3>1, <3>2 DEF HandOut
    <3>3. taken' \in [Requests -> Nat]
      BY <2>7, <3>2 DEF getdel, delete_returning, delete_and_commit
    <3>4. lock' \in [Requests -> SUBSET Procs]
      BY <2>7, <3>1 DEF getdel, delete_returning, delete_and_commit
    <3>5. acs' \in [Procs -> Acs \cup {None}]
      BY <2>7 DEF getdel, delete_returning, delete_and_commit
    <3> QED
      BY <2>7, <3>3, <3>4, <3>5 DEF getdel, delete_returning, delete_and_commit
  <2>8. ASSUME NEW p \in Procs,
               select_for_update(p) \/ check_response(p) \/ finish(p) \/ abandon_acs(p)
                 \/ abandon_login(p)
        PROVE  Rest
    BY <2>8 DEF select_for_update, check_response, finish, abandon_acs, abandon_login
  <2>9. ASSUME UNCHANGED <<backend, params, login, acs, url, lock, expiry, changes, taken, fresh, allowed>>
        PROVE  Rest
    BY <2>9
  <2>10. ASSUME NEW r \in Realms, NEW b \in Bodies, save_realm(r, b) PROVE Rest
    BY <2>2, <2>10, SavedSound DEF save_realm, ParamsSound
  <2> HIDE DEF Rest, RealmInv, RealmTypeOK
  <2> QED
    BY <1>3, <2>2, <2>3, <2>4, <2>5, <2>6, <2>7, <2>8, <2>9, <2>10
    DEF RealmNext, Respond, remove_settings, provider_issues, delete_expired, expire_key, Clock
<1> QED
  BY <1>2, <1>3

\* A Redis key gets all the time its entry needs, and entries only go.
LEMMA ExpiryStep == RealmInv /\ [RealmNext]_rvars => ExpiryInv'
<1> SUFFICES ASSUME RealmInv, [RealmNext]_rvars, backend' = "redis" PROVE ExpiryInv'
  BY DEF ExpiryInv
<1> DEFINE Q(q) == pending'[q] # None => expiry'[q] >= 2 * pending'[q].expires_at
           X(x) == seen'[x] # None => expiry'[x] >= 2 * seen'[x]
<1> TypeOK /\ now \in Nat /\ HeldIssued /\ ExpiryInv /\ expiry \in [Entries -> Nat]
  BY DEF RealmInv, RealmTypeOK, TypeOK
<1>1. backend = "redis"
  BY DEF RealmNext, Respond, save_realm, remove_settings, Change, begin_login, store_pending_request,
         abandon_login, provider_issues, begin_acs, delete_returning, select_for_update,
         delete_and_commit, getdel, check_response, record_assertion, finish, abandon_acs,
         delete_expired, expire_key, Clock, rvars, added
<1>2. ASSUME expiry' = expiry, \A q \in Requests : pending'[q] \in {None, pending[q]},
             \A x \in Realms \X Assertions : seen'[x] \in {None, seen[x]}
      PROVE  ExpiryInv'
  BY <1>1, <1>2 DEF ExpiryInv
<1>3. ASSUME NEW p \in Procs, NEW q \in Requests, store_pending_request(p, q) PROVE ExpiryInv'
  <2>1. PICK t \in 0..now : /\ pending'[q].expires_at > Sec(t)
                            /\ expiry' = [expiry EXCEPT ![q] = now + Ttl(pending'[q].expires_at, t)]
    BY <1>1, <1>3 DEF store_pending_request
  <2>2. PICK u \in 0..now : pending' = [pending EXCEPT ![q] =
                              [realm |-> login[p].realm, expires_at |-> Sec(u) + PendingSecs]]
    BY <1>3 DEF store_pending_request, saml_login
  <2>3. pending'[q].expires_at = Sec(u) + PendingSecs
    BY <2>2 DEF TypeOK
  <2>4. pending'[q].expires_at \in Nat
    BY <2>3, Seconds, SamlAssumption
  <2>5. Q(q)
    BY <2>1, <2>4, TtlEnough DEF Entries
  <2>6. \A o \in Requests : o # q => Q(o)
    BY <1>1, <2>1, <2>2 DEF TypeOK, ExpiryInv, Entries
  <2>7. \A x \in Realms \X Assertions : x # q /\ x \in Entries
    BY SamlRealmAssumption DEF Entries
  <2>8. seen' = seen
    BY <1>3 DEF store_pending_request, saml_login
  <2>9. \A x \in Realms \X Assertions : X(x)
    BY <1>1, <2>1, <2>7, <2>8 DEF ExpiryInv
  <2> QED
    BY <2>5, <2>6, <2>9 DEF ExpiryInv
<1>4. ASSUME NEW p \in Procs, record_assertion(p) PROVE ExpiryInv'
  <2> DEFINE x == <<call[p].realm, call[p].assertion>>
  <2>1. call[p] \in Call /\ issued[call[p].assertion] # None /\ pending' = pending
    BY <1>4 DEF record_assertion, record_assertion_id, TypeOK, HeldIssued
  <2>2. x \in Realms \X Assertions /\ x[2] = call[p].assertion /\ KeptUntil(x[2]) \in Nat
    BY <2>1, KeptType DEF Call
  <2> HIDE DEF x
  <2>3. CASE seen[x] # None
    <3>1. call' = [call EXCEPT ![p] = None] /\ seen' = seen
      BY <1>4, <2>3 DEF record_assertion, record_assertion_id, x
    <3>2. call'[p] = None
      BY <3>1 DEF TypeOK
    <3>3. expiry' = expiry
      BY <1>4, <3>2 DEF record_assertion
    <3> QED
      BY <1>2, <2>1, <3>1, <3>3
  <2>4. CASE seen[x] = None
    <3>1. /\ seen' = [seen EXCEPT ![x] = KeptUntil(x[2])]
          /\ call' = [call EXCEPT ![p] = [pc |-> "session", req |-> call[p].req,
                                          realm |-> call[p].realm, assertion |-> call[p].assertion]]
      BY <1>4, <2>2, <2>4 DEF record_assertion, record_assertion_id, x
    <3>2. call'[p] # None
      <4>1. [pc |-> "session", req |-> call[p].req, realm |-> call[p].realm,
             assertion |-> call[p].assertion] \in Call
        BY <2>1 DEF Call
      <4> QED
        BY <3>1, <4>1, SamlAssumption DEF TypeOK, Call
    <3>3. PICK t \in 0..now : /\ KeptUntil(x[2]) > Sec(t)
                              /\ expiry' = [expiry EXCEPT ![x] = now + Ttl(KeptUntil(x[2]), t)]
      BY <1>1, <1>4, <3>2 DEF record_assertion, x
    <3>4. X(x)
      BY <2>2, <3>1, <3>3, TtlEnough DEF Entries, TypeOK
    <3>5. \A y \in Realms \X Assertions : y # x => X(y)
      BY <1>1, <3>1, <3>3 DEF TypeOK, ExpiryInv, Entries
    <3>6. \A q \in Requests : q # x /\ q \in Entries
      BY <2>2, SamlRealmAssumption DEF Entries
    <3>7. \A q \in Requests : Q(q)
      BY <1>1, <2>1, <3>3, <3>6 DEF ExpiryInv
    <3> QED
      BY <3>4, <3>5, <3>7 DEF ExpiryInv
  <2> QED
    BY <2>3, <2>4
<1>5. ASSUME expiry' = expiry, UNCHANGED <<pending, seen>> PROVE ExpiryInv'
  BY <1>2, <1>5
<1>6. ASSUME NEW p \in Procs, Respond(p), ~record_assertion(p) PROVE ExpiryInv'
  <2>1. expiry' = expiry
    BY <1>6 DEF Respond, begin_acs, delete_returning, select_for_update, delete_and_commit, getdel,
                check_response, finish, abandon_acs
  <2>2. seen' = seen
    BY <1>6 DEF Respond, begin_acs, delete_returning, select_for_update, delete_and_commit, getdel,
                check_response, finish, abandon_acs, take_pending_request, purge_pending,
                validate_saml_response, saml_acs, abandon, vars
  <2>3. \A q \in Requests : pending'[q] \in {None, pending[q]}
    BY <1>6 DEF Respond, begin_acs, delete_returning, select_for_update, delete_and_commit, getdel,
                check_response, finish, abandon_acs, take_pending_request, Taken, purge_pending,
                validate_saml_response, saml_acs, abandon, vars, TypeOK
  <2> QED
    BY <1>2, <2>1, <2>2, <2>3
<1>7. ASSUME NEW t \in 0..now, delete_expired(t) PROVE ExpiryInv'
  BY <1>2, <1>7 DEF delete_expired, purge_pending, purge_seen, vars
<1>8. CASE expire_key
  BY <1>2, <1>8 DEF expire_key, TypeOK
<1> QED
  BY <1>3, <1>4, <1>5, <1>6, <1>7, <1>8
  DEF RealmNext, save_realm, remove_settings, Change, begin_login, abandon_login, provider_issues,
      issue, Clock, Tick, rvars, added, vars

\* A response in progress stays as it was read, ends, or has just begun with the
\* settings of the moment.
LEMMA AcsSteps ==
  ASSUME RealmInv, RealmNext, NEW p \in Procs, acs'[p] # None
  PROVE  \/ acs'[p] = acs[p]
         \/ /\ acs[p] = None /\ acs'[p].req \in started /\ acs'[p].realm \in Realms
            /\ acs'[p].assertion \in Assertions /\ issued[acs'[p].assertion] # None
            /\ params[acs'[p].realm] # None /\ acs'[p].params = params[acs'[p].realm]
<1> acs \in [Procs -> [req : Requests, realm : Realms, assertion : Assertions,
                       params : SamlParams] \cup {None}]
  BY DEF RealmInv, RealmTypeOK
<1>1. ASSUME NEW o \in Procs, NEW q \in Requests, NEW r \in Realms, NEW a \in Assertions,
             begin_acs(o, q, r, a), o = p
      PROVE  /\ acs[p] = None /\ acs'[p].req \in started /\ acs'[p].realm \in Realms
             /\ acs'[p].assertion \in Assertions /\ issued[acs'[p].assertion] # None
             /\ params[acs'[p].realm] # None /\ acs'[p].params = params[acs'[p].realm]
  BY <1>1 DEF begin_acs
<1>2. ASSUME NEW o \in Procs, Respond(o), o # p PROVE acs'[p] = acs[p]
  BY <1>2 DEF Respond, begin_acs, delete_returning, select_for_update, delete_and_commit, getdel,
              check_response, record_assertion, finish, abandon_acs
<1>3. ASSUME Respond(p), acs'[p] # acs[p]
      PROVE  \E q \in Requests, r \in Realms, a \in Assertions : begin_acs(p, q, r, a)
  BY <1>3 DEF Respond, delete_returning, select_for_update, delete_and_commit, getdel,
              check_response, record_assertion, finish, abandon_acs
<1>4. CASE UNCHANGED acs
  BY <1>4
<1>5. CASE Respond(p)
  BY <1>1, <1>3, <1>5
<1> QED
  BY <1>2, <1>4, <1>5
  DEF RealmNext, save_realm, remove_settings, Change, begin_login, store_pending_request,
      abandon_login, provider_issues, delete_expired, expire_key, Clock

\* A transaction keeps the row it has selected, as long as nothing touches it.
LEMMA SelectedKept ==
  ASSUME NEW p \in Procs, NEW q \in Requests, Selected(p, q), now \in Nat, now' \in Nat, now <= now',
         backend' = backend, lock'[q] = lock[q], acs'[p] = acs[p], call'[p] = call[p],
         pending'[q] = pending[q]
  PROVE  Selected(p, q)'
<1>1. PICK t \in 0..now : pending[q].expires_at > Sec(t)
  BY DEF Selected
<1>2. t \in 0..now'
  OBVIOUS
<1>3. \E u \in 0..now' : pending'[q].expires_at > Sec(u)
  BY <1>1, <1>2
<1> QED
  BY <1>3 DEF Selected, Posted

\* FOR UPDATE admits one transaction, the purge waits for it, and no other
\* statement touches the row until it ends.
LEMMA LockStep == RealmInv /\ [RealmNext]_rvars => LockInv'
<1> SUFFICES ASSUME RealmInv, [RealmNext]_rvars PROVE LockInv'
  OBVIOUS
<1> DEFINE Acs == [req : Requests, realm : Realms, assertion : Assertions, params : SamlParams]
           Locks == \A q \in Requests : \A p \in lock'[q] : Selected(p, q)'
<1> TypeOK /\ now \in Nat /\ LockInv /\ TypeInv
  BY DEF RealmInv, RealmTypeOK, TypeOK, TypeInv
<1> lock \in [Requests -> SUBSET Procs] /\ acs \in [Procs -> Acs \cup {None}]
  BY DEF RealmInv, RealmTypeOK
<1> HIDE DEF Acs
<1>1. [Next]_vars
  BY SamlStep
<1>2. now' \in Nat /\ now <= now'
  <2>1. now' = now \/ now' = now + 1
    BY <1>1 DEF Next, Handle, saml_login, issue, take_pending_request, validate_saml_response,
                record_assertion_id, saml_acs, abandon, purge_pending, purge_seen, Tick, vars
  <2> QED
    BY <2>1
<1>3. \A q \in Requests : pending'[q] # None => q \in started'
  <2>1. ASSUME NEW q \in Requests, NEW r \in Realms, saml_login(q, r)
        PROVE  \A o \in Requests : pending'[o] # None => o \in started'
    BY <2>1 DEF saml_login, LockInv, TypeOK
  <2>2. ASSUME started' = started, \A o \in Requests : pending'[o] \in {None, pending[o]}
        PROVE  \A o \in Requests : pending'[o] # None => o \in started'
    BY <2>2 DEF LockInv
  <2>3. ASSUME ~\E q \in Requests, r \in Realms : saml_login(q, r)
        PROVE  started' = started /\ \A o \in Requests : pending'[o] \in {None, pending[o]}
    BY <1>1, <2>3 DEF Next, Handle, issue, take_pending_request, Taken, validate_saml_response,
                record_assertion_id, saml_acs, abandon, purge_pending, purge_seen, Tick, vars, TypeOK
  <2> QED
    BY <2>1, <2>2, <2>3
<1>4. \A p \in Procs : acs'[p] # None => issued'[acs'[p].assertion] # None
  <2> SUFFICES ASSUME NEW p \in Procs, acs'[p] # None PROVE issued'[acs'[p].assertion] # None
    OBVIOUS
  <2>1. acs'[p].assertion \in Assertions /\ issued[acs'[p].assertion] # None
    <3>1. CASE acs'[p] = acs[p]
      BY <3>1 DEF LockInv, Acs
    <3>2. CASE acs'[p] # acs[p]
      BY <3>2, AcsSteps DEF rvars, added
    <3> QED
      BY <3>1, <3>2
  <2> QED
    BY <1>1, <2>1, IssuedStays
<1>5. ASSUME UNCHANGED <<backend, lock>>,
             \A q \in Requests : \A p \in lock[q] :
               acs'[p] = acs[p] /\ call'[p] = call[p] /\ pending'[q] = pending[q]
      PROVE  Locks
  <2> SUFFICES ASSUME NEW q \in Requests, NEW p \in lock[q] PROVE Selected(p, q)'
    BY <1>5
  <2>1. p \in Procs /\ Selected(p, q)
    BY DEF LockInv
  <2> QED
    BY <1>2, <1>5, <2>1, SelectedKept
<1>6. \A q \in Requests : \A p \in lock[q] : p \in Procs /\ Selected(p, q)
  BY DEF LockInv
<1>7. ASSUME NEW p \in Procs, NEW q \in Requests, store_pending_request(p, q) PROVE Locks
  <2>1. lock[q] = {}
    BY <1>6, <1>7 DEF store_pending_request, saml_login, LockInv, Selected
  <2>2. \A o \in Requests : o # q => pending'[o] = pending[o]
    BY <1>7 DEF store_pending_request, saml_login, TypeOK
  <2> QED
    BY <1>5, <1>7, <2>1, <2>2 DEF store_pending_request, saml_login
<1>8. ASSUME backend # "mysql", UNCHANGED lock PROVE Locks
  BY <1>6, <1>8 DEF Selected
<1>9. ASSUME NEW p \in Procs, \A q \in Requests : p \notin lock[q], UNCHANGED <<backend, lock, pending>>,
             \A o \in Procs : o # p => acs'[o] = acs[o] /\ call'[o] = call[o]
      PROVE  Locks
  BY <1>5, <1>9
<1>10. ASSUME NEW p \in Procs, select_for_update(p) PROVE Locks
  <2>1. PICK q \in Requests : q = acs[p].req /\ acs[p] # None
    BY <1>10 DEF select_for_update, Posted, Acs
  <2>2. lock'[q] = {p} /\ \A o \in Requests : o # q => lock'[o] = lock[o]
    BY <1>10, <2>1 DEF select_for_update, Lockable
  <2>3. UNCHANGED <<backend, acs, call, pending, now>>
    BY <1>10 DEF select_for_update, vars
  <2>4. Selected(p, q)'
    BY <1>10, <2>1, <2>2, <2>3 DEF select_for_update, Selected, Posted
  <2>5. ASSUME NEW o \in Requests, o # q, NEW x \in lock[o] PROVE Selected(x, o)'
    BY <1>2, <1>6, <2>2, <2>3, <2>5, SelectedKept
  <2> SUFFICES ASSUME NEW o \in Requests, NEW x \in lock'[o] PROVE Selected(x, o)'
    OBVIOUS
  <2>6. CASE o # q
    BY <2>2, <2>5, <2>6
  <2>7. CASE o = q /\ x = p
    BY <2>4, <2>7
  <2> QED
    BY <2>2, <2>6, <2>7
<1>11. ASSUME NEW p \in Procs, delete_and_commit(p) PROVE Locks
  <2> DEFINE q == acs[p].req
  <2>1. q \in Requests /\ p \in lock[q]
    BY <1>11 DEF delete_and_commit, Posted, Acs
  <2>2. lock[q] = {p}
    BY <1>6, <2>1 DEF Selected
  <2>3. lock'[q] = {} /\ \A o \in Requests : o # q => lock'[o] = lock[o]
    BY <1>11, <2>1, <2>2 DEF delete_and_commit
  <2>4. ASSUME NEW o \in Requests, o # q, NEW x \in lock[o] PROVE Selected(x, o)'
    <3>1. x \in Procs /\ Selected(x, o) /\ x # p
      BY <1>6, <2>4 DEF Selected
    <3>2. UNCHANGED <<backend, acs>> /\ call'[x] = call[x] /\ pending'[o] = pending[o]
      BY <1>11, <2>4, <3>1 DEF delete_and_commit, Taken, TypeOK
    <3> QED
      BY <1>2, <2>3, <2>4, <3>1, <3>2, SelectedKept
  <2> HIDE DEF q
  <2> QED
    BY <2>3, <2>4
<1>12. ASSUME NEW p \in Procs, abandon_acs(p) PROVE Locks
  <2>1. /\ UNCHANGED <<backend, pending>> /\ \A q \in Requests : lock'[q] = lock[q] \ {p}
        /\ \A o \in Procs : o # p => acs'[o] = acs[o] /\ call'[o] = call[o]
    BY <1>12 DEF abandon_acs, abandon, vars, TypeOK
  <2>2. ASSUME NEW q \in Requests, NEW x \in lock'[q] PROVE Selected(x, q)'
    <3>1. x \in lock[q] /\ x # p
      BY <2>1, <2>2
    <3>2. x \in Procs /\ Selected(x, q)
      BY <1>6, <3>1
    <3>3. lock'[q] = lock[q]
      BY <2>1, <3>1, <3>2 DEF Selected
    <3> QED
      BY <1>2, <2>1, <3>1, <3>2, <3>3, SelectedKept
  <2> QED
    BY <2>2
<1>13. ASSUME NEW p \in Procs, NEW q \in Requests, NEW r \in Realms, NEW a \in Assertions,
              begin_acs(p, q, r, a)
       PROVE  Locks
  <2>1. \A o \in Requests : p \notin lock[o]
    BY <1>6, <1>13 DEF begin_acs, Selected, Posted
  <2> QED
    BY <1>9, <1>13, <2>1 DEF begin_acs, vars
<1>14. ASSUME NEW p \in Procs, check_response(p) \/ record_assertion(p) \/ finish(p) PROVE Locks
  <2>1. call[p] # None
    BY <1>14 DEF check_response, record_assertion, finish, validate_saml_response,
                 record_assertion_id, saml_acs
  <2>2. \A o \in Requests : p \notin lock[o]
    BY <1>6, <2>1 DEF Selected, Posted
  <2>3. /\ UNCHANGED <<backend, lock, pending>>
        /\ \A o \in Procs : o # p => acs'[o] = acs[o] /\ call'[o] = call[o]
    BY <1>14 DEF check_response, record_assertion, finish, validate_saml_response,
                 record_assertion_id, saml_acs, TypeOK
  <2> QED
    BY <1>9, <2>2, <2>3
<1>15. ASSUME NEW p \in Procs, delete_returning(p) \/ getdel(p) PROVE Locks
  BY <1>8, <1>15 DEF delete_returning, getdel
<1>16. ASSUME NEW t \in 0..now, delete_expired(t) PROVE Locks
  <2>1. UNCHANGED <<backend, lock, acs>> /\ call' = call
    BY <1>16 DEF delete_expired, purge_pending, purge_seen, vars
  <2>2. pending' = pending \/ \A q \in Requests : lock[q] = {}
    BY <1>16 DEF delete_expired, purge_seen, vars
  <2> QED
    BY <1>5, <2>1, <2>2
<1>17. ASSUME expire_key PROVE Locks
  <2>1. backend = "redis" /\ UNCHANGED lock
    BY <1>17 DEF expire_key, Due
  <2> HIDE DEF Locks
  <2> QED
    BY <1>8, <2>1
<1>18. ASSUME UNCHANGED <<backend, lock, acs, call, pending>> PROVE Locks
  BY <1>5, <1>18
<1>19. Locks
  <2>1. ASSUME NEW p \in Procs, Respond(p) PROVE Locks
    <3> HIDE DEF Locks
    <3> QED
      BY <1>10, <1>11, <1>12, <1>13, <1>14, <1>15, <2>1 DEF Respond
  <2>2. ASSUME \/ \E r \in Realms, b \in Bodies : save_realm(r, b)
               \/ \E r \in Realms : remove_settings(r)
               \/ \E p \in Procs, r \in Realms, to \in Origins \cup {None} : begin_login(p, r, to)
               \/ \E p \in Procs : abandon_login(p)
               \/ \E a \in Assertions, q \in Requests : provider_issues(a, q)
               \/ Clock
               \/ UNCHANGED rvars
        PROVE  UNCHANGED <<backend, lock, acs, call, pending>>
    BY <2>2 DEF save_realm, remove_settings, Change, begin_login, abandon_login,
                provider_issues, issue, Clock, Tick, rvars, added, vars
  <2> HIDE DEF Locks
  <2>3. ASSUME \E p \in Procs, q \in Requests : store_pending_request(p, q) PROVE Locks
    BY <1>7, <2>3
  <2>4. CASE \E t \in 0..now : delete_expired(t)
    BY <1>16, <2>4
  <2>5. CASE \E p \in Procs : Respond(p)
    BY <2>1, <2>5
  <2> QED
    BY <1>17, <1>18, <2>2, <2>3, <2>4, <2>5 DEF RealmNext
<1> QED
  BY <1>3, <1>4, <1>19 DEF LockInv

\* The types, the life of the Redis keys and the locks of MySQL, for every store.
LEMMA RealmInvariance == RealmSpec => []RealmInv
<1>1. RealmInit => RealmInv
  <2> SUFFICES ASSUME RealmInit PROVE RealmInv
    OBVIOUS
  <2>1. TypeOK /\ HeldIssued
    BY DEF RealmInit, Init, TypeOK, HeldIssued
  <2>2. ASSUME NEW r \in Realms PROVE params[r] \in SamlParams \cup {None}
    BY SavedSound DEF RealmInit, Saved, ParamsSound
  <2>3. params \in [Realms -> SamlParams \cup {None}]
    BY <2>2 DEF RealmInit
  <2>4. RealmTypeOK
    BY <2>1, <2>3 DEF RealmInit, RealmTypeOK
  <2>5. ExpiryInv /\ LockInv
    BY DEF RealmInit, Init, ExpiryInv, LockInv
  <2> QED
    BY <2>1, <2>4, <2>5 DEF RealmInv
<1>2. RealmInv /\ [RealmNext]_rvars => RealmInv'
  BY RealmTypeStep, ExpiryStep, LockStep DEF RealmInv
<1> QED
  BY <1>1, <1>2, PTL DEF RealmSpec

\* Each of the stores, with whatever settings administrators save meanwhile,
\* implements SamlLogin (saml/impls).
THEOREM SamlLoginRefinement == RealmSpec => SamlLoginSpec
<1>1. RealmInit => Init
  BY DEF RealmInit
<1>2. RealmSpec => Spec
  BY <1>1, SamlStep, RealmInvariance, PTL DEF RealmSpec, Spec
<1> QED
  BY <1>2 DEF SamlLoginSpec

\* So single use of requests and of assertions holds on SQLite, PostgreSQL, MySQL
\* and Redis alike (take_pending_request and record_assertion_id of saml/impls).
THEOREM SingleUseOnEveryStore == RealmSpec => [](RequestOnce /\ AssertionOnce /\ ReplayRemembered)
<1>1. RealmSpec => Spec
  BY SamlLoginRefinement DEF SamlLoginSpec
<1> QED
  BY <1>1, RequestOnceAlways, AssertionOnceAlways, ReplayRememberedAlways, PTL

-----------------------------------------------------------------------------
(***************************************************************************)
(* The contract of the trait.  A request that was handed out is gone, and  *)
(* an assertion that was called new is in the store until the second it    *)
(* had to be remembered to has come.                                       *)
(***************************************************************************)
StoreInv ==
  /\ \A q \in Requests : taken[q] # 0 => q \in started /\ taken[q] = 1
  /\ \A q \in Requests : (taken[q] # 0 \/ q \notin started) => pending[q] = None
  /\ \A x \in Realms \X Assertions :
       fresh[x] # None => seen[x] = fresh[x] \/ fresh[x] <= Sec(now)

\* A step that only drops expired requests, or changes nothing the contract
\* speaks of.
LEMMA ForgetStep ==
  ASSUME StoreInv, TypeOK, UNCHANGED <<now, taken, fresh>>,
         NEW Q \in SUBSET Requests, UNCHANGED pending \/ purge_pending(Q, now)
  PROVE  [Store!Next]_(Store!vars)
<1>1. CASE UNCHANGED pending
  BY <1>1 DEF Store!vars
<1>2. CASE purge_pending(Q, now)
  <2>1. /\ Q \in SUBSET {q \in Requests : pending[q] # None /\ Store!Expired(pending[q], now)}
        /\ pending' = [q \in Requests |-> IF q \in Q THEN None ELSE pending[q]]
    BY <1>2 DEF purge_pending, Store!Expired, Sec
  <2> QED
    BY <2>1 DEF Store!Next, Store!Forget
<1> QED
  BY <1>1, <1>2

\* Handing out a request, by whichever statement of the stores.
LEMMA TakeStep ==
  ASSUME RealmInv, StoreInv, NEW p \in Procs, Posted(p),
         take_pending_request(p, acs[p].req, acs[p].realm, acs[p].assertion),
         HandOut(acs[p].req), UNCHANGED fresh
  PROVE  Store!Next /\ StoreInv'
<1> DEFINE q == acs[p].req
<1>1. q \in Requests /\ pending \in [Requests -> Pending \cup {None}]
  BY DEF Posted, RealmInv, RealmTypeOK, TypeOK
<1>2. /\ pending[q] # None /\ pending' = [pending EXCEPT ![q] = None]
      /\ UNCHANGED <<now, seen, started>>
  BY DEF take_pending_request, Taken
<1>3. taken[q] = 0 /\ q \in started
  BY <1>1, <1>2 DEF StoreInv
<1>4. taken \in [Requests -> Nat] /\ taken' = [taken EXCEPT ![q] = 1]
  BY <1>3 DEF HandOut, RealmInv, RealmTypeOK
<1> HIDE DEF q
<1>5. Store!TakePending(q)
  BY <1>2, <1>3, <1>4 DEF Store!TakePending, q
<1>6. StoreInv'
  BY <1>1, <1>2, <1>3, <1>4 DEF StoreInv, Sec, q
<1> QED
  BY <1>1, <1>5, <1>6 DEF Store!Next

\* Calling an assertion new: an earlier record of it no longer had to hold.
LEMMA RecordStep ==
  ASSUME RealmInv, StoreInv, NEW p \in Procs, record_assertion(p)
  PROVE  [Store!Next]_(Store!vars) /\ StoreInv'
<1> DEFINE x == <<call[p].realm, call[p].assertion>>
<1> TypeOK
  BY DEF RealmInv, RealmTypeOK
<1>1. /\ call[p] \in Call /\ issued[call[p].assertion] # None
      /\ UNCHANGED <<now, pending, started, taken>>
  BY DEF record_assertion, record_assertion_id, TypeOK, RealmInv, HeldIssued
<1>2. x \in Realms \X Assertions /\ x[2] = call[p].assertion /\ KeptUntil(x[2]) \in Nat
  BY <1>1, KeptType DEF Call
<1> HIDE DEF x
<1>3. CASE call'[p] = None
  <2>1. fresh' = fresh
    BY <1>3 DEF record_assertion
  <2>2. seen' = seen
    <3>1. CASE seen[x] = None
      <4>1. call'[p] = [pc |-> "session", req |-> call[p].req, realm |-> call[p].realm,
                        assertion |-> call[p].assertion]
        BY <3>1 DEF record_assertion, record_assertion_id, TypeOK, x
      <4>2. call'[p] \in Call
        BY <1>1, <4>1 DEF Call
      <4> QED
        BY <1>3, <4>2, SamlAssumption DEF Call
    <3>2. CASE seen[x] # None
      BY <3>2 DEF record_assertion, record_assertion_id, x
    <3> QED
      BY <3>1, <3>2
  <2> QED
    BY <1>1, <2>1, <2>2 DEF StoreInv, Sec, Store!vars
<1>4. CASE call'[p] # None
  <2>1. fresh' = [fresh EXCEPT ![x] = KeptUntil(x[2])]
    BY <1>4 DEF record_assertion, x
  <2>2. seen[x] = None /\ seen' = [seen EXCEPT ![x] = KeptUntil(x[2])]
    <3>1. seen[x] = None
      BY <1>4 DEF record_assertion, record_assertion_id, TypeOK, x
    <3> QED
      BY <1>2, <3>1 DEF record_assertion, record_assertion_id, x
  <2>3. fresh \in [Realms \X Assertions -> Nat \cup {None}]
    BY DEF RealmInv, RealmTypeOK
  <2>4. fresh[x] = None \/ fresh[x] <= now \div 2
    BY <1>2, <2>2, <2>3 DEF StoreInv, Sec
  <2>5. fresh'[x] = KeptUntil(x[2])
    BY <1>2, <2>1, <2>3
  <2>6. Store!RecordAssertion(x)
    BY <1>1, <1>2, <2>1, <2>4, <2>5 DEF Store!RecordAssertion
  <2>7. StoreInv'
    BY <1>1, <1>2, <2>1, <2>2, <2>3 DEF StoreInv, Sec, TypeOK
  <2> QED
    BY <1>2, <2>6, <2>7 DEF Store!Next
<1> QED
  BY <1>3, <1>4

\* Every step of the stores is one of the contract, and keeps the invariant.
LEMMA StoreStep == RealmInv /\ StoreInv /\ [RealmNext]_rvars => [Store!Next]_(Store!vars) /\ StoreInv'
<1> DEFINE Goal == [Store!Next]_(Store!vars) /\ StoreInv'
<1> SUFFICES ASSUME RealmInv, StoreInv, [RealmNext]_rvars PROVE Goal
  OBVIOUS
<1> TypeOK /\ now \in Nat
  BY DEF RealmInv, RealmTypeOK, TypeOK
<1>1. ASSUME NEW Q \in SUBSET Requests, UNCHANGED pending \/ purge_pending(Q, now),
             UNCHANGED <<now, started, taken, fresh>>,
             \A x \in Realms \X Assertions : seen'[x] = seen[x] \/ seen[x] <= Sec(now)
      PROVE  Goal
  <2>1. \A q \in Requests : pending[q] = None => pending'[q] = None
    BY <1>1 DEF purge_pending
  <2>2. StoreInv'
    BY <1>1, <2>1 DEF StoreInv, Sec
  <2> QED
    BY <1>1, <2>2, ForgetStep
<1>2. ASSUME UNCHANGED <<now, pending, seen, started, taken, fresh>> PROVE Goal
  BY <1>1, <1>2
<1>3. ASSUME NEW p \in Procs, NEW q \in Requests, store_pending_request(p, q) PROVE Goal
  <2>1. PICK t \in 0..now : pending' = [pending EXCEPT ![q] =
                              [realm |-> login[p].realm, expires_at |-> Sec(t) + PendingSecs]]
    BY <1>3 DEF store_pending_request, saml_login
  <2>2. login[p].realm \in Realms
    BY <1>3 DEF store_pending_request, RealmInv, RealmTypeOK
  <2>3. pending'[q] \in [realm : Realms, expires_at : Nat]
    BY <2>1, <2>2, Seconds, SamlAssumption DEF TypeOK
  <2>4. /\ q \notin started /\ started' = started \cup {q}
        /\ UNCHANGED <<now, seen, taken, fresh>>
    BY <1>3 DEF store_pending_request, saml_login
  <2>5. pending' = [pending EXCEPT ![q] = pending'[q]]
    BY <2>1 DEF TypeOK
  <2>6. Store!StorePending(q)
    BY <2>3, <2>4, <2>5 DEF Store!StorePending, StoreInv
  <2>7. StoreInv'
    BY <2>1, <2>4 DEF StoreInv, Sec, TypeOK
  <2> QED
    BY <2>6, <2>7 DEF Store!Next
<1>4. ASSUME NEW p \in Procs, delete_returning(p) \/ delete_and_commit(p) PROVE Goal
  BY <1>4, TakeStep, CommitTakes DEF delete_returning, delete_and_commit
<1>5. ASSUME NEW p \in Procs, getdel(p) PROVE Goal
  <2>1. CASE StillPending(pending[acs[p].req], now)
    BY <1>5, <2>1, TakeStep DEF getdel
  <2>2. CASE ~StillPending(pending[acs[p].req], now)
    <3>1. {acs[p].req} \in SUBSET Requests
      BY <1>5 DEF getdel, Posted, RealmInv, RealmTypeOK
    <3>2. purge_pending({acs[p].req}, now) /\ UNCHANGED <<now, seen, started, taken, fresh>>
      BY <1>5, <2>2 DEF getdel, purge_pending
    <3> QED
      BY <1>1, <3>1, <3>2
  <2> QED
    BY <2>1, <2>2
<1>6. ASSUME NEW p \in Procs, record_assertion(p) PROVE Goal
  BY <1>6, RecordStep
<1>7. ASSUME NEW t \in 0..now, delete_expired(t) PROVE Goal
  <2> DEFINE Q == {q \in Requests : pending[q] # None /\ pending[q].expires_at <= Sec(t)}
             X == {x \in DOMAIN seen : seen[x] # None /\ seen[x] <= Sec(t)}
  <2>1. Q \in SUBSET Requests /\ X \in SUBSET (Realms \X Assertions)
    BY DEF TypeOK
  <2>2. UNCHANGED vars \/ purge_pending(Q, t) \/ purge_seen(X, t)
    BY <1>7 DEF delete_expired
  <2>3. UNCHANGED <<taken, fresh>>
    BY <1>7 DEF delete_expired
  <2> HIDE DEF Q, X
  <2>4. CASE UNCHANGED vars
    BY <1>2, <2>3, <2>4 DEF vars
  <2>5. CASE purge_pending(Q, t)
    <3>1. purge_pending(Q, now)
      BY <2>1, <2>5, PurgeSteps
    <3> QED
      BY <1>1, <2>1, <2>3, <3>1 DEF purge_pending
  <2>6. CASE purge_seen(X, t)
    <3>1. purge_seen(X, now)
      BY <2>1, <2>6, PurgeSteps
    <3> QED
      BY <1>1, <2>1, <2>3, <3>1 DEF purge_seen
  <2> QED
    BY <2>2, <2>4, <2>5, <2>6
<1>8. CASE expire_key
  <2>1. UNCHANGED <<now, started, taken, fresh>>
    BY <1>8 DEF expire_key
  <2>2. ASSUME NEW q \in Requests, Due(q), pending[q] # None,
               pending' = [pending EXCEPT ![q] = None], UNCHANGED seen
        PROVE  Goal
    <3>1. pending' = [o \in Requests |-> IF o \in {q} THEN None ELSE pending[o]]
      BY <2>2 DEF TypeOK
    <3>2. purge_pending({q}, now)
      BY <1>8, <2>2, <3>1, PurgeSteps DEF purge_pending, expire_key
    <3> QED
      BY <1>1, <2>1, <2>2, <3>2
  <2>3. ASSUME NEW x \in DOMAIN seen, Due(x), seen[x] # None,
               seen' = [seen EXCEPT ![x] = None], UNCHANGED pending
        PROVE  Goal
    <3>1. DOMAIN seen = Realms \X Assertions
      BY DEF TypeOK
    <3>2. seen[x] <= Sec(now) /\ \A y \in Realms \X Assertions : y # x => seen'[y] = seen[y]
      BY <2>3, <3>1, PurgeSteps DEF TypeOK
    <3> QED
      BY <1>1, <2>1, <2>3, <3>2
  <2> QED
    BY <1>8, <2>2, <2>3 DEF expire_key
<1>9. CASE Clock
  <2>1. now' = now + 1 /\ UNCHANGED <<pending, seen, started, taken, fresh>>
    BY <1>9 DEF Clock, Tick
  <2>2. Sec(now) \in Nat /\ Sec(now) <= Sec(now + 1) /\ Sec(now + 1) \in Nat
    BY Seconds, SecondsGrow
  <2>3. fresh \in [Realms \X Assertions -> Nat \cup {None}]
    BY DEF RealmInv, RealmTypeOK
  <2>4. \A x \in Realms \X Assertions : fresh[x] # None /\ fresh[x] <= Sec(now) => fresh[x] <= Sec(now + 1)
    BY <2>2, <2>3
  <2>5. StoreInv'
    <3>1. Sec(now)' = Sec(now + 1)
      BY <2>1 DEF Sec
    <3> QED
      BY <2>1, <2>4, <3>1 DEF StoreInv
  <2> QED
    BY <2>1, <2>5 DEF Store!Next, Store!Pass
<1>10. ASSUME NEW p \in Procs,
              select_for_update(p) \/ check_response(p) \/ finish(p) \/ abandon_acs(p)
       PROVE  Goal
  BY <1>2, <1>10 DEF select_for_update, check_response, finish, abandon_acs, validate_saml_response,
                     saml_acs, abandon, vars
<1>11. CASE UNCHANGED rvars
  BY <1>2, <1>11 DEF rvars, added, vars
<1> HIDE DEF Goal
<1> QED
  BY <1>2, <1>3, <1>4, <1>5, <1>6, <1>7, <1>8, <1>9, <1>10, <1>11
  DEF RealmNext, Respond, save_realm, remove_settings, Change, begin_login, abandon_login,
      provider_issues, issue, begin_acs, vars

\* MySQL's lock and delete, SQLite's and PostgreSQL's single statement and Redis's
\* expiring keys all keep the contract of SamlRequestStore (saml/request_store.rs).
THEOREM StoreRefinement == RealmSpec => StoreContract
<1>1. RealmInit => Store!Init /\ StoreInv
  BY DEF RealmInit, Init, Store!Init, StoreInv
<1>2. RealmSpec => Store!Spec
  BY <1>1, StoreStep, RealmInvariance, PTL DEF RealmSpec, Store!Spec
<1> QED
  BY <1>2 DEF StoreContract

-----------------------------------------------------------------------------
(***************************************************************************)
(* The settings a login is answered under.  A response keeps the settings  *)
(* that were read for it, which were sound when they were saved, and every *)
(* step after its validation relies on a certificate of theirs.            *)
(***************************************************************************)
SettingsInv ==
  /\ \A r \in Realms : params[r] # None => ParamsSound(params[r])
  /\ \A p \in Procs : login[p] # None => login[p].url \in login[p].allowed
  /\ \A q \in started : url[q] \in allowed[q]

AcsSound(p) ==
  /\ ParamsSound(acs[p].params) /\ acs[p].req \in started
  /\ acs[p].params.certs \subseteq held[p]

CallSound(p) ==
  /\ acs[p] # None /\ acs[p].assertion = call[p].assertion
  /\ call[p].pc # "validate" => Trusts(acs[p].params, acs[p].assertion)

AnswerInv ==
  /\ SettingsInv
  /\ \A p \in Procs : acs[p] # None => AcsSound(p)
  /\ \A p \in Procs : call[p] # None => CallSound(p)

\* Settings are only saved when they are sound; a login keeps the origins it was
\* started under with its return URL.
LEMMA SettingsStep == RealmInv /\ SettingsInv /\ [RealmNext]_rvars => SettingsInv'
<1> SUFFICES ASSUME RealmInv, SettingsInv, [RealmNext]_rvars PROVE SettingsInv'
  OBVIOUS
<1> RealmTypeOK /\ started \subseteq Requests
  BY DEF RealmInv, RealmTypeOK, TypeOK
<1>1. ASSUME NEW r \in Realms, NEW s, s = None \/ ParamsSound(s), Change(r, s) PROVE SettingsInv'
  <2>1. \A o \in Realms : params'[o] = IF o = r THEN s ELSE params[o]
    BY <1>1 DEF Change, RealmTypeOK
  <2> QED
    BY <1>1, <2>1 DEF Change, SettingsInv, ParamsSound, vars
<1>2. ASSUME NEW r \in Realms, NEW b \in Bodies, save_realm(r, b) PROVE SettingsInv'
  BY <1>1, <1>2, SavedSound DEF save_realm
<1>3. ASSUME NEW p \in Procs, NEW r \in Realms, NEW to \in Origins \cup {None}, begin_login(p, r, to)
      PROVE  SettingsInv'
  <2> DEFINE l == [realm |-> r, url |-> resolve_return_url(params[r], to),
                   allowed |-> params[r].origins]
  <2>1. l.url \in l.allowed
    BY <1>3 DEF begin_login, resolve_return_url, SettingsInv, ParamsSound
  <2> HIDE DEF l
  <2>2. \A o \in Procs : login'[o] = IF o = p THEN l ELSE login[o]
    BY <1>3 DEF begin_login, RealmTypeOK, l
  <2> QED
    BY <1>3, <2>1, <2>2 DEF begin_login, SettingsInv, ParamsSound, vars
<1>4. ASSUME NEW p \in Procs, NEW q \in Requests, store_pending_request(p, q) PROVE SettingsInv'
  <2>1. /\ started' = started \cup {q} /\ params' = params
        /\ \A o \in Procs : login'[o] = IF o = p THEN None ELSE login[o]
    BY <1>4 DEF store_pending_request, saml_login, RealmTypeOK
  <2>2. \A o \in Requests : /\ url'[o] = IF o = q THEN login[p].url ELSE url[o]
                            /\ allowed'[o] = IF o = q THEN login[p].allowed ELSE allowed[o]
    BY <1>4 DEF store_pending_request, RealmTypeOK
  <2>3. login[p] # None
    BY <1>4 DEF store_pending_request
  <2> QED
    BY <2>1, <2>2, <2>3 DEF SettingsInv, ParamsSound
<1>5. ASSUME NEW p \in Procs, abandon_login(p) PROVE SettingsInv'
  BY <1>5 DEF abandon_login, SettingsInv, ParamsSound, RealmTypeOK, vars
<1>6. ASSUME UNCHANGED <<params, login, url, allowed, started>> PROVE SettingsInv'
  BY <1>6 DEF SettingsInv, ParamsSound
<1>7. ASSUME NEW p \in Procs, Respond(p) PROVE SettingsInv'
  <2>1. UNCHANGED <<params, login, url, allowed>>
    BY <1>7 DEF Respond, begin_acs, delete_returning, select_for_update, delete_and_commit, getdel,
                check_response, record_assertion, finish, abandon_acs
  <2>2. started' = started
    BY <1>7 DEF Respond, begin_acs, delete_returning, select_for_update, delete_and_commit, getdel,
                check_response, record_assertion, finish, abandon_acs, take_pending_request,
                purge_pending, validate_saml_response, record_assertion_id, saml_acs, abandon, vars
  <2> QED
    BY <1>6, <2>1, <2>2
<1>8. ASSUME NEW t \in 0..now, delete_expired(t) PROVE SettingsInv'
  BY <1>6, <1>8 DEF delete_expired, purge_pending, purge_seen, vars
<1> QED
  BY <1>1, <1>2, <1>3, <1>4, <1>5, <1>6, <1>7, <1>8
  DEF RealmNext, remove_settings, provider_issues, issue, expire_key, Clock, Tick, rvars, added, vars

\* Request identifiers stay in use.
LEMMA StartedGrows == ASSUME RealmInv, [RealmNext]_rvars PROVE started \subseteq started'
<1>1. [Next]_vars
  BY SamlStep
<1> QED
  BY <1>1 DEF Next, Handle, saml_login, issue, take_pending_request, validate_saml_response,
              record_assertion_id, saml_acs, abandon, purge_pending, purge_seen, Tick, vars

\* The settings of a response are sound, and their certificates were trusted
\* during it.
LEMMA AcsStep ==
  ASSUME RealmInv, AnswerInv, RealmNext, NEW p \in Procs, acs'[p] # None
  PROVE  AcsSound(p)'
<1>1. started \subseteq started'
  BY StartedGrows
<1>2. held'[p] = held[p] \cup CertsOf(acs'[p].realm)
  BY DEF RealmNext, Observe
<1>3. CASE acs'[p] = acs[p]
  BY <1>1, <1>2, <1>3 DEF AnswerInv, AcsSound, ParamsSound
<1>4. CASE acs'[p] # acs[p]
  <2>1. /\ acs'[p].req \in started /\ acs'[p].realm \in Realms
        /\ params[acs'[p].realm] # None /\ acs'[p].params = params[acs'[p].realm]
    BY <1>4, AcsSteps
  <2>2. ParamsSound(acs'[p].params)
    BY <2>1 DEF AnswerInv, SettingsInv
  <2>3. acs'[p].params.certs \subseteq held'[p]
    BY <1>2, <2>1 DEF CertsOf
  <2> QED
    BY <1>1, <2>1, <2>2, <2>3 DEF AcsSound, ParamsSound
<1> QED
  BY <1>3, <1>4

\* A response that is consumed is the one that was posted, and past its
\* validation a certificate of its settings signed it.
LEMMA CallStep ==
  ASSUME RealmInv, AnswerInv, RealmNext, NEW p \in Procs, call'[p] # None
  PROVE  CallSound(p)'
<1> DEFINE Acs == [req : Requests, realm : Realms, assertion : Assertions, params : SamlParams]
<1> acs \in [Procs -> Acs \cup {None}] /\ call \in [Procs -> Call \cup {None}]
  BY DEF RealmInv, RealmTypeOK, TypeOK
<1> HIDE DEF Acs
<1>1. ASSUME call'[p] = call[p], acs'[p] = acs[p] PROVE CallSound(p)'
  BY <1>1 DEF AnswerInv, CallSound, Trusts
<1>2. ASSUME NEW o \in Procs, Respond(o), o # p PROVE call'[p] = call[p] /\ acs'[p] = acs[p]
  <2>1. acs'[p] = acs[p]
    BY <1>2 DEF Respond, begin_acs, delete_returning, select_for_update, delete_and_commit, getdel,
                check_response, record_assertion, finish, abandon_acs
  <2>2. call'[p] = call[p]
    BY <1>2 DEF Respond, begin_acs, delete_returning, select_for_update, delete_and_commit, getdel,
                check_response, record_assertion, finish, abandon_acs, take_pending_request,
                purge_pending, validate_saml_response, record_assertion_id, saml_acs, abandon, vars
  <2> QED
    BY <2>1, <2>2
<1>3. ASSUME NEW q, NEW r, Posted(p), take_pending_request(p, q, r, acs[p].assertion), acs' = acs
      PROVE  CallSound(p)'
  <2>1. call'[p] = [pc |-> "validate", req |-> q, realm |-> r, assertion |-> acs[p].assertion]
    BY <1>3 DEF take_pending_request
  <2> QED
    BY <1>3, <2>1 DEF CallSound, Posted
<1>4. CASE delete_returning(p) \/ delete_and_commit(p)
  BY <1>3, <1>4, CommitTakes DEF delete_returning, delete_and_commit
<1>5. CASE getdel(p)
  <2>1. CASE StillPending(pending[acs[p].req], now)
    BY <1>3, <1>5, <2>1 DEF getdel
  <2>2. CASE ~StillPending(pending[acs[p].req], now)
    BY <1>5, <2>2 DEF getdel, Posted, purge_pending
  <2> QED
    BY <2>1, <2>2
<1>6. CASE check_response(p)
  <2>1. Trusts(acs[p].params, acs[p].assertion) /\ acs' = acs /\ acs[p] # None
    BY <1>6 DEF check_response
  <2>2. call[p] # None /\ call'[p].assertion = call[p].assertion
    BY <1>6 DEF check_response, validate_saml_response
  <2> QED
    BY <2>1, <2>2 DEF AnswerInv, CallSound, Trusts
<1>7. CASE record_assertion(p)
  <2>1. call[p] # None /\ call[p].pc = "record" /\ call'[p].assertion = call[p].assertion
    BY <1>7 DEF record_assertion, record_assertion_id
  <2>2. acs' = acs
    BY <1>7 DEF record_assertion
  <2> QED
    BY <2>1, <2>2 DEF AnswerInv, CallSound, Trusts
<1>8. CASE finish(p) \/ abandon_acs(p)
  BY <1>8 DEF finish, abandon_acs, saml_acs, abandon, vars
<1>9. ASSUME NEW q \in Requests, NEW r \in Realms, NEW a \in Assertions, begin_acs(p, q, r, a)
      PROVE  CallSound(p)'
  <2>1. acs[p] = None /\ call[p] # None
    BY <1>9 DEF begin_acs, vars
  <2> QED
    BY <2>1 DEF AnswerInv, CallSound
<1>10. CASE select_for_update(p)
  BY <1>1, <1>10 DEF select_for_update, vars
<1>11. CASE Respond(p)
  BY <1>4, <1>5, <1>6, <1>7, <1>8, <1>9, <1>10, <1>11 DEF Respond
<1>12. ASSUME NEW t \in 0..now, delete_expired(t) PROVE call' = call /\ acs' = acs
  BY <1>12 DEF delete_expired, purge_pending, purge_seen, vars
<1>13. CASE \E o \in Procs : Respond(o)
  BY <1>1, <1>2, <1>11, <1>13
<1> QED
  BY <1>1, <1>12, <1>13
  DEF RealmNext, save_realm, remove_settings, Change, begin_login, store_pending_request, saml_login,
      abandon_login, provider_issues, issue, expire_key, Clock, Tick, vars

\* What a response relies on holds at every moment, whatever is saved meanwhile.
LEMMA AnswerInvariance == RealmSpec => []AnswerInv
<1>1. RealmInit => AnswerInv
  <2> SUFFICES ASSUME RealmInit PROVE AnswerInv
    OBVIOUS
  <2>1. ASSUME NEW r \in Realms, params[r] # None PROVE ParamsSound(params[r])
    BY <2>1, SavedSound DEF RealmInit, Saved
  <2> QED
    BY <2>1 DEF RealmInit, Init, AnswerInv, SettingsInv
<1>2. RealmInv /\ AnswerInv /\ [RealmNext]_rvars => AnswerInv'
  <2> SUFFICES ASSUME RealmInv, AnswerInv, [RealmNext]_rvars PROVE AnswerInv'
    OBVIOUS
  <2>1. SettingsInv'
    BY SettingsStep DEF AnswerInv
  <2>2. CASE RealmNext
    BY <2>1, <2>2, AcsStep, CallStep DEF AnswerInv
  <2>3. CASE UNCHANGED rvars
    BY <2>1, <2>3 DEF AnswerInv, AcsSound, CallSound, ParamsSound, Trusts, rvars, added, vars
  <2> QED
    BY <2>2, <2>3
<1> QED
  BY <1>1, <1>2, RealmInvariance, PTL DEF RealmSpec

\* When a session is given, its response was validated against the settings that
\* were read for it.
LEMMA FinishFacts ==
  ASSUME AnswerInv, NEW p \in Procs, finish(p)
  PROVE  AcsSound(p) /\ Trusts(acs[p].params, acs[p].assertion)
BY DEF AnswerInv, CallSound, finish, saml_acs

\* A session is only given for an assertion signed with a certificate the realm
\* trusted at some moment of the post (consume_response, service_provider).
THEOREM TrustedDuringAcsAlways == RealmSpec => TrustedDuringAcs
<1> DEFINE A == \A p \in Procs : finish(p) => Content[acs[p].assertion].cert \in held[p]
<1>1. AnswerInv => A
  BY FinishFacts DEF AcsSound, Trusts
<1>2. AnswerInv /\ [RealmNext]_rvars => [A]_rvars
  BY <1>1
<1> HIDE DEF A
<1>3. RealmSpec => [][A]_rvars
  BY <1>2, AnswerInvariance, PTL DEF RealmSpec
<1> QED
  BY <1>3 DEF TrustedDuringAcs, A

\* The browser is only sent to an origin the realm allowed when this login
\* started (resolve_return_url, validate_return_urls).
THEOREM RedirectAllowedAlways == RealmSpec => RedirectAllowed
<1> DEFINE A == \A p \in Procs : finish(p) => url[acs[p].req] \in allowed[acs[p].req]
<1>1. AnswerInv => A
  BY FinishFacts DEF AcsSound, AnswerInv, SettingsInv
<1>2. AnswerInv /\ [RealmNext]_rvars => [A]_rvars
  BY <1>1
<1> HIDE DEF A
<1>3. RealmSpec => [][A]_rvars
  BY <1>2, AnswerInvariance, PTL DEF RealmSpec
<1> QED
  BY <1>3 DEF RedirectAllowed, A

\* A session is never named by a NameID that changes with every login, and its
\* claims never shadow the server's own (map_identity).
THEOREM IdentitySoundAlways == RealmSpec => IdentitySound
<1> DEFINE A == \A p \in Procs : finish(p) =>
                  /\ acs[p].params.subject_attribute \/ Content[acs[p].assertion].nameid = "persistent"
                  /\ extra_claims(acs[p].params, acs[p].assertion) \cap Reserved = {}
<1>1. RealmInv /\ AnswerInv => A
  <2> SUFFICES ASSUME RealmInv, AnswerInv, NEW p \in Procs, finish(p)
               PROVE  /\ acs[p].params.subject_attribute
                           \/ Content[acs[p].assertion].nameid = "persistent"
                      /\ extra_claims(acs[p].params, acs[p].assertion) \cap Reserved = {}
    OBVIOUS
  <2>1. acs[p].params.subject_attribute \/ Content[acs[p].assertion].nameid = "persistent"
    BY DEF finish, HasSubject, name_id_subject
  <2>2. acs[p].assertion \in Assertions
    BY DEF finish, RealmInv, RealmTypeOK
  <2>3. Content[acs[p].assertion].attributes \subseteq Attributes
    BY <2>2, SamlRealmAssumption DEF Assertion
  <2>4. {acs[p].params.claim_map[x] : x \in Attributes} \cap Reserved = {}
    BY FinishFacts DEF AcsSound, ParamsSound
  <2>5. extra_claims(acs[p].params, acs[p].assertion) \cap Reserved = {}
    BY <2>3, <2>4 DEF extra_claims
  <2> QED
    BY <2>1, <2>5
<1>2. RealmInv /\ AnswerInv /\ [RealmNext]_rvars => [A]_rvars
  BY <1>1
<1> HIDE DEF A
<1>3. RealmSpec => [][A]_rvars
  BY <1>2, AnswerInvariance, RealmInvariance, PTL DEF RealmSpec
<1> QED
  BY <1>3 DEF IdentitySound, A
=============================================================================
