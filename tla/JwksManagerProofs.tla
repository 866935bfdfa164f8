-------------------------- MODULE JwksManagerProofs --------------------------
(***************************************************************************)
(* For every set of realms, providers, keys and concurrent requests: the   *)
(* cache keeps its types, holds for a realm only keys that the realm's own *)
(* providers published, and throttles the refreshes of each request        *)
(* handler.  Its lock admits everybody until an entry is stale, and nobody *)
(* from then on.                                                           *)
(***************************************************************************)
EXTENDS JwksManager, FiniteSetTheorems, TLAPS

\* A request knows its realm, and while it looks a key up it knows the key and
\* has a provider left.
Sound(c) ==
  /\ c \in Call
  /\ c.pc # "idle" => c.realm \in Realms
  /\ c.pc \in {"find", "fetch_miss", "set"} => c.left # 0

TypeInv == TypeOK /\ \A p \in Procs : Sound(call[p])

\* The key sets are of the realm's own providers.
Own(sets, r) == \A u \in Uris : sets[u] \subseteq (IF u \in UrisOf[r] THEN ever[u] ELSE {})

\* What is published has been published, and so has what a request downloaded
\* and has not stored yet.
OwnInv ==
  /\ TypeInv
  /\ \A u \in Uris : idp[u] \subseteq ever[u]
  /\ \A p \in Procs : call[p].pc \in {"insert", "set"} => Own(call[p].fetched, call[p].realm)
  /\ OwnKeysOnly

\* The last refresh of a realm that a request handler began is still going on,
\* or the entry of the realm, if there is one, was stored after it began.
Settled(p, r) ==
  \/ call[p].pc \in {"fetch_miss", "set"} /\ call[p].realm = r
  \/ cache[r] = None
  \/ asked[<<p, r>>] <= cache[r].last_update

ThrottleInv ==
  /\ TypeInv
  /\ \A p \in Procs, r \in Realms :
       asked[<<p, r>>] # None => asked[<<p, r>>] <= now /\ Settled(p, r)

-----------------------------------------------------------------------------
\* The empty key sets.
LEMMA NoKeysType == NoKeys \in KeySets
BY DEF NoKeys, KeySets

\* A finished request.
LEMMA IdleSound == Sound(Idle)
BY NoKeysType DEF Sound, Idle, Call

\* The lookups a request begins or goes on with.
LEMMA LookUpSound ==
  ASSUME NEW r \in Realms, NEW k \in Kids \cup {None}, NEW n \in Nat
  PROVE  Sound(LookUp(r, k, n)) /\ LookUp(r, k, n).pc \in {"idle", "find"}
<1> DEFINE c == [pc |-> "find", realm |-> r, kid |-> k, left |-> n, fetched |-> NoKeys]
<1>1. c \in Call
  BY NoKeysType DEF Call
<1>2. n # 0 => Sound(c)
  BY <1>1 DEF Sound
<1>3. Idle.pc = "idle"
  BY DEF Idle
<1> QED
  BY <1>2, <1>3, IdleSound DEF LookUp

\* A download brings key sets.
LEMMA DownloadsType ==
  ASSUME TypeOK, NEW r \in Realms, NEW sets \in Downloads(r)
  PROVE  sets \in KeySets
BY DEF TypeOK, Downloads, KeySets

\* What find_jwk leaves its request with, when it returns.
LEMMA ReturnedSound ==
  ASSUME TypeInv, NEW p \in Procs, call[p].pc \in {"find", "set"},
         NEW a \in {"found", "not_found", "error"}, Returned(p, a) \/ Accepted(p)
  PROVE  /\ call' \in [Procs -> Call]
         /\ \A q \in Procs : q # p => call'[q] = call[q]
         /\ Sound(call'[p]) /\ call'[p].pc \in {"idle", "find"}
         /\ reply' \in [Procs -> {"none", "found", "not_found", "error"}]
<1> DEFINE c == LookUp(call[p].realm, call[p].kid, call[p].left - 1)
<1>1. /\ call[p].realm \in Realms /\ call[p].kid \in Kids \cup {None}
      /\ call[p].left - 1 \in Nat
  BY DEF TypeInv, Sound, Call
<1>2. Sound(c) /\ c.pc \in {"idle", "find"}
  BY <1>1, LookUpSound
<1>3. call' = [call EXCEPT ![p] = c] \/ call' = [call EXCEPT ![p] = Idle]
  BY DEF Returned, Accepted
<1> HIDE DEF c
<1>4. PICK d : Sound(d) /\ d.pc \in {"idle", "find"} /\ call' = [call EXCEPT ![p] = d]
  BY <1>2, <1>3, IdleSound DEF Idle
<1>5. reply' \in [Procs -> {"none", "found", "not_found", "error"}]
  BY DEF Returned, Accepted, TypeInv, TypeOK
<1> QED
  BY <1>4, <1>5 DEF Sound, TypeInv, TypeOK

\* Every request, every write and the clean-up task keep the types.
LEMMA TypeStep == TypeInv /\ [Next]_vars => TypeInv'
<1> SUFFICES ASSUME TypeInv, [Next]_vars PROVE TypeInv'
  OBVIOUS
<1> TypeOK /\ \A p \in Procs : Sound(call[p])
  BY DEF TypeInv
<1>1. ASSUME NEW p \in Procs, NEW c, Sound(c), call' = [call EXCEPT ![p] = c]
      PROVE  call' \in [Procs -> Call] /\ \A q \in Procs : Sound(call'[q])
  BY <1>1 DEF TypeOK, Sound
<1>2. ASSUME NEW p \in Procs, NEW r \in Realms, NEW k \in Kids \cup {None}, has_realm(p, r, k)
      PROVE  TypeInv'
  <2> DEFINE n == Cardinality(UrisOf[r])
             c == [pc |-> "fetch_new", realm |-> r, kid |-> k, left |-> n, fetched |-> NoKeys]
  <2>1. n \in Nat
    BY JwksAssumption, FS_CardinalityType
  <2>2. Sound(c) /\ Sound(LookUp(r, k, n))
    <3> HIDE DEF n
    <3>1. c \in Call
      BY <2>1, NoKeysType DEF Call
    <3> QED
      BY <2>1, <3>1, LookUpSound DEF Sound
  <2>3. call' = [call EXCEPT ![p] = c] \/ call' = [call EXCEPT ![p] = LookUp(r, k, n)]
    BY <1>2 DEF has_realm
  <2> HIDE DEF c, n
  <2>4. call' \in [Procs -> Call] /\ \A q \in Procs : Sound(call'[q])
    BY <1>1, <2>2, <2>3
  <2>5. reply' \in [Procs -> {"none", "found", "not_found", "error"}]
    BY <1>2 DEF has_realm, TypeOK
  <2> QED
    BY <1>2, <2>4, <2>5 DEF has_realm, TypeInv, TypeOK
<1>3. ASSUME NEW p \in Procs, fetch_all(p) PROVE TypeInv'
  <2>1. call[p] \in Call /\ call[p].realm \in Realms /\ call[p].pc \in {"fetch_new", "fetch_miss"}
        /\ (call[p].pc = "fetch_miss" => call[p].left # 0)
    BY <1>3 DEF fetch_all, Sound
  <2> DEFINE d(sets) == [call[p] EXCEPT !.pc = IF call[p].pc = "fetch_new" THEN "insert" ELSE "set",
                                        !.fetched = sets]
  <2>2. PICK sets \in Downloads(call[p].realm) : call' = [call EXCEPT ![p] = d(sets)]
    BY <1>3 DEF fetch_all
  <2>3. d(sets) \in Call
    BY <2>1, DownloadsType DEF Call
  <2>4. /\ d(sets).pc = IF call[p].pc = "fetch_new" THEN "insert" ELSE "set"
        /\ d(sets).realm = call[p].realm /\ d(sets).left = call[p].left
    BY <2>1 DEF Call
  <2> HIDE DEF d
  <2>5. Sound(d(sets))
    BY <2>1, <2>3, <2>4 DEF Sound
  <2>6. call' \in [Procs -> Call] /\ \A q \in Procs : Sound(call'[q])
    BY <1>1, <2>2, <2>5
  <2> QED
    BY <1>3, <2>6 DEF fetch_all, TypeInv, TypeOK
<1>4. ASSUME NEW p \in Procs, find_jwk(p) PROVE TypeInv'
  <2>1. call[p] \in Call /\ call[p].realm \in Realms /\ call[p].pc = "find" /\ call[p].left # 0
    BY <1>4 DEF find_jwk, Sound
  <2>2. CASE asked' = [asked EXCEPT ![<<p, call[p].realm>>] = now]
               /\ call' = [call EXCEPT ![p].pc = "fetch_miss"] /\ UNCHANGED reply
    <3> DEFINE d == [call[p] EXCEPT !.pc = "fetch_miss"]
    <3>1. d \in Call /\ d.pc = "fetch_miss" /\ d.realm = call[p].realm /\ d.left = call[p].left
      BY <2>1 DEF Call
    <3>2. Sound(d)
      BY <2>1, <3>1 DEF Sound
    <3>3. call' = [call EXCEPT ![p] = d]
      BY <2>2
    <3> HIDE DEF d
    <3>4. call' \in [Procs -> Call] /\ \A q \in Procs : Sound(call'[q])
      BY <1>1, <3>2, <3>3
    <3>5. asked' \in [Procs \X Realms -> Nat \cup {None}]
      BY <2>1, <2>2 DEF TypeOK
    <3> QED
      BY <1>4, <2>2, <3>4, <3>5 DEF find_jwk, TypeInv, TypeOK
  <2>3. CASE /\ \E a \in {"found", "not_found", "error"} : Returned(p, a) \/ Accepted(p)
             /\ UNCHANGED asked
    <3>1. /\ call' \in [Procs -> Call] /\ \A q \in Procs : Sound(call'[q])
          /\ reply' \in [Procs -> {"none", "found", "not_found", "error"}]
      BY <2>1, <2>3, ReturnedSound
    <3> QED
      BY <1>4, <2>3, <3>1 DEF find_jwk, TypeInv, TypeOK
  <2> QED
    BY <1>4, <2>2, <2>3 DEF find_jwk
<1>5. ASSUME NEW p \in Procs, call[p].pc = "insert", upsert_realm(p), UNCHANGED <<now, idp, ever, asked>>
      PROVE  TypeInv'
  <2>1. call[p].realm \in Realms /\ call[p].kid \in Kids \cup {None} /\ call[p].left \in Nat
        /\ call[p].fetched \in KeySets
    BY <1>5 DEF Sound, Call
  <2>2. call' \in [Procs -> Call] /\ \A q \in Procs : Sound(call'[q])
    <3>1. Sound(LookUp(call[p].realm, call[p].kid, call[p].left))
      BY <2>1, LookUpSound
    <3> QED
      BY <1>1, <1>5, <3>1 DEF upsert_realm
  <2>3. Stored(p) \in Entry
    BY <2>1 DEF Stored, Entry, TypeOK
  <2>4. cache' \in [Realms -> Entry \cup {None}]
    BY <1>5, <2>1, <2>3 DEF upsert_realm, TypeOK
  <2> QED
    BY <1>5, <2>2, <2>4 DEF upsert_realm, TypeInv, TypeOK
<1>6. ASSUME NEW p \in Procs, call[p].pc = "set", set_jwks(p), UNCHANGED <<now, idp, ever, asked>>
      PROVE  TypeInv'
  <2>1. call[p].realm \in Realms /\ call[p].fetched \in KeySets
    BY <1>6 DEF Sound, Call
  <2>2. /\ call' \in [Procs -> Call] /\ \A q \in Procs : Sound(call'[q])
        /\ reply' \in [Procs -> {"none", "found", "not_found", "error"}]
    BY <1>6, ReturnedSound DEF set_jwks
  <2>3. Stored(p) \in Entry
    BY <2>1 DEF Stored, Entry, TypeOK
  <2>4. cache' \in [Realms -> Entry \cup {None}]
    BY <1>6, <2>1, <2>3 DEF set_jwks, TypeOK
  <2> QED
    BY <1>6, <2>2, <2>4 DEF set_jwks, TypeInv, TypeOK
<1>7. ASSUME remove_realm, UNCHANGED <<now, idp, ever, asked>> PROVE TypeInv'
  BY <1>7 DEF remove_realm, TypeInv, TypeOK
<1>8. ASSUME NEW w \in Procs \cup {Cleaner}, write(w) PROVE TypeInv'
  BY <1>5, <1>6, <1>7, <1>8, JwksAssumption DEF write, Waiting
<1>9. CASE remove_stale_entries
  BY <1>9 DEF remove_stale_entries, Stale, TypeInv, TypeOK
<1>10. ASSUME NEW u \in Uris, NEW S \in SUBSET Kids, rotate(u, S) PROVE TypeInv'
  BY <1>10 DEF rotate, TypeInv, TypeOK, KeySets
<1>11. CASE Tick
  BY <1>11 DEF Tick, TypeInv, TypeOK
<1>12. CASE UNCHANGED vars
  BY <1>12 DEF vars, TypeInv, TypeOK
<1> QED
  BY <1>2, <1>3, <1>4, <1>8, <1>9, <1>10, <1>11, <1>12 DEF Next

\* The initial states.
LEMMA TypeInit == Init => TypeInv
<1> SUFFICES ASSUME Init PROVE TypeInv
  OBVIOUS
<1>1. Idle \in Call /\ \A p \in Procs : call[p] = Idle
  BY IdleSound DEF Sound, Init
<1>2. call \in [Procs -> Call] /\ now \in Nat /\ guard \in BOOLEAN /\ doomed \subseteq Realms
  BY <1>1 DEF Init
<1>3. /\ cache \in [Realms -> Entry \cup {None}] /\ idp \in KeySets /\ ever \in KeySets
      /\ reply \in [Procs -> {"none", "found", "not_found", "error"}]
  BY DEF Init
<1>4. asked \in [Procs \X Realms -> Nat \cup {None}]
  BY DEF Init
<1> QED
  BY <1>1, <1>2, <1>3, <1>4, IdleSound DEF TypeInv, TypeOK

\* The cache, the requests and the providers always have their types
\* (JwksManager and the requests of jwt_middleware.rs).
THEOREM JwksTypeCorrect == Spec => []TypeOK
<1>1. TypeInv => TypeOK
  BY DEF TypeInv
<1> QED
  BY <1>1, TypeInit, TypeStep, PTL DEF Spec

-----------------------------------------------------------------------------
\* A download brings only keys that the realm's own providers publish now.
LEMMA DownloadsOwn ==
  ASSUME \A u \in Uris : idp[u] \subseteq ever[u], NEW r, NEW sets \in Downloads(r)
  PROVE  Own(sets, r)
<1>1. PICK ok \in SUBSET UrisOf[r] : sets = [u \in Uris |-> IF u \in ok THEN idp[u] ELSE {}]
  BY DEF Downloads
<1> QED
  BY <1>1 DEF Own

\* A step that stores nothing, in which every request holds what it held or no
\* download, and the history only grows, keeps the keys of a realm its own.
LEMMA OwnKept ==
  ASSUME OwnInv, TypeInv', cache' = cache,
         \A u \in Uris : ever[u] \subseteq ever'[u] /\ idp'[u] \subseteq ever'[u],
         \A p \in Procs : call'[p].pc \in {"insert", "set"} =>
           Own(call'[p].fetched, call'[p].realm)
  PROVE  OwnInv'
<1>1. ASSUME NEW sets, NEW r, Own(sets, r)
      PROVE  \A u \in Uris : sets[u] \subseteq (IF u \in UrisOf[r] THEN ever'[u] ELSE {})
  BY <1>1 DEF Own
<1>2. OwnKeysOnly'
  BY <1>1 DEF OwnInv, OwnKeysOnly, Own
<1>3. \A p \in Procs : call'[p].pc \in {"insert", "set"} =>
        \A u \in Uris : call'[p].fetched[u]
                          \subseteq (IF u \in UrisOf[call'[p].realm] THEN ever'[u] ELSE {})
  BY <1>1
<1> QED
  BY <1>2, <1>3 DEF OwnInv, Own

\* Every download, write, rotation and clean-up keeps the keys of a realm its own.
LEMMA OwnStep == OwnInv /\ [Next]_vars => OwnInv'
<1> SUFFICES ASSUME OwnInv, [Next]_vars PROVE OwnInv'
  OBVIOUS
<1> TypeOK /\ TypeInv /\ TypeInv' /\ \A p \in Procs : Sound(call[p])
  BY TypeStep DEF OwnInv, TypeInv
<1> DEFINE Holds(p) == call[p].pc \in {"insert", "set"} => Own(call[p].fetched, call[p].realm)
<1>1. (\A p \in Procs : Holds(p)) /\ \A u \in Uris : idp[u] \subseteq ever[u]
  BY DEF OwnInv
<1>2. ASSUME cache' = cache, idp' = idp, ever' = ever, NEW p \in Procs,
             \A q \in Procs : q # p => call'[q] = call[q],
             call'[p].pc \in {"insert", "set"} => Own(call'[p].fetched, call'[p].realm)
      PROVE  OwnInv'
  BY <1>1, <1>2, OwnKept
<1>3. ASSUME NEW p \in Procs, NEW r \in Realms, NEW k \in Kids \cup {None}, has_realm(p, r, k)
      PROVE  OwnInv'
  <2> DEFINE n == Cardinality(UrisOf[r])
             c == [pc |-> "fetch_new", realm |-> r, kid |-> k, left |-> n, fetched |-> NoKeys]
  <2>1. n \in Nat
    BY JwksAssumption, FS_CardinalityType
  <2>2. call' = [call EXCEPT ![p] = c] \/ call' = [call EXCEPT ![p] = LookUp(r, k, n)]
    BY <1>3 DEF has_realm
  <2>3. c.pc = "fetch_new" /\ LookUp(r, k, n).pc \in {"idle", "find"}
    BY <2>1, LookUpSound
  <2> HIDE DEF c, n
  <2>4. call'[p].pc \notin {"insert", "set"} /\ \A q \in Procs : q # p => call'[q] = call[q]
    BY <2>2, <2>3 DEF TypeOK
  <2> QED
    BY <1>2, <1>3, <2>4 DEF has_realm
<1>4. ASSUME NEW p \in Procs, fetch_all(p) PROVE OwnInv'
  <2>1. PICK sets \in Downloads(call[p].realm) :
          call' = [call EXCEPT ![p] =
            [call[p] EXCEPT !.pc = IF call[p].pc = "fetch_new" THEN "insert" ELSE "set",
                            !.fetched = sets]]
    BY <1>4 DEF fetch_all
  <2>2. /\ call'[p].fetched = sets /\ call'[p].realm = call[p].realm
        /\ \A q \in Procs : q # p => call'[q] = call[q]
    BY <2>1 DEF TypeOK, Call
  <2>3. Own(sets, call[p].realm)
    BY <1>1, DownloadsOwn
  <2> QED
    BY <1>2, <1>4, <2>2, <2>3 DEF fetch_all
<1>5. ASSUME NEW p \in Procs, find_jwk(p) PROVE OwnInv'
  <2>1. CASE call' = [call EXCEPT ![p].pc = "fetch_miss"]
    <3>1. call'[p].pc = "fetch_miss" /\ \A q \in Procs : q # p => call'[q] = call[q]
      BY <2>1 DEF TypeOK, Call
    <3> QED
      BY <1>2, <1>5, <3>1 DEF find_jwk
  <2>2. CASE \E a \in {"found", "not_found", "error"} : Returned(p, a) \/ Accepted(p)
    <3>1. call'[p].pc \in {"idle", "find"} /\ \A q \in Procs : q # p => call'[q] = call[q]
      BY <1>5, <2>2, ReturnedSound DEF find_jwk
    <3> QED
      BY <1>2, <1>5, <3>1 DEF find_jwk
  <2> QED
    BY <1>5, <2>1, <2>2 DEF find_jwk
<1>6. ASSUME NEW p \in Procs, call[p].pc \in {"insert", "set"},
             \A r \in Realms : cache'[r] \in {cache[r], None} \/ (r = call[p].realm /\ cache'[r] = Stored(p)),
             \A q \in Procs : q # p => call'[q] = call[q],
             call'[p].pc \in {"idle", "find"}, UNCHANGED <<now, idp, ever, asked>>
      PROVE  OwnInv'
  <2>1. Own(call[p].fetched, call[p].realm)
    BY <1>1, <1>6
  <2>2. OwnKeysOnly'
    <3> SUFFICES ASSUME NEW r \in Realms, cache'[r] # None PROVE Own(cache'[r].jwks, r)
      BY <1>6 DEF OwnKeysOnly, Own
    <3>1. CASE cache'[r] = cache[r]
      BY <3>1 DEF OwnInv, OwnKeysOnly, Own
    <3>2. CASE r = call[p].realm /\ cache'[r] = Stored(p)
      BY <2>1, <3>2 DEF Stored
    <3> QED
      BY <1>6, <3>1, <3>2
  <2>3. \A q \in Procs : call'[q].pc \in {"insert", "set"} => Own(call'[q].fetched, call'[q].realm)
    BY <1>1, <1>6
  <2> QED
    BY <1>1, <1>6, <2>2, <2>3 DEF OwnInv, Own
<1>7. ASSUME NEW p \in Procs, call[p].pc = "insert", upsert_realm(p), UNCHANGED <<now, idp, ever, asked>>
      PROVE  OwnInv'
  <2>1. call[p].realm \in Realms /\ call[p].kid \in Kids \cup {None} /\ call[p].left \in Nat
    BY <1>7 DEF Sound, Call
  <2>2. LookUp(call[p].realm, call[p].kid, call[p].left).pc \in {"idle", "find"}
    BY <2>1, LookUpSound
  <2>3. call'[p].pc \in {"idle", "find"} /\ \A q \in Procs : q # p => call'[q] = call[q]
    BY <1>7, <2>2 DEF upsert_realm, TypeOK
  <2>4. \A r \in Realms : cache'[r] = cache[r] \/ (r = call[p].realm /\ cache'[r] = Stored(p))
    BY <1>7 DEF upsert_realm, TypeOK
  <2> QED
    BY <1>6, <1>7, <2>3, <2>4
<1>8. ASSUME NEW p \in Procs, call[p].pc = "set", set_jwks(p), UNCHANGED <<now, idp, ever, asked>>
      PROVE  OwnInv'
  <2>1. call'[p].pc \in {"idle", "find"} /\ \A q \in Procs : q # p => call'[q] = call[q]
    BY <1>8, ReturnedSound DEF set_jwks
  <2>2. \A r \in Realms : cache'[r] \in {cache[r], None} \/ (r = call[p].realm /\ cache'[r] = Stored(p))
    BY <1>8 DEF set_jwks, TypeOK
  <2> QED
    BY <1>6, <1>8, <2>1, <2>2
<1>9. ASSUME remove_realm, UNCHANGED <<now, idp, ever, asked>> PROVE OwnInv'
  <2>1. call' = call /\ \A r \in Realms : cache'[r] \in {cache[r], None}
    BY <1>9 DEF remove_realm, TypeOK
  <2> QED
    BY <1>9, <2>1 DEF OwnInv, OwnKeysOnly, Own
<1>10. ASSUME NEW w \in Procs \cup {Cleaner}, write(w) PROVE OwnInv'
  BY <1>7, <1>8, <1>9, <1>10, JwksAssumption DEF write, Waiting
<1>11. CASE remove_stale_entries
  BY <1>1, <1>11, OwnKept DEF remove_stale_entries
<1>12. ASSUME NEW u \in Uris, NEW S \in SUBSET Kids, rotate(u, S) PROVE OwnInv'
  <2>1. \A v \in Uris : ever[v] \subseteq ever'[v] /\ idp'[v] \subseteq ever'[v]
    BY <1>1, <1>12 DEF rotate, TypeOK, KeySets
  <2>2. cache' = cache /\ call' = call
    BY <1>12 DEF rotate
  <2> QED
    BY <1>1, <2>1, <2>2, OwnKept
<1>13. CASE Tick \/ UNCHANGED vars
  BY <1>1, <1>13, OwnKept DEF Tick, vars
<1> QED
  BY <1>3, <1>4, <1>5, <1>10, <1>11, <1>12, <1>13 DEF Next

\* A realm is only ever given keys that its own providers published, whatever
\* downloads, rotations and removals overlap (fetch_all, set_jwks, upsert_realm).
THEOREM OwnKeysOnlyAlways == Spec => []OwnKeysOnly
<1>1. Init => OwnInv
  <2>1. Init => /\ \A u \in Uris : idp[u] \subseteq ever[u]
                /\ \A p \in Procs : call[p].pc = "idle"
                /\ OwnKeysOnly
    BY DEF Init, Idle, OwnKeysOnly
  <2> QED
    BY <2>1, TypeInit DEF OwnInv
<1>2. OwnInv => OwnKeysOnly
  BY DEF OwnInv
<1> QED
  BY <1>1, <1>2, OwnStep, PTL DEF Spec

-----------------------------------------------------------------------------
\* A step that begins no refresh keeps the throttle, when a handler that ends
\* one leaves behind an entry stored now, or none.
LEMMA ThrottleKept ==
  ASSUME ThrottleInv, TypeInv', asked' = asked, now' >= now,
         \A p \in Procs, r \in Realms :
           \/ cache'[r] = None
           \/ cache'[r].last_update = now
           \/ cache'[r] = cache[r] /\ (call[p].pc \in {"fetch_miss", "set"} /\ call[p].realm = r
                => call'[p].pc \in {"fetch_miss", "set"} /\ call'[p].realm = r)
  PROVE  ThrottleInv'
<1> SUFFICES ASSUME NEW p \in Procs, NEW r \in Realms, asked[<<p, r>>] # None
             PROVE  asked[<<p, r>>] <= now' /\ Settled(p, r)'
  BY DEF ThrottleInv, Settled
<1>1. asked[<<p, r>>] <= now /\ Settled(p, r)
  BY DEF ThrottleInv, Settled
<1>2. asked[<<p, r>>] \in Nat /\ now \in Nat /\ now' \in Nat
  BY DEF ThrottleInv, TypeInv, TypeOK
<1> QED
  BY <1>1, <1>2 DEF Settled

\* Every step keeps the throttle.
LEMMA ThrottleStep == ThrottleInv /\ [Next]_vars => ThrottleInv'
<1> SUFFICES ASSUME ThrottleInv, [Next]_vars PROVE ThrottleInv'
  OBVIOUS
<1> TypeOK /\ TypeInv /\ TypeInv' /\ \A p \in Procs : Sound(call[p])
  BY TypeStep DEF ThrottleInv, TypeInv
<1> now \in Nat
  BY DEF TypeOK
<1>1. ASSUME asked' = asked, now' = now, cache' = cache, NEW p \in Procs,
             \A q \in Procs : q # p => call'[q] = call[q],
             call[p].pc \in {"fetch_miss", "set"} =>
               call'[p].pc \in {"fetch_miss", "set"} /\ call'[p].realm = call[p].realm
      PROVE  ThrottleInv'
  BY <1>1, ThrottleKept
<1>2. ASSUME NEW p \in Procs, NEW r \in Realms, NEW k \in Kids \cup {None}, has_realm(p, r, k)
      PROVE  ThrottleInv'
  BY <1>1, <1>2 DEF has_realm, TypeOK
<1>3. ASSUME NEW p \in Procs, fetch_all(p) PROVE ThrottleInv'
  <2>1. PICK sets \in Downloads(call[p].realm) :
          call' = [call EXCEPT ![p] =
            [call[p] EXCEPT !.pc = IF call[p].pc = "fetch_new" THEN "insert" ELSE "set",
                            !.fetched = sets]]
    BY <1>3 DEF fetch_all
  <2>2. /\ call[p].pc # "fetch_new" => call'[p].pc = "set"
        /\ call'[p].realm = call[p].realm
        /\ \A q \in Procs : q # p => call'[q] = call[q]
    BY <2>1 DEF TypeOK, Call
  <2> QED
    BY <1>1, <1>3, <2>2 DEF fetch_all
<1>4. ASSUME NEW p \in Procs, find_jwk(p) PROVE ThrottleInv'
  <2>1. call[p].pc = "find" /\ call[p].realm \in Realms /\ now' = now /\ cache' = cache
    BY <1>4 DEF find_jwk, Sound
  <2>2. CASE /\ call' = [call EXCEPT ![p].pc = "fetch_miss"]
             /\ asked' = [asked EXCEPT ![<<p, call[p].realm>>] = now]
    <3>1. /\ call'[p].pc = "fetch_miss" /\ call'[p].realm = call[p].realm
          /\ \A q \in Procs : q # p => call'[q] = call[q]
      BY <2>2 DEF TypeOK, Call
    <3> SUFFICES ASSUME NEW q \in Procs, NEW r \in Realms, asked'[<<q, r>>] # None
                 PROVE  asked'[<<q, r>>] <= now /\ Settled(q, r)'
      BY <2>1 DEF ThrottleInv, Settled
    <3>2. CASE q = p /\ r = call[p].realm
      BY <2>1, <2>2, <3>1, <3>2 DEF TypeOK, Settled
    <3>3. CASE ~(q = p /\ r = call[p].realm)
      <4>1. <<q, r>> # <<p, call[p].realm>>
        BY <3>3
      <4>2. asked'[<<q, r>>] = asked[<<q, r>>]
        BY <2>2, <4>1 DEF TypeOK
      <4>3. asked[<<q, r>>] <= now /\ Settled(q, r)
        BY <3>2, <4>2 DEF ThrottleInv, Settled
      <4> QED
        BY <2>1, <3>1, <4>2, <4>3 DEF Settled
    <3> QED
      BY <3>2, <3>3
  <2>3. CASE /\ \E a \in {"found", "not_found", "error"} : Returned(p, a) \/ Accepted(p)
             /\ UNCHANGED asked
    <3>1. \A q \in Procs : q # p => call'[q] = call[q]
      BY <2>1, <2>3, ReturnedSound
    <3> QED
      BY <1>1, <2>1, <2>3, <3>1
  <2> QED
    BY <1>4, <2>2, <2>3 DEF find_jwk
<1>5. ASSUME NEW p \in Procs, upsert_realm(p), call[p].pc = "insert", UNCHANGED <<now, idp, ever, asked>>
      PROVE  ThrottleInv'
  <2>1. \A q \in Procs : q # p => call'[q] = call[q]
    BY <1>5 DEF upsert_realm, TypeOK
  <2>2. \A r \in Realms : cache'[r] = cache[r] \/ cache'[r] = Stored(p)
    BY <1>5 DEF upsert_realm, TypeOK
  <2> QED
    BY <1>5, <2>1, <2>2, ThrottleKept DEF Stored
<1>6. ASSUME NEW p \in Procs, set_jwks(p), call[p].pc = "set", UNCHANGED <<now, idp, ever, asked>>
      PROVE  ThrottleInv'
  <2>1. \A q \in Procs : q # p => call'[q] = call[q]
    BY <1>6, ReturnedSound DEF set_jwks
  <2>2. \A r \in Realms : cache'[r] = None \/ cache'[r] = Stored(p)
                            \/ (cache'[r] = cache[r] /\ r # call[p].realm)
    BY <1>6 DEF set_jwks, TypeOK
  <2> QED
    BY <1>6, <2>1, <2>2, ThrottleKept DEF Stored
<1>7. ASSUME remove_realm, UNCHANGED <<now, idp, ever, asked>> PROVE ThrottleInv'
  <2>1. call' = call /\ \A r \in Realms : cache'[r] \in {cache[r], None}
    BY <1>7 DEF remove_realm, TypeOK
  <2> QED
    BY <1>7, <2>1, ThrottleKept
<1>8. ASSUME NEW w \in Procs \cup {Cleaner}, write(w) PROVE ThrottleInv'
  BY <1>5, <1>6, <1>7, <1>8, JwksAssumption DEF write, Waiting
<1>9. CASE remove_stale_entries \/ Tick \/ UNCHANGED vars
  BY <1>9, ThrottleKept DEF remove_stale_entries, Tick, vars
<1>10. ASSUME NEW u \in Uris, NEW S \in SUBSET Kids, rotate(u, S) PROVE ThrottleInv'
  BY <1>10, ThrottleKept DEF rotate
<1> QED
  BY <1>2, <1>3, <1>4, <1>8, <1>9, <1>10 DEF Next

\* Only find_jwk begins a refresh, on an entry older than the interval, which is
\* no older than the last refresh the same handler began.
LEMMA RefreshStep ==
  ASSUME ThrottleInv, [Next]_vars, NEW x \in Procs \X Realms,
         asked'[x] # asked[x], asked[x] # None
  PROVE  asked[x] + Interval < now
<1> TypeOK /\ \A p \in Procs : Sound(call[p])
  BY DEF ThrottleInv, TypeInv
<1>1. PICK p \in Procs : find_jwk(p)
  <2>1. asked' # asked
    OBVIOUS
  <2>2. \A w \in Procs \cup {Cleaner} : ~write(w)
    BY <2>1 DEF write
  <2> QED
    BY <2>1, <2>2 DEF Next, has_realm, fetch_all, remove_stale_entries, rotate, Tick, vars
<1>2. /\ asked' = [asked EXCEPT ![<<p, call[p].realm>>] = now]
      /\ call[p].pc = "find" /\ call[p].realm \in Realms
      /\ cache[call[p].realm] # None /\ is_refresh_allowed(cache[call[p].realm])
  BY <1>1 DEF find_jwk, Sound
<1>3. x = <<p, call[p].realm>>
  BY <1>2 DEF TypeOK
<1>4. asked[x] <= cache[call[p].realm].last_update
  BY <1>2, <1>3 DEF ThrottleInv, Settled
<1>5. asked[x] \in Nat /\ cache[call[p].realm].last_update \in Nat /\ now \in Nat /\ Interval \in Nat
  BY <1>2, JwksAssumption DEF TypeOK, Entry
<1> QED
  BY <1>2, <1>4, <1>5 DEF is_refresh_allowed

\* "Prevents repeating call when refreshing fails": requests that follow one
\* another begin refreshes of a realm more than the interval apart, for any
\* number of handlers and whatever they store in between.
THEOREM RefreshThrottledAlways == Spec => RefreshThrottled
<1>1. Init => ThrottleInv
  <2>1. Init => \A p \in Procs, r \in Realms : asked[<<p, r>>] = None
    BY DEF Init
  <2> QED
    BY <2>1, TypeInit DEF ThrottleInv
<1>2. ThrottleInv /\ [Next]_vars =>
        [\A x \in Procs \X Realms :
           (asked'[x] # asked[x] /\ asked[x] # None) => asked[x] + Interval < now]_vars
  BY RefreshStep
<1> QED
  BY <1>1, <1>2, ThrottleStep, PTL DEF Spec, RefreshThrottled
-----------------------------------------------------------------------------
(***************************************************************************)
(* The lock.  The read guard of the clean-up task is held exactly while it *)
(* has entries to remove, and a removal needs the write lock: the task     *)
(* waits for itself, and with a writer waiting no reader gets in.          *)
(***************************************************************************)
LockInv == guard = (doomed # {})

\* The only step of the clean-up task that is ever taken is the scan.
LEMMA LockStep == LockInv /\ [Next]_vars => LockInv' /\ (doomed # {} => doomed' = doomed)
<1> SUFFICES ASSUME LockInv, [Next]_vars PROVE LockInv' /\ (doomed # {} => doomed' = doomed)
  OBVIOUS
<1>1. ASSUME NEW p \in Procs, NEW r \in Realms, NEW k \in Kids \cup {None}, has_realm(p, r, k)
      PROVE  UNCHANGED <<guard, doomed>>
  BY <1>1 DEF has_realm
<1>2. ASSUME NEW p \in Procs, fetch_all(p) \/ find_jwk(p)
      PROVE  UNCHANGED <<guard, doomed>>
  BY <1>2 DEF fetch_all, find_jwk
<1>3. ASSUME NEW w \in Procs \cup {Cleaner}, write(w)
      PROVE  UNCHANGED <<guard, doomed>>
  <2>1. w # Cleaner
    BY <1>3 DEF write, Waiting, CanWrite, LockInv
  <2> QED
    BY <1>3, <2>1 DEF write, upsert_realm, set_jwks
<1>4. CASE remove_stale_entries
  BY <1>4 DEF remove_stale_entries, LockInv
<1>5. ASSUME NEW u \in Uris, NEW S \in SUBSET Kids, rotate(u, S)
      PROVE  UNCHANGED <<guard, doomed>>
  BY <1>5 DEF rotate
<1>6. CASE Tick \/ UNCHANGED vars
  BY <1>6 DEF Tick, vars, LockInv
<1> QED
  BY <1>1, <1>2, <1>3, <1>4, <1>5, <1>6 DEF Next, LockInv

\* The guard is held exactly while removals wait.
LEMMA LockInvariance == Spec => []LockInv
<1>1. Init => LockInv
  BY DEF Init, LockInv
<1> QED
  BY <1>1, LockStep, PTL DEF Spec

\* While removals wait, no step changes the cache or any request other than one
\* whose download is under way.
LEMMA BlockedStep ==
  ASSUME TypeOK, LockInv, [Next]_vars, doomed # {}
  PROVE  /\ cache' = cache
         /\ \A p \in Procs :
              call[p].pc \notin {"fetch_new", "fetch_miss"} => call'[p] = call[p]
<1>1. ASSUME NEW p \in Procs, NEW r \in Realms, NEW k \in Kids \cup {None}
      PROVE  ~has_realm(p, r, k)
  BY DEF has_realm, CanRead
<1>2. ASSUME NEW p \in Procs PROVE ~find_jwk(p)
  BY DEF find_jwk, CanRead
<1>3. ASSUME NEW w \in Procs \cup {Cleaner} PROVE ~write(w)
  BY DEF write, CanWrite, LockInv
<1>4. ~remove_stale_entries
  BY DEF remove_stale_entries
<1>5. ASSUME NEW p \in Procs, fetch_all(p)
      PROVE  /\ cache' = cache
             /\ \A q \in Procs :
                  call[q].pc \notin {"fetch_new", "fetch_miss"} => call'[q] = call[q]
  <2>1. cache' = cache /\ call[p].pc \in {"fetch_new", "fetch_miss"}
    BY <1>5 DEF fetch_all
  <2>2. \A q \in Procs : q # p => call'[q] = call[q]
    BY <1>5 DEF fetch_all, TypeOK
  <2> QED
    BY <2>1, <2>2
<1>6. ASSUME NEW u \in Uris, NEW S \in SUBSET Kids, rotate(u, S)
      PROVE  UNCHANGED <<cache, call>>
  BY <1>6 DEF rotate
<1>7. CASE Tick \/ UNCHANGED vars
  BY <1>7 DEF Tick, vars
<1> QED
  BY <1>1, <1>2, <1>3, <1>4, <1>5, <1>6, <1>7 DEF Next

\* The clean-up task that finds a stale entry waits for its own guard for ever,
\* on every instance (remove_stale_entries, remove_realm).
THEOREM CleanerWaitsForItself == Spec => [](doomed # {} => [](doomed # {} /\ guard))
<1>1. LockInv /\ doomed # {} => guard
  BY DEF LockInv
<1>2. LockInv /\ doomed # {} /\ [Next]_vars => (doomed # {})'
  BY LockStep
<1> QED
  BY <1>1, <1>2, LockInvariance, PTL DEF Spec

\* From then on the cache never changes again, no request begins, and none that
\* looks a key up or has one to store goes on; a download that is under way
\* ends in a request with something to store (has_realm, find_jwk, set_jwks,
\* upsert_realm): what the run jwks_stale shows on one instance.
THEOREM StaleEntryBlocks ==
  Spec => [][doomed # {} =>
               /\ cache' = cache
               /\ \A p \in Procs :
                    call[p].pc \notin {"fetch_new", "fetch_miss"} => call'[p] = call[p]]_vars
<1>1. TypeOK /\ LockInv /\ [Next]_vars =>
        (doomed # {} =>
           /\ cache' = cache
           /\ \A p \in Procs :
                call[p].pc \notin {"fetch_new", "fetch_miss"} => call'[p] = call[p])
  BY BlockedStep
<1> QED
  BY <1>1, JwksTypeCorrect, LockInvariance, PTL DEF Spec

\* No entry is stale before the retention interval has passed.
ClockInv == now <= MaxTime /\ doomed = {}

\* As long as the retention interval is not over, the lock keeps nobody out: a
\* reader and a writer are admitted at once (CanRead, CanWrite).
THEOREM LockFreeBeforeRetention ==
  ASSUME Retention >= MaxTime
  PROVE  Spec => [](CanRead /\ CanWrite)
<1>1. Init => ClockInv
  BY JwksAssumption DEF Init, ClockInv
<1>2. TypeOK /\ LockInv /\ ClockInv /\ [Next]_vars => ClockInv'
  <2> SUFFICES ASSUME TypeOK, LockInv, ClockInv, [Next]_vars PROVE ClockInv'
    OBVIOUS
  <2>1. Stale = {}
    <3> SUFFICES ASSUME NEW r \in Realms, cache[r] # None
                 PROVE  ~(cache[r].last_update + Retention < now)
      BY DEF Stale
    <3>1. cache[r].last_update \in Nat
      BY DEF TypeOK, Entry
    <3>2. now \in Nat /\ now <= MaxTime
      BY DEF TypeOK, ClockInv
    <3> QED
      BY <3>1, <3>2, JwksAssumption
  <2>2. doomed' = {}
    BY <2>1
    DEF Next, ClockInv, LockInv, has_realm, fetch_all, find_jwk, write, Waiting, upsert_realm,
        set_jwks, remove_realm, remove_stale_entries, rotate, Tick, vars
  <2>3. now' = now \/ Tick
    BY DEF Next, has_realm, fetch_all, find_jwk, write, remove_stale_entries, rotate, vars
  <2>4. now' <= MaxTime
    BY <2>3, JwksAssumption DEF Tick, ClockInv, TypeOK
  <2> QED
    BY <2>2, <2>4 DEF ClockInv
<1>3. LockInv /\ ClockInv => CanRead /\ CanWrite
  BY DEF LockInv, ClockInv, CanRead, CanWrite
<1> QED
  BY <1>1, <1>2, <1>3, JwksTypeCorrect, LockInvariance, PTL DEF Spec
=============================================================================
