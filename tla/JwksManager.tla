----------------------------- MODULE JwksManager -----------------------------
(***************************************************************************)
(* The cache of JSON Web Key Sets (middleware/jwt/jwks.rs), the requests   *)
(* that look keys up in it (jwt_middleware.rs, client_claim.rs) and the    *)
(* task that removes stale entries.                                        *)
(*                                                                         *)
(* The cache is one map behind a std::sync::RwLock.  Lookups clone the     *)
(* entry under the read lock and release it; fetching the keys happens     *)
(* without the lock; a fetched set is stored under the write lock.  The    *)
(* clean-up task is the only reader that asks for the write lock while it  *)
(* holds a read guard.  A waiting writer keeps new readers out.            *)
(*                                                                         *)
(* A request presents one key identifier and looks it up once for every    *)
(* provider of the realm until one accepts the token; whether a provider's *)
(* issuer, audience and signature checks accept it is left open.           *)
(***************************************************************************)
EXTENDS Integers, FiniteSets

CONSTANTS
  Realms, Uris, Kids,
  UrisOf,       \* [Realms -> SUBSET Uris], the jwks_uri of its providers
  Procs,        \* requests being handled concurrently
  Cleaner,      \* the clean-up task
  Interval,     \* smallest_refresh_interval
  Retention,    \* JWKS_CACHE_RETENTION_INTERVAL
  MaxTime,      \* bound on the clock
  None

ASSUME JwksAssumption ==
  /\ UrisOf \in [Realms -> SUBSET Uris]
  /\ \A r \in Realms : IsFiniteSet(UrisOf[r])
  /\ Interval \in Nat /\ Retention \in Nat /\ MaxTime \in Nat
  /\ Cleaner \notin Procs

VARIABLES
  now,          \* the wall clock
  cache,        \* realm_jwks: the entries behind the lock
  guard,        \* the clean-up task holds a read guard
  doomed,       \* the realms it is about to remove
  call,         \* the request each process is handling
  reply,        \* what the last find_jwk of each process returned
  idp,          \* the keys each provider publishes now
  ever,         \* history: the keys each provider has ever published
  asked         \* history: when each process last began a refresh of a realm

vars == <<now, cache, guard, doomed, call, reply, idp, ever, asked>>

\* Key sets by URI; a URI whose download failed has no set, here the empty one.
KeySets == [Uris -> SUBSET Kids]
Entry == [jwks : KeySets, last_update : Nat]
NoKeys == [u \in Uris |-> {}]

\* What a request keeps: its realm and key identifier (None: no usable bearer
\* token), the providers still to try and the key sets it downloaded.
Call == [pc : {"idle", "fetch_new", "insert", "find", "fetch_miss", "set"},
         realm : Realms \cup {None}, kid : Kids \cup {None}, left : Nat,
         fetched : KeySets]

TypeOK ==
  /\ now \in Nat
  /\ cache \in [Realms -> Entry \cup {None}]
  /\ guard \in BOOLEAN
  /\ doomed \subseteq Realms
  /\ call \in [Procs -> Call]
  /\ reply \in [Procs -> {"none", "found", "not_found", "error"}]
  /\ idp \in KeySets /\ ever \in KeySets
  /\ asked \in [Procs \X Realms -> Nat \cup {None}]

Idle == [pc |-> "idle", realm |-> None, kid |-> None, left |-> 0,
         fetched |-> NoKeys]

Init ==
  /\ now = 0
  /\ cache = [r \in Realms |-> None]
  /\ guard = FALSE /\ doomed = {}
  /\ call = [p \in Procs |-> Idle]
  /\ reply = [p \in Procs |-> "none"]
  /\ idp \in KeySets /\ ever = idp
  /\ asked = [x \in Procs \X Realms |-> None]

-----------------------------------------------------------------------------
\* The lock: readers wait behind a waiting writer, writers behind a reader.
CanRead == doomed = {}
CanWrite == ~guard

Has(sets, kid) == \E u \in Uris : kid \in sets[u]

\* The lookups of a request for realm r: none without a key identifier, else
\* one for each provider; the request is over when none is left.
LookUp(r, kid, left) ==
  IF kid = None \/ left = 0 THEN Idle
  ELSE [pc |-> "find", realm |-> r, kid |-> kid, left |-> left, fetched |-> NoKeys]

\* find_jwk returned a; with the next provider, the request calls it again.
Returned(p, a) ==
  /\ reply' = [reply EXCEPT ![p] = a]
  /\ call' = [call EXCEPT ![p] = LookUp(@.realm, @.kid, @.left - 1)]

\* The token was accepted.
Accepted(p) ==
  /\ reply' = [reply EXCEPT ![p] = "found"]
  /\ call' = [call EXCEPT ![p] = Idle]

\* ensure_realm_jwks_is_managed: a realm that is not in the cache is added.
has_realm(p, r, kid) ==
  /\ call[p].pc = "idle"
  /\ CanRead
  /\ LET n == Cardinality(UrisOf[r])
     IN call' = [call EXCEPT ![p] =
          IF cache[r] # None THEN LookUp(r, kid, n)
          ELSE [pc |-> "fetch_new", realm |-> r, kid |-> kid, left |-> n,
                fetched |-> NoKeys]]
  /\ reply' = [reply EXCEPT ![p] = "none"]
  /\ UNCHANGED <<now, cache, guard, doomed, idp, ever, asked>>

\* Mutant: the key sets of all realms are downloaded.
Downloads_AllUris(r) ==
  {[u \in Uris |-> IF u \in ok THEN idp[u] ELSE {}] : ok \in SUBSET Uris}

\* What a download can bring: each URI of the realm answers or fails.
Downloads(r) ==
  {[u \in Uris |-> IF u \in ok THEN idp[u] ELSE {}] : ok \in SUBSET UrisOf[r]}

\* fetch_all, for a realm being added or after a key was not found.
fetch_all(p) ==
  /\ call[p].pc \in {"fetch_new", "fetch_miss"}
  /\ \E sets \in Downloads(call[p].realm) :
       call' = [call EXCEPT ![p] =
         [@ EXCEPT !.pc = IF call[p].pc = "fetch_new" THEN "insert" ELSE "set",
                   !.fetched = sets]]
  /\ UNCHANGED <<now, cache, guard, doomed, reply, idp, ever, asked>>

is_refresh_allowed(e) == e.last_update + Interval < now

\* find_jwk: clone the entry, search it, and decide whether to refresh.
find_jwk(p) ==
  LET r == call[p].realm
      e == cache[r]
  IN /\ call[p].pc = "find"
     /\ CanRead
     /\ IF e # None /\ ~Has(e.jwks, call[p].kid) /\ is_refresh_allowed(e)
        THEN /\ call' = [call EXCEPT ![p].pc = "fetch_miss"]
             /\ asked' = [asked EXCEPT ![<<p, r>>] = now]
             /\ UNCHANGED reply
        ELSE /\ IF e = None THEN Returned(p, "error")
                ELSE IF Has(e.jwks, call[p].kid)
                THEN Returned(p, "found") \/ Accepted(p)
                ELSE Returned(p, "not_found")
             /\ UNCHANGED asked
     /\ UNCHANGED <<now, cache, guard, doomed, idp, ever>>

\* Mutants: a refresh that brought nothing is not recorded; no time is.
Stored_OnSuccess(p) ==
  LET c == call[p]
  IN [jwks |-> c.fetched,
      last_update |-> IF c.fetched = NoKeys /\ cache[c.realm] # None
                      THEN cache[c.realm].last_update ELSE now]
Stored_NoTime(p) == [jwks |-> call[p].fetched, last_update |-> None]

\* The entry that a request writes.
Stored(p) == [jwks |-> call[p].fetched, last_update |-> now]

\* upsert_realm stores the entry of a new realm, and the lookups begin ...
upsert_realm(p) ==
  /\ cache' = [cache EXCEPT ![call[p].realm] = Stored(p)]
  /\ call' = [call EXCEPT ![p] = LookUp(@.realm, @.kid, @.left)]
  /\ UNCHANGED <<guard, doomed, reply>>

\* ... set_jwks replaces the key sets of a realm that is still there, and
\* find_jwk answers from the entry it had cloned, where the key was not found.
set_jwks(p) ==
  LET r == call[p].realm
  IN /\ cache' = [cache EXCEPT ![r] = IF @ = None THEN None ELSE Stored(p)]
     /\ Returned(p, IF cache[r] = None THEN "error" ELSE "not_found")
     /\ UNCHANGED <<guard, doomed>>

\* The next removal of the clean-up task; its read guard goes after the last.
remove_realm ==
  \E r \in doomed :
    /\ cache' = [cache EXCEPT ![r] = None]
    /\ doomed' = doomed \ {r}
    /\ guard' = (doomed \ {r} # {})
    /\ UNCHANGED <<call, reply>>

Waiting(w) == IF w = Cleaner THEN doomed # {} ELSE call[w].pc \in {"insert", "set"}

\* A waiting writer is granted the lock, makes its change and releases it.
write(w) ==
  /\ Waiting(w)
  /\ CanWrite
  /\ IF w = Cleaner THEN remove_realm
     ELSE IF call[w].pc = "insert" THEN upsert_realm(w) ELSE set_jwks(w)
  /\ UNCHANGED <<now, idp, ever, asked>>

Stale == {r \in Realms : cache[r] # None /\ cache[r].last_update + Retention < now}

\* Mutant: the read guard outlives every scan.
remove_stale_entries_Leak ==
  /\ doomed = {} /\ ~guard
  /\ doomed' = Stale
  /\ guard' = TRUE
  /\ UNCHANGED <<now, cache, call, reply, idp, ever, asked>>

\* One round of the clean-up task: the read guard it scans under is dropped
\* when the function returns, after the removals it asks for.
remove_stale_entries ==
  /\ doomed = {} /\ ~guard
  /\ doomed' = Stale
  /\ guard' = (Stale # {})
  /\ UNCHANGED <<now, cache, call, reply, idp, ever, asked>>

-----------------------------------------------------------------------------
\* A provider changes the keys it publishes.
rotate(u, S) ==
  /\ idp' = [idp EXCEPT ![u] = S]
  /\ ever' = [ever EXCEPT ![u] = @ \cup S]
  /\ UNCHANGED <<now, cache, guard, doomed, call, reply, asked>>

Tick ==
  /\ now < MaxTime
  /\ now' = now + 1
  /\ UNCHANGED <<cache, guard, doomed, call, reply, idp, ever, asked>>

Next ==
  \/ \E p \in Procs, r \in Realms, k \in Kids \cup {None} : has_realm(p, r, k)
  \/ \E p \in Procs : fetch_all(p) \/ find_jwk(p)
  \/ \E w \in Procs \cup {Cleaner} : write(w)
  \/ remove_stale_entries
  \/ \E u \in Uris, S \in SUBSET Kids : rotate(u, S)
  \/ Tick

Spec == Init /\ [][Next]_vars

\* Requests run to their end as long as nothing blocks them and the providers
\* answer, and so does a removal.
FairSpec ==
  /\ Spec
  /\ \A p \in Procs : WF_vars(fetch_all(p) \/ find_jwk(p))
  /\ \A w \in Procs \cup {Cleaner} : WF_vars(write(w))

-----------------------------------------------------------------------------
\* A realm is only ever given keys that its own providers published, whatever
\* rotations and refreshes of other realms overlap with a download (fetch_all,
\* set_jwks, upsert_realm).
OwnKeysOnly ==
  \A r \in Realms : cache[r] # None =>
    \A u \in Uris : cache[r].jwks[u] \subseteq (IF u \in UrisOf[r] THEN ever[u] ELSE {})

\* "Prevents repeating call when refreshing fails": requests that follow one
\* another begin refreshes of a realm more than the interval apart, also when
\* the downloads fail or bring no key, and whatever requests handled at the
\* same time store in between (find_jwk, is_refresh_allowed, set_jwks).
RefreshThrottled ==
  [][\A x \in Procs \X Realms :
       (asked'[x] # asked[x] /\ asked[x] # None) => asked[x] + Interval < now]_vars

\* "All operations are thread-safe": every request that began is answered.
LookupsAnswered ==
  \A p \in Procs : call[p].pc # "idle" ~> call[p].pc = "idle"
=============================================================================
