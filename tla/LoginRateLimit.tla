---------------------------- MODULE LoginRateLimit ----------------------------
(***************************************************************************)
(* The limiter in front of /login and /saml (middleware/                   *)
(* login_rate_limit.rs).  The closure that builds the application runs     *)
(* once per worker of the HTTP server, so each worker has a limiter of its *)
(* own; within a worker /login and /saml share it.  A client's requests    *)
(* may reach any worker.                                                   *)
(*                                                                         *)
(* The library's limiter is a token bucket per address: full at first, one *)
(* token more each period.  The clock counts periods.                      *)
(***************************************************************************)
EXTENDS Integers, FiniteSets

CONSTANTS
  Ips,          \* peer addresses
  Workers,      \* threads of the HTTP server
  BurstSize     \* login_rate_limit_burst

ASSUME BurstAssumption == BurstSize \in Nat /\ IsFiniteSet(Workers)

VARIABLES
  level,        \* the tokens left, per worker and address
  excess        \* history: see AttemptsBounded

\* "clamped to [1, u32::MAX]".
Capacity == IF BurstSize < 1 THEN 1 ELSE BurstSize

LimiterTypeOK ==
  /\ level \in [Workers \X Ips -> 0..Capacity]
  /\ excess \in [Ips -> Nat]

LimiterInit ==
  /\ level = [x \in Workers \X Ips |-> Capacity]
  /\ excess = [i \in Ips |-> 0]

\* Mutant: a request that is refused has been let through.
check_key_Unlimited(w, i) ==
  /\ level' = [level EXCEPT ![<<w, i>>] = IF @ > 0 THEN @ - 1 ELSE @]
  /\ excess' = [excess EXCEPT ![i] = @ + 1]

\* The request passes, and the attempt is counted.
check_key(w, i) ==
  /\ level[<<w, i>>] > 0
  /\ level' = [level EXCEPT ![<<w, i>>] = @ - 1]
  /\ excess' = [excess EXCEPT ![i] = @ + 1]

\* A period passes.
replenish ==
  /\ level' = [x \in Workers \X Ips |-> IF level[x] < Capacity THEN level[x] + 1 ELSE Capacity]
  /\ excess' = [i \in Ips |-> IF excess[i] > Cardinality(Workers)
                              THEN excess[i] - Cardinality(Workers) ELSE 0]

\* excess[i] is the largest number, over all periods of time that end now, of
\* attempts let through from i less the sustained rate times the length of the
\* period.  It never exceeds one burst for each worker: "how many requests a
\* single IP may send back-to-back" is login_rate_limit_burst per worker, and
\* this is all that spreading the requests over connections gains
\* (LoginRateLimitMiddleware::call, build_app).
AttemptsBounded == \A i \in Ips : excess[i] <= Capacity * Cardinality(Workers)
=============================================================================
