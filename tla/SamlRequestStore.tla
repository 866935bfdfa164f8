--------------------------- MODULE SamlRequestStore ---------------------------
(***************************************************************************)
(* What the trait SamlRequestStore (saml/request_store.rs) promises the    *)
(* SAML endpoints, whichever database is behind it: a pending request is   *)
(* handed out once, and an assertion is called new once for as long as the *)
(* store was asked to remember it.  Expired entries may vanish at any      *)
(* time, no other may.                                                     *)
(***************************************************************************)
EXTENDS Integers

CONSTANTS Realms, Requests, Assertions, None

VARIABLES
  now,          \* the wall clock, in half seconds
  pending,      \* the requests that can be taken
  taken,        \* how many times each request was handed out
  fresh         \* until when an assertion called new had to be remembered

vars == <<now, pending, taken, fresh>>

Expired(row, t) == row.expires_at <= t \div 2

Init ==
  /\ now = 0
  /\ pending = [q \in Requests |-> None]
  /\ taken = [q \in Requests |-> 0]
  /\ fresh = [x \in Realms \X Assertions |-> None]

\* Under an identifier that was not in use.
StorePending(q) ==
  /\ pending[q] = None /\ taken[q] = 0
  /\ pending'[q] \in [realm : Realms, expires_at : Nat]
  /\ pending' = [pending EXCEPT ![q] = pending'[q]]
  /\ UNCHANGED <<now, taken, fresh>>

\* "Atomically fetch and delete the pending request ..., enforcing single use."
TakePending(q) ==
  /\ pending[q] # None /\ taken[q] = 0
  /\ pending' = [pending EXCEPT ![q] = None]
  /\ taken' = [taken EXCEPT ![q] = 1]
  /\ UNCHANGED <<now, fresh>>

\* "Returns true if it was newly recorded": not while an earlier record holds.
RecordAssertion(x) ==
  /\ fresh[x] = None \/ fresh[x] <= now \div 2
  /\ fresh'[x] \in Nat
  /\ fresh' = [fresh EXCEPT ![x] = fresh'[x]]
  /\ UNCHANGED <<now, pending, taken>>

\* Requests that have expired are dropped, and no other.
Forget ==
  /\ \E Q \in SUBSET {q \in Requests : pending[q] # None /\ Expired(pending[q], now)} :
       pending' = [q \in Requests |-> IF q \in Q THEN None ELSE pending[q]]
  /\ UNCHANGED <<now, taken, fresh>>

Pass == now' = now + 1 /\ UNCHANGED <<pending, taken, fresh>>

Next ==
  \/ \E q \in Requests : StorePending(q) \/ TakePending(q)
  \/ \E x \in Realms \X Assertions : RecordAssertion(x)
  \/ Forget \/ Pass

Spec == Init /\ [][Next]_vars
=============================================================================
