-------------------------- MODULE SessionLifecycle --------------------------
(***************************************************************************)
(* What a session store promises its callers, whatever its backend: a      *)
(* session is served only while it is neither older than its maximum age   *)
(* nor idle for longer than its maximum stale age, the ones it was stored  *)
(* with, and once it has ended it is not served again unless it is created *)
(* anew.                                                                   *)
(*                                                                         *)
(* The trait SessionStore (session_store.rs) lists the operations; this    *)
(* module is the specification both kinds of backend are shown to          *)
(* implement.                                                              *)
(***************************************************************************)
EXTENDS Integers

CONSTANTS
  SessionIds,   \* identifiers: digests of the session tokens
  MaxAge,       \* max_age_seconds of each session
  MaxStale,     \* max_stale_age_seconds of each session
  Lag,          \* seconds between reading the clock and a statement's execution
  NoSession     \* the value of an identifier without a session

VARIABLES
  now,          \* the wall clock, in seconds
  sess          \* the sessions: when each was created and last used

LifecycleVars == <<now, sess>>

LifecycleInit ==
  /\ now \in Nat
  /\ sess = [s \in SessionIds |-> NoSession]

\* A login stores a session, or stores one anew under the same identifier; its
\* clock reading may be up to Lag old.
Create(s) ==
  /\ \E t \in (now - Lag)..now :
       sess' = [sess EXCEPT ![s] = [created |-> t, seen |-> now]]
  /\ UNCHANGED now

\* The session is handed to a caller, which counts as activity.
Serve(s) ==
  /\ sess[s] # NoSession
  /\ now <= sess[s].created + MaxAge[s] + Lag
  /\ now <= sess[s].seen + MaxStale[s] + Lag
  /\ sess' = [sess EXCEPT ![s].seen = now]
  /\ UNCHANGED now

\* Sessions end: by logout, with their realm, or because they expired.
End(S) ==
  /\ sess' = [s \in SessionIds |-> IF s \in S THEN NoSession ELSE sess[s]]
  /\ UNCHANGED now

Pass ==
  /\ now' = now + 1
  /\ UNCHANGED sess

LifecycleNext ==
  \/ \E s \in SessionIds : Create(s) \/ Serve(s)
  \/ \E S \in SUBSET SessionIds : End(S)
  \/ Pass

LifecycleSpec == LifecycleInit /\ [][LifecycleNext]_LifecycleVars
=============================================================================
