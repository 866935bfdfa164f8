------------------------------ MODULE AppTokens ------------------------------
(***************************************************************************)
(* What the two auth methods that issue app tokens, AppRole (AppAuth) and  *)
(* Kubernetes (K8sAuth), have in common: roles with names, random tokens,  *)
(* requests handled concurrently, a clock, and the rule for the column     *)
(* expiry of the rows they store.  Each method keeps its own tables.       *)
(***************************************************************************)
EXTENDS Integers

CONSTANTS
  Names,        \* role names
  Tokens,       \* app tokens, random values
  Procs,        \* requests being handled concurrently
  MaxTime,      \* bound on the clock
  None

VARIABLE now    \* the wall clock

\* The expiry column of a row with lifetime ttl: 0 stands for none.
ExpiryAt(t, ttl) == IF ttl > 0 THEN t + ttl ELSE 0
=============================================================================
