------------------------------- MODULE MCLogin -------------------------------
(***************************************************************************)
(* Instances of Login.  Provisioned starts with a user who has a           *)
(* credential and an admin row, so that every change of the bound can fall *)
(* into a login.                                                           *)
(***************************************************************************)
EXTENDS Login, TLC

CONSTANTS r1, u1, w1, w2, none, ops, x1, x2, p1, p2

Provisioned ==
  /\ realm \in [Realms -> RealmRow]
  /\ userpass \in [Realms \X Users -> UserPass]
  /\ admin \in [Users -> Admin]
  /\ session = {}
  /\ call = [p \in Procs |-> None]
  /\ changes = 0
  /\ held = [p \in Procs |-> Nothing]

ProvisionedSpec == (Init \/ Provisioned) /\ [][Next]_vars

Symmetry ==
  Permutations(Procs) \cup Permutations(Passwords) \cup Permutations(Secrets)
=============================================================================
