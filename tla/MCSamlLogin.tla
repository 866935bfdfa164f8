----------------------------- MODULE MCSamlLogin -----------------------------
(***************************************************************************)
(* Instances of SamlLogin.                                                 *)
(***************************************************************************)
EXTENDS SamlLogin, TLC

CONSTANTS r1, r2, q1, q2, a1, a2, p1, p2

Symmetry ==
  Permutations(Procs) \cup Permutations(Realms)
    \cup Permutations(Requests) \cup Permutations(Assertions)
=============================================================================
