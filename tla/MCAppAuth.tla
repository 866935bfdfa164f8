------------------------------ MODULE MCAppAuth ------------------------------
(***************************************************************************)
(* Instances of AppAuth.  Random values are interchangeable.               *)
(***************************************************************************)
EXTENDS AppAuth, TLC

CONSTANTS n1, i1, i2, x1, k1, k2, p1, p2

Symmetry == Permutations(Procs) \cup Permutations(Tokens) \cup Permutations(RoleIds)
=============================================================================
