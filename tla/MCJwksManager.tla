---------------------------- MODULE MCJwksManager ----------------------------
(***************************************************************************)
(* Instances of JwksManager: realm r1 has one provider, realm r2 shares it *)
(* and has another one; u3 is no provider of either.                       *)
(***************************************************************************)
EXTENDS JwksManager

CONSTANTS r1, r2, u1, u2, u3, k1, k2, p1, p2

Providers == [r \in Realms |-> IF r = r1 THEN {u1} ELSE {u1, u2}]
=============================================================================
