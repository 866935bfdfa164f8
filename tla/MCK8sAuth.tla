------------------------------ MODULE MCK8sAuth ------------------------------
(***************************************************************************)
(* Instance of K8sAuth: one role name that changes between requests that   *)
(* differ in every field, two keys published under one kid, a third        *)
(* without, and JWTs that each miss one condition or claim.                *)
(***************************************************************************)
EXTENDS K8sAuth

CONSTANTS n1, good, plain, local, k1, k2, k3, kidA, kidB, dev, prod, sa1, sa2,
          iss1, iss2, aud1, aud2, star, t1, t2, p1, p2

MCKidOf == [k \in Keys |-> IF k = k3 THEN None ELSE kidA]

\* A JWT with everything right for the narrow role.
Right == [alg |-> "RS256", kid |-> kidA, key |-> k1, sub |-> <<prod, sa1>>, iss |-> iss1,
          aud |-> {aud1}, nbf |-> 0, exp |-> 1]

MCJwts ==
  {Right,
   [Right EXCEPT !.key = k2, !.nbf = 3, !.exp = 3],
   [Right EXCEPT !.key = k3, !.kid = kidB, !.iss = iss2, !.aud = {aud2}, !.exp = 3],
   [Right EXCEPT !.key = k3, !.kid = None, !.sub = <<dev, sa2>>],
   [Right EXCEPT !.iss = None, !.nbf = None],
   [Right EXCEPT !.aud = None, !.iss = iss2],
   [Right EXCEPT !.iss = None, !.aud = None],
   [Right EXCEPT !.exp = None],
   [Right EXCEPT !.alg = "HS256"],
   [Right EXCEPT !.sub = None]}

\* The narrow role, and an open one.
Narrow == [jwks_url |-> good, names |-> {sa1}, namespaces |-> {prod}, token_ttl |-> 1,
           issuer |-> iss1, audiences |-> {aud1}]

MCRequests ==
  {Narrow,
   [Narrow EXCEPT !.names = {}, !.namespaces = {}, !.token_ttl = 0, !.issuer = None, !.audiences = {}],
   [Narrow EXCEPT !.names = {sa2, star}, !.namespaces = {dev}, !.audiences = {aud2}, !.token_ttl = 2],
   [Narrow EXCEPT !.jwks_url = plain],
   [Narrow EXCEPT !.jwks_url = local],
   [Narrow EXCEPT !.token_ttl = -1]}
=============================================================================
