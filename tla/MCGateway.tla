------------------------------ MODULE MCGateway ------------------------------
(***************************************************************************)
(* Instance of Gateway: realms that differ in every age, and bodies of     *)
(* certify that are well formed, lack a key or ask for a reserved name.    *)
(***************************************************************************)
EXTENDS Gateway, TLC

CONSTANTS i1, w1, w2, r1, u1, s1, s2, dept, iss, p1, p2

MCRealmRows == {[max_age |-> 1, stale_age |-> 1, cert_age |-> 3],
                [max_age |-> 2, stale_age |-> 1, cert_age |-> 2]}

\* A user without claims, and one provisioned with a reserved name among them.
MCExtras == {{}, {dept, iss}}

Plain == [pem |-> TRUE, claims |-> {}, exclude_sub |-> FALSE]
MCBodies == {Plain, [Plain EXCEPT !.claims = {dept}, !.exclude_sub = TRUE],
             [Plain EXCEPT !.claims = {iss}], [Plain EXCEPT !.pem = FALSE]}

Symmetry == Permutations(Procs) \cup Permutations(Workers) \cup Permutations(Sids)
=============================================================================
