------------------------- MODULE MCRedisSessionStore -------------------------
(***************************************************************************)
(* Instances of RedisSessionStore: sessions of one client, in a realm      *)
(* whose idle time is shorter than its maximum age.                        *)
(***************************************************************************)
EXTENDS RedisSessionStore, TLC

CONSTANTS s1, s2, o1, r1, p1, p2

OneOwner == [s \in SessionIds |-> o1]
OneRealm == [s \in SessionIds |-> r1]
Ages == [s \in SessionIds |-> 6]
Idles == [s \in SessionIds |-> 2]
Symmetry == Permutations(Procs)
=============================================================================
