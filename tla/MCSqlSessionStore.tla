-------------------------- MODULE MCSqlSessionStore --------------------------
(***************************************************************************)
(* Instances of SqlSessionStore: one session of a realm whose idle time is *)
(* shorter than its age, so that it can expire in either way.              *)
(***************************************************************************)
EXTENDS SqlSessionStore, TLC

CONSTANTS s1, c1, r1, p1, p2

Client1 == [s \in SessionIds |-> c1]
OneRealm == [s \in SessionIds |-> r1]
Ages == [s \in SessionIds |-> 3]
Idles == [s \in SessionIds |-> 2]
=============================================================================
