---------------------------- MODULE MCRealmAdmin ----------------------------
(***************************************************************************)
(* Instances of RealmAdmin: the admin realm and one other, the initial     *)
(* super admin and one more admin.  SeededSpec starts from the fresh       *)
(* database or from one with a second realm and an admin of it, so that    *)
(* the requests of the bound meet a claimed realm.                         *)
(***************************************************************************)
EXTENDS RealmAdmin, TLC

CONSTANTS adm, r1, root, n1, p1, p2

Claimed ==
  /\ boot = "up"
  /\ realms = {adm, r1}
  /\ member = {<<root, adm>>, <<n1, r1>>}
  /\ creds = {<<adm, root>>, <<adm, n1>>}
  /\ admin = (root :> [userpass |-> root] @@ n1 :> [userpass |-> n1])
  /\ call = [p \in Procs |-> Idle]
  /\ begun = 0

SeededSpec == (Init \/ Claimed) /\ [][Next]_vars

Symmetry == Permutations(Procs)
=============================================================================
