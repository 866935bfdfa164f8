----------------------------- MODULE MCSamlRealm -----------------------------
(***************************************************************************)
(* Instance of SamlRealm: settings that change the provider's certificate  *)
(* and the origins between the steps of a login, settings that are         *)
(* refused, and assertions of both certificates.                           *)
(***************************************************************************)
EXTENDS SamlRealm, TLC

CONSTANTS r1, admin, q1, a1, a2, p1, p2, old, new, mail, app, other, plain

Key(u, c) == [use |-> u, cert |-> c]

\* The settings in use: users are named by their NameID.
ByNameId ==
  [metadata |-> [kind |-> "entity", valid_until |-> None, sso |-> "https",
                 keys |-> {Key("unspecified", old), Key("signing", new)},
                 nameid |-> "persistent"],
   acs |-> TRUE, subject_attribute |-> FALSE, claim_map |-> [x \in Attributes |-> "mail"],
   origins |-> {app}, default |-> app]

\* After the provider changed its certificate and the application moved.
Renewed ==
  [ByNameId EXCEPT !.metadata.keys = {Key("signing", new)}, !.metadata.nameid = "transient",
                   !.metadata.valid_until = 2,
                   !.subject_attribute = TRUE, !.claim_map = [x \in Attributes |-> None],
                   !.origins = {other}, !.default = other]

MCBodies ==
  {ByNameId, Renewed,
   [ByNameId EXCEPT !.metadata.kind = "bundle"],
   [ByNameId EXCEPT !.metadata.sso = "http"],
   [ByNameId EXCEPT !.metadata.keys = {Key("encryption", new)}],
   [ByNameId EXCEPT !.metadata.nameid = "transient"],
   [ByNameId EXCEPT !.claim_map = [x \in Attributes |-> "sub"]],
   [ByNameId EXCEPT !.default = other],
   [ByNameId EXCEPT !.origins = {app, plain}],
   [ByNameId EXCEPT !.acs = FALSE]}

MCContent ==
  [a \in Assertions |->
     IF a = a1 THEN [cert |-> old, audience |-> TRUE, authn |-> TRUE,
                     nameid |-> "persistent", subjects |-> 1, attributes |-> Attributes]
     ELSE [cert |-> new, audience |-> TRUE, authn |-> TRUE,
           nameid |-> "transient", subjects |-> 1, attributes |-> Attributes]]

Symmetry == Permutations(Procs)
=============================================================================
