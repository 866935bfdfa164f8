----------------------------- MODULE RealmAdmin -----------------------------
(***************************************************************************)
(* Realms, their administrators and their credentials: the handlers of     *)
(* super_admins_endpoints.rs, admin_endpoints.rs and realms_endpoints.rs,  *)
(* the AdminAuth middleware, the authorisation rules of endpoints/mod.rs,  *)
(* the tables realm, admin, admin_realms and userpass (database/impls) and *)
(* the first start of the database (database/trait.rs).                    *)
(*                                                                         *)
(* Every SQL statement is one step; nothing is a transaction, so an update *)
(* of an admin is an UPDATE, a DELETE of all its memberships and one       *)
(* INSERT for each membership it is to have, and a request or a stop of    *)
(* the server may fall between any two.  One name space serves as admin    *)
(* identifiers and usernames, as the code compares them.  Passwords, roles *)
(* and realm settings are left out: what they hold decides nothing here.   *)
(***************************************************************************)
EXTENDS Integers, FiniteSets

CONSTANTS
  Realms,
  AdminRealm,   \* ADMIN_REALM, "_"
  Names,        \* admin identifiers and usernames
  Root,         \* APP_REALM_ADMIN_USERNAME
  Links,        \* values of the userpass field in a request body
  Procs,        \* requests being handled concurrently
  MaxRequests,  \* bound on the number of requests
  None

ASSUME RealmAdminAssumption ==
  /\ AdminRealm \in Realms
  /\ Root \in Names
  /\ Links \subseteq Names \cup {None}
  /\ MaxRequests \in Nat
ASSUME RealmNoneAssumption ==
  /\ None \notin Names /\ None \notin Realms
  /\ None \notin [userpass : Names \cup {None}]

VARIABLES
  boot,         \* how far the start of the server has come
  realms,       \* table realm
  admin,        \* table admin
  member,       \* table admin_realms
  creds,        \* table userpass
  call,         \* the request each process is handling
  begun         \* the number of requests so far

vars == <<boot, realms, admin, member, creds, call, begun>>

AdminRow == [userpass : Names \cup {None}]

\* What a handler keeps between statements: the realms of the requester, the
\* admin or username and the realm of the path, the userpass value and the
\* realms to be written, and, while it asks whether a super admin may act, the
\* realms still to be asked about, the one it is at and the admins still to be
\* read for it.
Call == [pc : {"idle", "auth_admins", "auth_realms", "list", "claims", "insert",
               "assign", "row", "realms", "body", "update", "unassign",
               "delete", "forget", "create_realm", "delete_realm",
               "create_userpass", "delete_userpass"},
         op : {"none", "create", "update", "delete", "add", "remove", "link",
               "unlink"},
         who : SUBSET Realms, name : Names \cup {None},
         realm : Realms \cup {None}, userpass : Names \cup {None},
         new : SUBSET Realms, check : SUBSET Realms, cur : Realms \cup {None},
         visit : SUBSET Names,
         then : {"none", "insert", "row", "body", "update", "delete",
                 "create_userpass", "delete_userpass"}]

TypeOK ==
  /\ boot \in {"down", "realm", "user", "admin", "member", "up"}
  /\ realms \subseteq Realms
  /\ admin \in [Names -> AdminRow \cup {None}]
  /\ member \subseteq Names \X Realms
  /\ creds \subseteq Realms \X Names
  /\ call \in [Procs -> Call]
  /\ begun \in Nat

Idle == [pc |-> "idle", op |-> "none", who |-> {}, name |-> None,
         realm |-> None, userpass |-> None, new |-> {}, check |-> {},
         cur |-> None, visit |-> {}, then |-> "none"]

tables == <<realms, admin, member, creds>>

Init ==
  /\ boot = "down"
  /\ realms = {} /\ member = {} /\ creds = {}
  /\ admin = [n \in Names |-> None]
  /\ call = [p \in Procs |-> Idle]
  /\ begun = 0

\* Mutant: the rows of the table instead of their realms.
RealmsOf_Rows(n) == {x \in member : x[1] = n}

\* SELECT realm_id FROM admin_realms WHERE admin_id.
RealmsOf(n) == {r \in Realms : <<n, r>> \in member}

Continue(p, c) == call' = [call EXCEPT ![p] = c]
Finish(p) == Continue(p, Idle)

-----------------------------------------------------------------------------
\* init: the tables are filled only if there is no realm ...
init ==
  /\ boot = "down"
  /\ boot' = IF realms = {} THEN "realm" ELSE "up"
  /\ UNCHANGED <<tables, call, begun>>

\* ... by initialize_db: the admin realm, the credential and, if it was missing,
\* the admin and its membership.  An admin already there makes the start fail.
initialize_realm ==
  /\ boot = "realm"
  /\ realms' = realms \cup {AdminRealm}
  /\ boot' = "user"
  /\ UNCHANGED <<admin, member, creds, call, begun>>

initialize_userpass ==
  /\ boot = "user"
  /\ creds' = creds \cup {<<AdminRealm, Root>>}
  /\ boot' = IF <<AdminRealm, Root>> \in creds THEN "up" ELSE "admin"
  /\ UNCHANGED <<realms, admin, member, call, begun>>

initialize_admin ==
  /\ boot = "admin"
  /\ IF admin[Root] = None
     THEN /\ admin' = [admin EXCEPT ![Root] = [userpass |-> Root]]
          /\ boot' = "member"
     ELSE /\ boot' = "down"
          /\ UNCHANGED admin
  /\ UNCHANGED <<realms, member, creds, call, begun>>

initialize_member ==
  /\ boot = "member"
  /\ member' = member \cup {<<Root, AdminRealm>>}
  /\ boot' = "up"
  /\ UNCHANGED <<realms, admin, creds, call, begun>>

\* The server stops; every request is cut off where it stands.
stop ==
  /\ boot # "down"
  /\ boot' = "down"
  /\ call' = [p \in Procs |-> Idle]
  /\ UNCHANGED <<tables, begun>>

-----------------------------------------------------------------------------
\* InjectAdminRealm (for the /admins scopes) and the first statement of
\* AdminAuth: an admin with the userpass value of the session's subject.
AdminAuth(p, n, scope) ==
  /\ boot = "up"
  /\ call[p].pc = "idle"
  /\ begun < MaxRequests
  /\ scope = "auth_admins" => AdminRealm \in realms
  /\ admin[n] # None /\ admin[n].userpass # None
  /\ Continue(p, [Idle EXCEPT !.pc = scope, !.name = n])
  /\ begun' = begun + 1
  /\ UNCHANGED <<boot, tables>>

\* get_admin gives the handler the requester, with its realms.
Requester(p, scope) ==
  /\ call[p].pc = scope
  /\ admin[call[p].name] # None

Holding(p) == [Idle EXCEPT !.who = RealmsOf(call[p].name)]

IsSuper(c) == AdminRealm \in c.who

\* can_manage_realm for every realm of S: the requester's own realms pass; for
\* the others a super admin has to see that no admin claims them.
Check(c, S, then) ==
  IF S \subseteq c.who THEN [c EXCEPT !.pc = then]
  ELSE IF IsSuper(c) THEN [c EXCEPT !.pc = "list", !.check = S \ c.who, !.then = then]
  ELSE Idle

\* can_manage_admin_realms: an unaffiliated admin is the super admins'.
CheckAdmin(c, S, then) ==
  IF S = {} /\ ~IsSuper(c) THEN Idle ELSE Check(c, S, then)

\* The claim check goes on with the next realm, or lets the handler continue.
Unclaimed(c) ==
  IF c.check = {} THEN [c EXCEPT !.pc = c.then, !.cur = None, !.then = "none"]
  ELSE [c EXCEPT !.pc = "list", !.cur = None]

\* list_admins: the admins ...
list_admins(p) ==
  /\ call[p].pc = "list"
  /\ \E r \in call[p].check :
       LET V == {n \in Names : admin[n] # None}
           c == [call[p] EXCEPT !.check = @ \ {r}, !.visit = V]
       IN Continue(p, IF V = {} THEN Unclaimed(c)
                      ELSE [c EXCEPT !.pc = "claims", !.cur = r])
  /\ UNCHANGED <<boot, tables, begun>>

\* ... and then the realms of each; a claimed realm ends the request.
list_admins_realms(p) ==
  /\ call[p].pc = "claims"
  /\ \E n \in call[p].visit :
       LET c == [call[p] EXCEPT !.visit = @ \ {n}]
       IN Continue(p, IF <<n, call[p].cur>> \in member THEN Idle
                      ELSE IF c.visit = {} THEN Unclaimed(c) ELSE c)
  /\ UNCHANGED <<boot, tables, begun>>

-----------------------------------------------------------------------------
\* POST /admins.
create_admin(p, n, S, u) ==
  /\ Requester(p, "auth_admins")
  /\ Continue(p, CheckAdmin([Holding(p) EXCEPT !.op = "create", !.name = n,
                               !.new = S, !.userpass = u], S, "insert"))
  /\ UNCHANGED <<boot, tables, begun>>

\* PUT and DELETE /admins/{id}; the target is read before the check.
update_admin(p, n, S, u) ==
  /\ Requester(p, "auth_admins")
  /\ Continue(p, [Holding(p) EXCEPT !.pc = "row", !.op = "update", !.name = n,
                    !.new = S, !.userpass = u])
  /\ UNCHANGED <<boot, tables, begun>>

delete_admin(p, n) ==
  /\ Requester(p, "auth_admins")
  /\ Continue(p, [Holding(p) EXCEPT !.pc = "row", !.op = "delete", !.name = n])
  /\ UNCHANGED <<boot, tables, begun>>

\* PUT and DELETE /admins/{id}/realms/{realm}: the realm is checked first.
change_admin_realm(p, n, r, op) ==
  /\ Requester(p, "auth_admins")
  /\ Continue(p, Check([Holding(p) EXCEPT !.op = op, !.name = n, !.realm = r],
                       {r}, "row"))
  /\ UNCHANGED <<boot, tables, begun>>

\* POST and DELETE /admins/realms.
create_realm(p, r) ==
  /\ Requester(p, "auth_admins")
  /\ Continue(p, IF IsSuper(Holding(p))
                 THEN [Holding(p) EXCEPT !.pc = "create_realm", !.realm = r]
                 ELSE Idle)
  /\ UNCHANGED <<boot, tables, begun>>

delete_realm(p, r) ==
  /\ Requester(p, "auth_admins")
  /\ Continue(p, IF IsSuper(Holding(p)) \/ r \in Holding(p).who
                 THEN [Holding(p) EXCEPT !.pc = "delete_realm", !.realm = r]
                 ELSE Idle)
  /\ UNCHANGED <<boot, tables, begun>>

\* POST and DELETE /realms/{realm}/userpass.
create_userpass(p, r, n) ==
  /\ Requester(p, "auth_realms")
  /\ Continue(p, Check([Holding(p) EXCEPT !.name = n, !.realm = r], {r}, "create_userpass"))
  /\ UNCHANGED <<boot, tables, begun>>

delete_userpass(p, r, n) ==
  /\ Requester(p, "auth_realms")
  /\ Continue(p, Check([Holding(p) EXCEPT !.name = n, !.realm = r], {r}, "delete_userpass"))
  /\ UNCHANGED <<boot, tables, begun>>

-----------------------------------------------------------------------------
\* get_admin of the target: its row ...
get_admin(p) ==
  /\ call[p].pc = "row"
  /\ LET c == call[p]
         row == admin[c.name]
     IN Continue(p,
          IF row = None
          THEN IF c.op = "delete" /\ IsSuper(c) THEN [c EXCEPT !.pc = "delete"] ELSE Idle
          ELSE [c EXCEPT !.pc = "realms",
                  !.userpass = IF c.op = "update" THEN @ ELSE row.userpass])
  /\ UNCHANGED <<boot, tables, begun>>

\* What each handler does with the target: the credential handlers rewrite the
\* userpass value of an admin of that name, the others check the realms it has.
WithTarget(c, S) ==
  CASE c.op = "update" -> CheckAdmin(c, S, "body")
    [] c.op = "delete" -> CheckAdmin(c, S, "delete")
    [] c.op = "add" ->
         IF c.realm \in S THEN Idle
         ELSE Check([c EXCEPT !.new = S \cup {c.realm}], S, "update")
    [] c.op = "remove" ->
         IF c.realm \notin S THEN Idle
         ELSE CheckAdmin([c EXCEPT !.new = S \ {c.realm}], S, "update")
    [] c.op = "link" ->
         IF c.userpass = c.name THEN Idle
         ELSE [c EXCEPT !.pc = "update", !.userpass = c.name, !.new = S]
    [] OTHER ->
         IF c.userpass # c.name THEN Idle
         ELSE [c EXCEPT !.pc = "update", !.userpass = None, !.new = S]

\* ... and its realms.
get_admin_realms(p) ==
  /\ call[p].pc = "realms"
  /\ Continue(p, WithTarget(call[p], RealmsOf(call[p].name)))
  /\ UNCHANGED <<boot, tables, begun>>

\* Mutant: the realm list of the body is not checked.
Body_Unchecked(c) == [c EXCEPT !.pc = "update"]

\* The second check of update_admin, on the realm list of the body.
Body(c) == CheckAdmin(c, c.new, "update")

update_admin_body(p) ==
  /\ call[p].pc = "body"
  /\ Continue(p, Body(call[p]))
  /\ UNCHANGED <<boot, tables, begun>>

\* update_admin of the database: UPDATE admin ...
update_admin_row(p) ==
  /\ call[p].pc = "update"
  /\ LET n == call[p].name
     IN admin' = IF admin[n] = None THEN admin
                 ELSE [admin EXCEPT ![n] = [userpass |-> call[p].userpass]]
  /\ Continue(p, [call[p] EXCEPT !.pc = "unassign"])
  /\ UNCHANGED <<boot, realms, member, creds, begun>>

\* The call with its INSERTs into admin_realms ahead, if any is left.
Assigning(c) == IF c.new = {} THEN Idle ELSE [c EXCEPT !.pc = "assign"]

\* ... DELETE FROM admin_realms ...
update_admin_unassign(p) ==
  /\ call[p].pc = "unassign"
  /\ member' = {x \in member : x[1] # call[p].name}
  /\ Continue(p, Assigning(call[p]))
  /\ UNCHANGED <<boot, realms, admin, creds, begun>>

\* Mutant: the foreign keys of admin_realms are not enforced.
CanAssign_NoKeys(n, r) == <<n, r>> \notin member

\* The primary key and the foreign keys of admin_realms.
CanAssign(n, r) == <<n, r>> \notin member /\ admin[n] # None /\ r \in realms

\* ... and one INSERT for each realm, up to the first that fails.
assign(p) ==
  /\ call[p].pc = "assign"
  /\ \E r \in call[p].new :
       IF CanAssign(call[p].name, r)
       THEN /\ member' = member \cup {<<call[p].name, r>>}
            /\ Continue(p, Assigning([call[p] EXCEPT !.new = @ \ {r}]))
       ELSE /\ Finish(p)
            /\ UNCHANGED member
  /\ UNCHANGED <<boot, realms, admin, creds, begun>>

\* create_admin of the database: INSERT, then its memberships.
insert_admin(p) ==
  /\ call[p].pc = "insert"
  /\ LET n == call[p].name
     IN IF admin[n] = None
        THEN /\ admin' = [admin EXCEPT ![n] = [userpass |-> call[p].userpass]]
             /\ Continue(p, Assigning(call[p]))
        ELSE /\ Finish(p)
             /\ UNCHANGED admin
  /\ UNCHANGED <<boot, realms, member, creds, begun>>

\* DELETE FROM admin takes its memberships with it; the credentials follow.
delete_admin_row(p) ==
  /\ call[p].pc = "delete"
  /\ admin' = [admin EXCEPT ![call[p].name] = None]
  /\ member' = {x \in member : x[1] # call[p].name}
  /\ Continue(p, IF call[p].userpass = None THEN Idle
                 ELSE [call[p] EXCEPT !.pc = "forget"])
  /\ UNCHANGED <<boot, realms, creds, begun>>

delete_userpass_by_username(p) ==
  /\ call[p].pc = "forget"
  /\ creds' = {x \in creds : x[2] # call[p].userpass}
  /\ Finish(p)
  /\ UNCHANGED <<boot, realms, admin, member, begun>>

insert_realm(p) ==
  /\ call[p].pc = "create_realm"
  /\ realms' = realms \cup {call[p].realm}
  /\ Finish(p)
  /\ UNCHANGED <<boot, admin, member, creds, begun>>

\* DELETE FROM realm takes memberships and credentials with it.
delete_realm_row(p) ==
  /\ call[p].pc = "delete_realm"
  /\ realms' = realms \ {call[p].realm}
  /\ member' = {x \in member : x[2] # call[p].realm}
  /\ creds' = {x \in creds : x[1] # call[p].realm}
  /\ Finish(p)
  /\ UNCHANGED <<boot, admin, begun>>

\* A credential of the admin realm is linked to the admin of that name ...
Linking(c, op) ==
  IF c.realm = AdminRealm THEN [c EXCEPT !.pc = "row", !.op = op] ELSE Idle

insert_userpass(p) ==
  /\ call[p].pc = "create_userpass"
  /\ LET x == <<call[p].realm, call[p].name>>
     IN IF x \notin creds /\ call[p].realm \in realms
        THEN /\ creds' = creds \cup {x}
             /\ Continue(p, Linking(call[p], "link"))
        ELSE /\ Finish(p)
             /\ UNCHANGED creds
  /\ UNCHANGED <<boot, realms, admin, member, begun>>

\* ... and unlinked when it is deleted.
delete_userpass_row(p) ==
  /\ call[p].pc = "delete_userpass"
  /\ creds' = creds \ {<<call[p].realm, call[p].name>>}
  /\ Continue(p, Linking(call[p], "unlink"))
  /\ UNCHANGED <<boot, realms, admin, member, begun>>

\* A statement fails: the handler returns early.
abandon(p) ==
  /\ call[p].pc # "idle"
  /\ Finish(p)
  /\ UNCHANGED <<boot, tables, begun>>

-----------------------------------------------------------------------------
Start ==
  \/ init \/ initialize_realm \/ initialize_userpass
  \/ initialize_admin \/ initialize_member \/ stop

Handle(p) ==
  \/ \E n \in Names, s \in {"auth_admins", "auth_realms"} : AdminAuth(p, n, s)
  \/ \E n \in Names, S \in SUBSET Realms, u \in Links :
       create_admin(p, n, S, u) \/ update_admin(p, n, S, u)
  \/ \E n \in Names : delete_admin(p, n)
  \/ \E n \in Names, r \in Realms, op \in {"add", "remove"} :
       change_admin_realm(p, n, r, op)
  \/ \E r \in Realms : create_realm(p, r) \/ delete_realm(p, r)
  \/ \E n \in Names, r \in Realms : create_userpass(p, r, n) \/ delete_userpass(p, r, n)
  \/ list_admins(p) \/ list_admins_realms(p)
  \/ get_admin(p) \/ get_admin_realms(p) \/ update_admin_body(p)
  \/ update_admin_row(p) \/ update_admin_unassign(p) \/ assign(p)
  \/ insert_admin(p) \/ delete_admin_row(p) \/ delete_userpass_by_username(p)
  \/ insert_realm(p) \/ delete_realm_row(p)
  \/ insert_userpass(p) \/ delete_userpass_row(p)
  \/ abandon(p)

Next == Start \/ (\E p \in Procs : Handle(p))

Spec == Init /\ [][Next]_vars

-----------------------------------------------------------------------------
\* Memberships belong to an admin and a realm that exist and credentials to a
\* realm that exists, also when one of them is deleted between the check of a
\* request and its INSERTs (CanAssign, delete_admin_row, delete_realm_row).
ReferencesHold ==
  /\ \A x \in member : admin[x[1]] # None /\ x[2] \in realms
  /\ \A x \in creds : x[1] \in realms

\* "Realm admins can only assign admins to realms they administer": an admin
\* who is not a super admin makes nobody an administrator of a realm that it
\* did not administer itself when its request was authenticated, whatever the
\* memberships of the target became meanwhile (update_admin, add_admin_to_realm,
\* create_userpass and delete_userpass, which write back what they read).
GrantsAuthorised ==
  [][\A x \in member' \ member :
       \/ boot = "member"
       \/ \E p \in Procs : /\ call[p].pc = "assign" /\ call[p].name = x[1]
                           /\ IsSuper(call[p]) \/ x[2] \in call[p].who]_vars

\* "At startup the server creates whichever of these is missing": the admin
\* realm, the credential and the admin record of the initial super admin.
SeededAtStart ==
  [][(boot # "up" /\ boot' = "up") =>
       /\ AdminRealm \in realms'
       /\ <<AdminRealm, Root>> \in creds'
       /\ admin'[Root] # None /\ <<Root, AdminRealm>> \in member']_vars
=============================================================================
