--------------------------- MODULE RealmAdminProofs ---------------------------
(***************************************************************************)
(* For every set of realms, names and concurrent requests: the tables of   *)
(* the administration keep their references, and no request makes anybody  *)
(* an administrator of a realm beyond the authority of its requester, with *)
(* requests cut off and servers restarted at any statement.  The last part *)
(* says what a first start leaves behind, completed or interrupted.        *)
(***************************************************************************)
EXTENDS RealmAdmin, TLAPS

\* What a request holds at the statements that need it: a name, except while it
\* creates or deletes a realm; a realm where it names one; and, during a claim
\* check, the statement to go on with.
Sound(c) ==
  /\ c \in Call
  /\ c.pc \notin {"idle", "create_realm", "delete_realm"} => c.name \in Names
  /\ c.pc \in {"create_realm", "delete_realm"} \/ c.op \in {"add", "remove"}
       => c.realm \in Realms
  /\ c.pc \in {"list", "claims"} => c.then # "none"

TypeInv == TypeOK /\ \A p \in Procs : Sound(call[p])

-----------------------------------------------------------------------------
\* A finished request holds nothing.
LEMMA IdleSound == Sound(Idle)
BY DEF Sound, Idle, Call

\* Reading the memberships of an admin gives realms.
LEMMA RealmsOfType == ASSUME NEW n PROVE RealmsOf(n) \subseteq Realms
BY DEF RealmsOf

\* The check of a requester's authority keeps what the request holds.
LEMMA CheckSound ==
  ASSUME NEW c, c \in Call, c.name \in Names, NEW S \in SUBSET Realms,
         c.op \in {"add", "remove"} => c.realm \in Realms,
         NEW then \in {"insert", "row", "body", "update", "delete",
                       "create_userpass", "delete_userpass"}
  PROVE  Sound(Check(c, S, then)) /\ Sound(CheckAdmin(c, S, then))
<1>1. Sound([c EXCEPT !.pc = then])
  BY DEF Sound, Call
<1>2. Sound([c EXCEPT !.pc = "list", !.check = S \ c.who, !.then = then])
  <2> DEFINE d == [c EXCEPT !.pc = "list", !.check = S \ c.who, !.then = then]
  <2>1. d \in Call
    BY DEF Call
  <2>2. /\ d.pc = "list" /\ d.then = then /\ d.name = c.name
        /\ d.op = c.op /\ d.realm = c.realm
    BY DEF Call
  <2> QED
    BY <2>1, <2>2 DEF Sound
<1> QED
  BY <1>1, <1>2, IdleSound DEF Check, CheckAdmin

\* So does its continuation after a realm that nobody claims.
LEMMA UnclaimedSound ==
  ASSUME NEW c, c \in Call, c.name \in Names, c.then # "none",
         c.op \in {"add", "remove"} => c.realm \in Realms
  PROVE  Sound(Unclaimed(c))
<1>1. Sound([c EXCEPT !.pc = c.then, !.cur = None, !.then = "none"])
  <2> DEFINE d == [c EXCEPT !.pc = c.then, !.cur = None, !.then = "none"]
  <2>1. d \in Call
    <3>1. c.then \in {"insert", "row", "body", "update", "delete",
                     "create_userpass", "delete_userpass"}
      BY DEF Call
    <3>2. ASSUME NEW v \in {"insert", "row", "body", "update", "delete",
                            "create_userpass", "delete_userpass"}
          PROVE  [c EXCEPT !.pc = v, !.cur = None, !.then = "none"] \in Call
      BY DEF Call
    <3> QED
      BY <3>1, <3>2
  <2>2. /\ d.pc = c.then /\ d.name = c.name /\ d.op = c.op /\ d.realm = c.realm
    BY DEF Call
  <2>3. c.then \notin {"create_realm", "delete_realm", "list", "claims"}
    BY DEF Call
  <2> QED
    BY <2>1, <2>2, <2>3 DEF Sound
<1>2. Sound([c EXCEPT !.pc = "list", !.cur = None])
  <2> DEFINE d == [c EXCEPT !.pc = "list", !.cur = None]
  <2>1. d \in Call
    BY DEF Call
  <2>2. /\ d.pc = "list" /\ d.then = c.then /\ d.name = c.name
        /\ d.op = c.op /\ d.realm = c.realm
    BY DEF Call
  <2> QED
    BY <2>1, <2>2 DEF Sound
<1> QED
  BY <1>1, <1>2 DEF Unclaimed

\* What a handler does with the target of its request.
LEMMA WithTargetSound ==
  ASSUME NEW c, Sound(c), c.pc = "realms", NEW S \in SUBSET Realms
  PROVE  Sound(WithTarget(c, S))
<1> c \in Call /\ c.name \in Names
  BY DEF Sound
<1>1. CASE c.op \in {"update", "delete"}
  BY <1>1, CheckSound DEF WithTarget, Sound
<1>2. CASE c.op = "add"
  <2> DEFINE d == [c EXCEPT !.new = S \cup {c.realm}]
  <2>1. d \in Call /\ d.name \in Names /\ d.op = "add" /\ d.realm \in Realms
    BY <1>2 DEF Sound, Call
  <2>2. Sound(Check(d, S, "update"))
    <3> HIDE DEF d
    <3> QED
      BY <2>1, CheckSound
  <2> QED
    BY <1>2, <2>2, IdleSound DEF WithTarget
<1>3. CASE c.op = "remove"
  <2> DEFINE d == [c EXCEPT !.new = S \ {c.realm}]
  <2>1. d \in Call /\ d.name \in Names /\ d.op = "remove" /\ d.realm \in Realms
    BY <1>3 DEF Sound, Call
  <2>2. Sound(CheckAdmin(d, S, "update"))
    <3> HIDE DEF d
    <3> QED
      BY <2>1, CheckSound
  <2> QED
    BY <1>3, <2>2, IdleSound DEF WithTarget
<1>4. CASE c.op \notin {"update", "delete", "add", "remove"}
  <2>1. Sound([c EXCEPT !.pc = "update", !.userpass = c.name, !.new = S])
    BY <1>4 DEF Sound, Call
  <2>2. Sound([c EXCEPT !.pc = "update", !.userpass = None, !.new = S])
    BY <1>4 DEF Sound, Call
  <2> QED
    BY <1>4, <2>1, <2>2, IdleSound DEF WithTarget
<1> QED
  BY <1>1, <1>2, <1>3, <1>4

\* The credential handlers go on with the admin of that name, or end.
LEMMA LinkingSound ==
  ASSUME NEW c, Sound(c), c.pc \in {"create_userpass", "delete_userpass"},
         NEW op \in {"link", "unlink"}
  PROVE  Sound(Linking(c, op))
<1> DEFINE d == [c EXCEPT !.pc = "row", !.op = op]
<1>1. d \in Call
  BY DEF Sound, Call
<1>2. d.pc = "row" /\ d.op = op /\ d.name = c.name /\ c.name \in Names
  BY DEF Sound, Call
<1>3. Sound(d)
  BY <1>1, <1>2 DEF Sound
<1> QED
  BY <1>3, IdleSound DEF Linking

\* A request that only changes its own state keeps the types.
LEMMA ContinueKeeps ==
  ASSUME TypeInv, NEW p \in Procs, NEW c, Sound(c), Continue(p, c),
         boot' \in {"down", "realm", "user", "admin", "member", "up"},
         realms' \subseteq Realms,
         admin' \in [Names -> AdminRow \cup {None}],
         member' \subseteq Names \X Realms,
         creds' \subseteq Realms \X Names,
         begun' \in Nat
  PROVE  TypeInv'
<1>1. c \in Call /\ call \in [Procs -> Call]
  BY DEF TypeInv, TypeOK, Sound
<1>2. call' \in [Procs -> Call] /\ \A q \in Procs : call'[q] = IF q = p THEN c ELSE call[q]
  BY <1>1 DEF Continue
<1> QED
  BY <1>2 DEF TypeInv, TypeOK, Sound

\* The same for a step that leaves the tables alone.
LEMMA ReadKeeps ==
  ASSUME TypeInv, NEW p \in Procs, NEW c, Sound(c), Continue(p, c),
         UNCHANGED <<boot, tables>>, begun' \in Nat
  PROVE  TypeInv'
BY ContinueKeeps DEF TypeInv, TypeOK, tables

-----------------------------------------------------------------------------
\* The requester and its realms, with a target, in each handler.
LEMMA HoldingSound ==
  ASSUME NEW p \in Procs
  PROVE  Holding(p) \in Call /\ Holding(p).op = "none"
BY RealmsOfType DEF Holding, Idle, Call

\* Every start, restart, stop and statement keeps the tables and the requests
\* well typed (all handlers of the administration).
LEMMA TypeStep == TypeInv /\ [Next]_vars => TypeInv'
<1> SUFFICES ASSUME TypeInv, [Next]_vars PROVE TypeInv'
  OBVIOUS
<1> TypeOK /\ \A p \in Procs : Sound(call[p])
  BY DEF TypeInv
<1>1. CASE Start
  <2>1. CASE init \/ initialize_realm \/ initialize_userpass \/ initialize_member
    BY <2>1, RealmAdminAssumption
    DEF init, initialize_realm, initialize_userpass, initialize_member, TypeInv, TypeOK, tables
  <2>2. CASE initialize_admin
    BY <2>2, RealmAdminAssumption DEF initialize_admin, TypeInv, TypeOK, AdminRow
  <2>3. CASE stop
    BY <2>3, IdleSound DEF stop, TypeInv, TypeOK, tables, Sound
  <2> QED
    BY <1>1, <2>1, <2>2, <2>3 DEF Start
<1>2. ASSUME NEW p \in Procs, NEW n \in Names, NEW s \in {"auth_admins", "auth_realms"},
             AdminAuth(p, n, s)
      PROVE  TypeInv'
  <2>1. Sound([Idle EXCEPT !.pc = s, !.name = n])
    BY DEF Sound, Idle, Call
  <2> QED
    BY <1>2, <2>1, ReadKeeps DEF AdminAuth, TypeOK
<1>3. ASSUME NEW p \in Procs, NEW n \in Names, NEW S \in SUBSET Realms, NEW u \in Links,
             create_admin(p, n, S, u)
      PROVE  TypeInv'
  <2> DEFINE c == [Holding(p) EXCEPT !.op = "create", !.name = n, !.new = S, !.userpass = u]
  <2>1. c \in Call /\ c.op = "create" /\ c.name = n /\ c.new = S
    <3>1. Holding(p) \in Call /\ Holding(p).op = "none"
      BY HoldingSound
    <3>2. c \in Call
      BY <3>1, RealmAdminAssumption DEF Call
    <3>3. c.op = "create" /\ c.name = n /\ c.new = S
      BY <3>1 DEF Call
    <3> QED
      BY <3>2, <3>3
  <2>2. Sound(CheckAdmin(c, S, "insert"))
    <3> HIDE DEF c
    <3> QED
      BY <2>1, CheckSound
  <2> QED
    BY <1>3, <2>2, ReadKeeps DEF create_admin, TypeOK
<1>4. ASSUME NEW p \in Procs, NEW n \in Names, NEW S \in SUBSET Realms, NEW u \in Links,
             update_admin(p, n, S, u)
      PROVE  TypeInv'
  <2> DEFINE c == [Holding(p) EXCEPT !.pc = "row", !.op = "update", !.name = n,
                     !.new = S, !.userpass = u]
  <2>1. c \in Call /\ c.pc = "row" /\ c.op = "update" /\ c.name = n
    <3>1. Holding(p) \in Call /\ Holding(p).op = "none"
      BY HoldingSound
    <3>2. c \in Call
      BY <3>1, RealmAdminAssumption DEF Call
    <3>3. c.pc = "row" /\ c.op = "update" /\ c.name = n
      BY <3>1 DEF Call
    <3> QED
      BY <3>2, <3>3
  <2>2. Sound(c)
    BY <2>1 DEF Sound
  <2> QED
    BY <1>4, <2>2, ReadKeeps DEF update_admin, TypeOK
<1>5. ASSUME NEW p \in Procs, NEW n \in Names, delete_admin(p, n)
      PROVE  TypeInv'
  <2> DEFINE c == [Holding(p) EXCEPT !.pc = "row", !.op = "delete", !.name = n]
  <2>1. c \in Call /\ c.pc = "row" /\ c.op = "delete" /\ c.name = n
    <3>1. Holding(p) \in Call /\ Holding(p).op = "none"
      BY HoldingSound
    <3>2. c \in Call
      BY <3>1 DEF Call
    <3>3. c.pc = "row" /\ c.op = "delete" /\ c.name = n
      BY <3>1 DEF Call
    <3> QED
      BY <3>2, <3>3
  <2>2. Sound(c)
    BY <2>1 DEF Sound
  <2> QED
    BY <1>5, <2>2, ReadKeeps DEF delete_admin, TypeOK
<1>6. ASSUME NEW p \in Procs, NEW n \in Names, NEW r \in Realms,
             NEW op \in {"add", "remove"}, change_admin_realm(p, n, r, op)
      PROVE  TypeInv'
  <2> DEFINE c == [Holding(p) EXCEPT !.op = op, !.name = n, !.realm = r]
  <2>1. c \in Call /\ c.op = op /\ c.name = n /\ c.realm = r
    <3>1. Holding(p) \in Call /\ Holding(p).op = "none"
      BY HoldingSound
    <3>2. c \in Call
      BY <3>1 DEF Call
    <3>3. c.op = op /\ c.name = n /\ c.realm = r
      BY <3>1 DEF Call
    <3> QED
      BY <3>2, <3>3
  <2>2. Sound(Check(c, {r}, "row"))
    <3> HIDE DEF c
    <3> QED
      BY <2>1, CheckSound
  <2> QED
    BY <1>6, <2>2, ReadKeeps DEF change_admin_realm, TypeOK
<1>7. ASSUME NEW p \in Procs, NEW r \in Realms, create_realm(p, r) \/ delete_realm(p, r)
      PROVE  TypeInv'
  <2>1. ASSUME NEW pc \in {"create_realm", "delete_realm"}
        PROVE  Sound([Holding(p) EXCEPT !.pc = pc, !.realm = r])
    <3> DEFINE c == [Holding(p) EXCEPT !.pc = pc, !.realm = r]
    <3>1. c \in Call /\ c.pc = pc /\ c.realm = r
      <4>1. Holding(p) \in Call
        BY HoldingSound
      <4>2. c \in Call
        BY <4>1 DEF Call
      <4>3. c.pc = pc /\ c.realm = r
        BY <4>1 DEF Call
      <4> QED
        BY <4>2, <4>3
    <3> QED
      BY <3>1 DEF Sound
  <2> QED
    BY <1>7, <2>1, IdleSound, ReadKeeps DEF create_realm, delete_realm, TypeOK
<1>8. ASSUME NEW p \in Procs, NEW n \in Names, NEW r \in Realms,
             create_userpass(p, r, n) \/ delete_userpass(p, r, n)
      PROVE  TypeInv'
  <2> DEFINE c == [Holding(p) EXCEPT !.name = n, !.realm = r]
  <2>1. c \in Call /\ c.op = "none" /\ c.name = n /\ c.realm = r
    <3>1. Holding(p) \in Call /\ Holding(p).op = "none"
      BY HoldingSound
    <3>2. c \in Call
      BY <3>1 DEF Call
    <3>3. c.op = "none" /\ c.name = n /\ c.realm = r
      BY <3>1 DEF Call
    <3> QED
      BY <3>2, <3>3
  <2>2. ASSUME NEW then \in {"create_userpass", "delete_userpass"}
        PROVE  Sound(Check(c, {r}, then))
    <3> HIDE DEF c
    <3> QED
      BY <2>1, CheckSound
  <2> QED
    BY <1>8, <2>2, ReadKeeps DEF create_userpass, delete_userpass, TypeOK
<1>9. ASSUME NEW p \in Procs, list_admins(p) PROVE TypeInv'
  <2> DEFINE V == {n \in Names : admin[n] # None}
             d(r) == [call[p] EXCEPT !.check = @ \ {r}, !.visit = V]
  <2>1. PICK r \in call[p].check :
          Continue(p, IF V = {} THEN Unclaimed(d(r))
                      ELSE [d(r) EXCEPT !.pc = "claims", !.cur = r])
    BY <1>9 DEF list_admins
  <2>2. /\ call[p] \in Call /\ call[p].name \in Names /\ call[p].then # "none"
        /\ call[p].op \in {"add", "remove"} => call[p].realm \in Realms
    BY <1>9 DEF list_admins, Sound
  <2>3. r \in Realms
    BY <2>2 DEF Call
  <2>4. /\ d(r) \in Call /\ d(r).name = call[p].name /\ d(r).then = call[p].then
        /\ d(r).op = call[p].op /\ d(r).realm = call[p].realm
    BY <2>2 DEF Call
  <2> HIDE DEF d
  <2>5. Sound(Unclaimed(d(r)))
    BY <2>2, <2>4, UnclaimedSound
  <2>6. Sound([d(r) EXCEPT !.pc = "claims", !.cur = r])
    <3> DEFINE e == [d(r) EXCEPT !.pc = "claims", !.cur = r]
    <3>1. e \in Call
      BY <2>3, <2>4 DEF Call
    <3>2. /\ e.pc = "claims" /\ e.name = d(r).name /\ e.then = d(r).then
          /\ e.op = d(r).op /\ e.realm = d(r).realm
      BY <2>4 DEF Call
    <3> QED
      BY <2>2, <2>4, <3>1, <3>2 DEF Sound
  <2> QED
    BY <1>9, <2>1, <2>5, <2>6, ReadKeeps DEF list_admins, TypeOK
<1>10. ASSUME NEW p \in Procs, list_admins_realms(p) PROVE TypeInv'
  <2> DEFINE d(n) == [call[p] EXCEPT !.visit = @ \ {n}]
  <2>1. PICK n \in call[p].visit :
          Continue(p, IF <<n, call[p].cur>> \in member THEN Idle
                      ELSE IF d(n).visit = {} THEN Unclaimed(d(n)) ELSE d(n))
    BY <1>10 DEF list_admins_realms
  <2>2. /\ call[p] \in Call /\ call[p].name \in Names /\ call[p].then # "none"
        /\ call[p].op \in {"add", "remove"} => call[p].realm \in Realms
        /\ call[p].pc = "claims"
    BY <1>10 DEF list_admins_realms, Sound
  <2>3. /\ d(n) \in Call /\ d(n).name = call[p].name /\ d(n).then = call[p].then
        /\ d(n).op = call[p].op /\ d(n).realm = call[p].realm /\ d(n).pc = call[p].pc
    BY <2>2 DEF Call
  <2> HIDE DEF d
  <2>4. Sound(Unclaimed(d(n))) /\ Sound(d(n))
    BY <2>2, <2>3, UnclaimedSound DEF Sound
  <2> QED
    BY <1>10, <2>1, <2>4, IdleSound, ReadKeeps DEF list_admins_realms, TypeOK
<1>11. ASSUME NEW p \in Procs, get_admin(p) PROVE TypeInv'
  <2>1. call[p] \in Call /\ call[p].name \in Names /\ admin[call[p].name] \in AdminRow \cup {None}
    BY <1>11 DEF get_admin, Sound, TypeOK
  <2>2. Sound([call[p] EXCEPT !.pc = "delete"])
    BY <1>11, <2>1 DEF get_admin, Sound, Call
  <2>3. ASSUME NEW u \in Names \cup {None}
        PROVE  Sound([call[p] EXCEPT !.pc = "realms", !.userpass = u])
    <3> DEFINE d == [call[p] EXCEPT !.pc = "realms", !.userpass = u]
    <3>1. d \in Call
      BY <2>1 DEF Call
    <3>2. /\ d.pc = "realms" /\ d.name = call[p].name
          /\ d.op = call[p].op /\ d.realm = call[p].realm
      BY <2>1 DEF Call
    <3> QED
      BY <2>1, <3>1, <3>2 DEF Sound
  <2>4. admin[call[p].name] # None => admin[call[p].name].userpass \in Names \cup {None}
    BY <2>1 DEF AdminRow
  <2>5. call[p].userpass \in Names \cup {None}
    BY <2>1 DEF Call
  <2> DEFINE u == IF call[p].op = "update" THEN call[p].userpass ELSE admin[call[p].name].userpass
  <2>6. Continue(p, IF admin[call[p].name] = None
                    THEN IF call[p].op = "delete" /\ IsSuper(call[p])
                         THEN [call[p] EXCEPT !.pc = "delete"] ELSE Idle
                    ELSE [call[p] EXCEPT !.pc = "realms", !.userpass = u])
    BY <1>11 DEF get_admin
  <2> QED
    BY <1>11, <2>2, <2>3, <2>4, <2>5, <2>6, IdleSound, ReadKeeps DEF get_admin, TypeOK
<1>12. ASSUME NEW p \in Procs, get_admin_realms(p) PROVE TypeInv'
  BY <1>12, WithTargetSound, RealmsOfType, ReadKeeps DEF get_admin_realms, TypeOK
<1>13. ASSUME NEW p \in Procs, update_admin_body(p) PROVE TypeInv'
  <2>1. call[p] \in Call /\ call[p].name \in Names /\ call[p].new \in SUBSET Realms
    BY <1>13 DEF update_admin_body, Sound, Call
  <2> QED
    BY <1>13, <2>1, CheckSound, ReadKeeps DEF update_admin_body, Body, Sound, TypeOK
<1>14. ASSUME NEW p \in Procs, update_admin_row(p) PROVE TypeInv'
  <2>1. Sound([call[p] EXCEPT !.pc = "unassign"])
    BY <1>14 DEF update_admin_row, Sound, Call
  <2>2. admin' \in [Names -> AdminRow \cup {None}]
    BY <1>14 DEF update_admin_row, Sound, Call, AdminRow, TypeOK
  <2> QED
    BY <1>14, <2>1, <2>2, ContinueKeeps DEF update_admin_row, TypeOK
<1>15. ASSUME NEW c, c \in Call, c.name \in Names, c.op \in {"add", "remove"} => c.realm \in Realms
       PROVE  Sound(Assigning(c))
  <2>1. Sound([c EXCEPT !.pc = "assign"])
    BY <1>15 DEF Sound, Call
  <2> QED
    BY <2>1, IdleSound DEF Assigning
<1>16. ASSUME NEW p \in Procs, update_admin_unassign(p) PROVE TypeInv'
  <2>1. Sound(Assigning(call[p]))
    BY <1>15, <1>16 DEF update_admin_unassign, Sound
  <2> QED
    BY <1>16, <2>1, ContinueKeeps DEF update_admin_unassign, TypeOK
<1>17. ASSUME NEW p \in Procs, assign(p) PROVE TypeInv'
  <2>1. PICK r \in call[p].new :
          IF CanAssign(call[p].name, r)
          THEN /\ member' = member \cup {<<call[p].name, r>>}
               /\ Continue(p, Assigning([call[p] EXCEPT !.new = @ \ {r}]))
          ELSE Finish(p) /\ UNCHANGED member
    BY <1>17 DEF assign
  <2>2. /\ call[p] \in Call /\ call[p].name \in Names /\ r \in Realms
        /\ call[p].op \in {"add", "remove"} => call[p].realm \in Realms
    BY <1>17 DEF assign, Sound, Call
  <2> DEFINE d == [call[p] EXCEPT !.new = @ \ {r}]
  <2>3. /\ d \in Call /\ d.name = call[p].name /\ d.op = call[p].op /\ d.realm = call[p].realm
    BY <2>2 DEF Call
  <2>4. Sound(Assigning(d))
    <3> HIDE DEF d
    <3> QED
      BY <1>15, <2>2, <2>3
  <2>5. member' \subseteq Names \X Realms
    BY <2>1, <2>2 DEF TypeOK
  <2> QED
    BY <1>17, <2>1, <2>4, <2>5, IdleSound, ContinueKeeps DEF assign, Finish, TypeOK
<1>18. ASSUME NEW p \in Procs, insert_admin(p) PROVE TypeInv'
  <2>1. call[p] \in Call /\ call[p].name \in Names
    BY <1>18 DEF insert_admin, Sound
  <2>2. Sound(Assigning(call[p]))
    BY <1>15, <1>18 DEF insert_admin, Sound
  <2>3. admin' \in [Names -> AdminRow \cup {None}]
    BY <1>18, <2>1 DEF insert_admin, Call, AdminRow, TypeOK
  <2> QED
    BY <1>18, <2>2, <2>3, IdleSound, ContinueKeeps DEF insert_admin, Finish, TypeOK
<1>19. ASSUME NEW p \in Procs, delete_admin_row(p) PROVE TypeInv'
  <2>1. Sound([call[p] EXCEPT !.pc = "forget"])
    BY <1>19 DEF delete_admin_row, Sound, Call
  <2>2. admin' \in [Names -> AdminRow \cup {None}] /\ member' \subseteq Names \X Realms
    BY <1>19 DEF delete_admin_row, TypeOK
  <2> QED
    BY <1>19, <2>1, <2>2, IdleSound, ContinueKeeps DEF delete_admin_row, TypeOK
<1>20. ASSUME NEW p \in Procs, delete_userpass_by_username(p) PROVE TypeInv'
  BY <1>20, IdleSound, ContinueKeeps DEF delete_userpass_by_username, Finish, TypeOK
<1>21. ASSUME NEW p \in Procs, insert_realm(p) PROVE TypeInv'
  <2>1. call[p].realm \in Realms
    BY <1>21 DEF insert_realm, Sound
  <2> QED
    BY <1>21, <2>1, IdleSound, ContinueKeeps DEF insert_realm, Finish, TypeOK
<1>22. ASSUME NEW p \in Procs, delete_realm_row(p) PROVE TypeInv'
  BY <1>22, IdleSound, ContinueKeeps DEF delete_realm_row, Finish, TypeOK
<1>23. ASSUME NEW p \in Procs, insert_userpass(p) PROVE TypeInv'
  <2>1. call[p].name \in Names /\ Sound(Linking(call[p], "link"))
    BY <1>23, LinkingSound DEF insert_userpass, Sound
  <2>2. creds' \subseteq Realms \X Names
    BY <1>23, <2>1 DEF insert_userpass, TypeOK
  <2> QED
    BY <1>23, <2>1, <2>2, IdleSound, ContinueKeeps DEF insert_userpass, Finish, TypeOK
<1>24. ASSUME NEW p \in Procs, delete_userpass_row(p) PROVE TypeInv'
  <2>1. Sound(Linking(call[p], "unlink"))
    BY <1>24, LinkingSound DEF delete_userpass_row
  <2> QED
    BY <1>24, <2>1, ContinueKeeps DEF delete_userpass_row, TypeOK
<1>25. ASSUME NEW p \in Procs, abandon(p) PROVE TypeInv'
  BY <1>25, IdleSound, ReadKeeps DEF abandon, Finish, TypeOK
<1>26. CASE UNCHANGED vars
  BY <1>26 DEF vars, TypeInv, TypeOK
<1> QED
  BY <1>1, <1>2, <1>3, <1>4, <1>5, <1>6, <1>7, <1>8, <1>9, <1>10, <1>11, <1>12, <1>13, <1>14,
     <1>16, <1>17, <1>18, <1>19, <1>20, <1>21, <1>22, <1>23, <1>24, <1>25, <1>26
  DEF Next, Handle

\* The tables, the start of the server and the requests always have their types
\* (database/trait.rs, the handlers of the administration).
THEOREM RealmTypeCorrect == Spec => []TypeInv
<1>1. Init => TypeInv
  BY IdleSound DEF Init, TypeInv, TypeOK, Sound
<1> QED
  BY <1>1, TypeStep, PTL DEF Spec

\* The type invariant on its own (RealmAdmin's tables and requests).
THEOREM RealmTypeOKAlways == Spec => []TypeOK
<1>1. TypeInv => TypeOK
  BY DEF TypeInv
<1> QED
  BY <1>1, RealmTypeCorrect, PTL

-----------------------------------------------------------------------------
(***************************************************************************)
(* References between the tables.  Requests are handled only while the     *)
(* server is up, and the first start has written what its next INSERT      *)
(* refers to.                                                              *)
(***************************************************************************)
BootInv ==
  /\ boot # "up" => \A p \in Procs : call[p].pc = "idle"
  /\ boot \in {"user", "admin", "member"} => AdminRealm \in realms
  /\ boot = "member" => admin[Root] # None

ReferenceInv == TypeInv /\ BootInv /\ ReferencesHold

\* Only a server that is up handles a statement of a request, and it stays up.
LEMMA HandledUp ==
  ASSUME TypeInv, BootInv, NEW p \in Procs, Handle(p)
  PROVE  boot = "up" /\ boot' = "up"
<1>1. call[p].pc # "idle" => boot = "up"
  BY DEF BootInv
<1> QED
  BY <1>1
  DEF Handle, AdminAuth, Requester, create_admin, update_admin, delete_admin, change_admin_realm,
      create_realm, delete_realm, create_userpass, delete_userpass, list_admins,
      list_admins_realms, get_admin, get_admin_realms, update_admin_body, update_admin_row,
      update_admin_unassign, assign, insert_admin, delete_admin_row, delete_userpass_by_username,
      insert_realm, delete_realm_row, insert_userpass, delete_userpass_row, abandon

\* The statements that write a table; every other step of a request only reads.
Writes(p) ==
  \/ update_admin_row(p) \/ update_admin_unassign(p) \/ assign(p)
  \/ insert_admin(p) \/ delete_admin_row(p) \/ delete_userpass_by_username(p)
  \/ insert_realm(p) \/ delete_realm_row(p)
  \/ insert_userpass(p) \/ delete_userpass_row(p)

\* A step of a request that is not one of those leaves the tables alone.
LEMMA ReadsOrWrites == ASSUME NEW p \in Procs, Handle(p) PROVE Writes(p) \/ UNCHANGED tables
BY DEF Handle, Writes, AdminAuth, create_admin, update_admin, delete_admin, change_admin_realm,
       create_realm, delete_realm, create_userpass, delete_userpass, list_admins,
       list_admins_realms, get_admin, get_admin_realms, update_admin_body, abandon, tables

\* Every statement keeps the references: INSERTs look at the rows they refer to
\* and DELETEs cascade (admin_realms, userpass).
LEMMA WritesKeepReferences ==
  ASSUME TypeInv, ReferencesHold, NEW p \in Procs, Writes(p)
  PROVE  ReferencesHold'
<1> TypeOK /\ Sound(call[p])
  BY DEF TypeInv
<1> None \notin AdminRow
  BY RealmNoneAssumption DEF AdminRow
<1>1. CASE update_admin_row(p)
  <2>1. /\ call[p].name \in Names
        /\ [userpass |-> call[p].userpass] \in AdminRow
    BY <1>1 DEF update_admin_row, Sound, Call, AdminRow
  <2>2. \A n \in Names : admin[n] # None => admin'[n] # None
    BY <1>1, <2>1 DEF update_admin_row, TypeOK
  <2>3. realms' = realms /\ member' = member /\ creds' = creds
    BY <1>1 DEF update_admin_row
  <2> QED
    BY <2>2, <2>3 DEF ReferencesHold, TypeOK
<1>2. CASE update_admin_unassign(p)
  BY <1>2 DEF update_admin_unassign, ReferencesHold
<1>3. CASE assign(p)
  <2>1. \A x \in member' : x \in member \/ (admin[x[1]] # None /\ x[2] \in realms)
    BY <1>3 DEF assign, CanAssign
  <2>2. realms' = realms /\ admin' = admin /\ creds' = creds
    BY <1>3 DEF assign
  <2> QED
    BY <2>1, <2>2 DEF ReferencesHold
<1>4. CASE insert_admin(p)
  <2>1. /\ call[p].name \in Names
        /\ [userpass |-> call[p].userpass] \in AdminRow
    BY <1>4 DEF insert_admin, Sound, Call, AdminRow
  <2>2. \A n \in Names : admin[n] # None => admin'[n] # None
    BY <1>4, <2>1 DEF insert_admin, TypeOK
  <2>3. realms' = realms /\ member' = member /\ creds' = creds
    BY <1>4 DEF insert_admin
  <2> QED
    BY <2>2, <2>3 DEF ReferencesHold, TypeOK
<1>5. CASE delete_admin_row(p)
  <2>1. \A x \in member' : x \in member /\ admin'[x[1]] = admin[x[1]]
    BY <1>5 DEF delete_admin_row, TypeOK
  <2>2. realms' = realms /\ creds' = creds
    BY <1>5 DEF delete_admin_row
  <2> QED
    BY <2>1, <2>2 DEF ReferencesHold
<1>6. CASE delete_userpass_by_username(p) \/ delete_userpass_row(p)
  BY <1>6 DEF delete_userpass_by_username, delete_userpass_row, ReferencesHold
<1>7. CASE insert_realm(p)
  BY <1>7 DEF insert_realm, ReferencesHold
<1>8. CASE delete_realm_row(p)
  BY <1>8 DEF delete_realm_row, ReferencesHold
<1>9. CASE insert_userpass(p)
  <2>1. \A x \in creds' : x \in creds \/ x[1] \in realms
    BY <1>9 DEF insert_userpass
  <2>2. realms' = realms /\ admin' = admin /\ member' = member
    BY <1>9 DEF insert_userpass
  <2> QED
    BY <2>1, <2>2 DEF ReferencesHold
<1> QED
  BY <1>1, <1>2, <1>3, <1>4, <1>5, <1>6, <1>7, <1>8, <1>9 DEF Writes

\* Every start, stop and statement keeps the references.
LEMMA ReferenceStep == ReferenceInv /\ [Next]_vars => ReferenceInv'
<1> SUFFICES ASSUME ReferenceInv, [Next]_vars PROVE BootInv' /\ ReferencesHold'
  BY TypeStep DEF ReferenceInv
<1> TypeInv /\ TypeOK /\ BootInv /\ ReferencesHold
  BY DEF ReferenceInv, TypeInv
<1>1. CASE init
  BY <1>1 DEF init, tables, BootInv, ReferencesHold
<1>2. CASE initialize_realm \/ initialize_userpass
  BY <1>2, RealmAdminAssumption
  DEF initialize_realm, initialize_userpass, BootInv, ReferencesHold
<1>3. CASE initialize_admin
  <2>1. [userpass |-> Root] # None
    BY RealmAdminAssumption, RealmNoneAssumption
  <2>2. \A n \in Names : admin[n] # None => admin'[n] # None
    BY <1>3, <2>1 DEF initialize_admin, TypeOK
  <2>3. realms' = realms /\ member' = member /\ creds' = creds /\ call' = call
    BY <1>3 DEF initialize_admin
  <2>4. ReferencesHold'
    BY <2>2, <2>3 DEF ReferencesHold, TypeOK
  <2>5. boot' = "member" => admin'[Root] # None
    BY <1>3, <2>1, RealmAdminAssumption DEF initialize_admin, TypeOK
  <2>6. boot = "admin" /\ boot' # "up"
    BY <1>3 DEF initialize_admin
  <2> QED
    BY <2>3, <2>4, <2>5, <2>6 DEF BootInv
<1>4. CASE initialize_member
  BY <1>4 DEF initialize_member, BootInv, ReferencesHold
<1>5. CASE stop
  BY <1>5 DEF stop, tables, BootInv, ReferencesHold, Idle
<1>6. ASSUME NEW p \in Procs, Handle(p) PROVE BootInv' /\ ReferencesHold'
  <2>1. BootInv'
    BY <1>6, HandledUp DEF BootInv
  <2>2. CASE Writes(p)
    BY <2>1, <2>2, WritesKeepReferences
  <2>3. CASE UNCHANGED tables
    BY <2>1, <2>3 DEF tables, ReferencesHold
  <2> QED
    BY <1>6, <2>2, <2>3, ReadsOrWrites
<1>7. CASE UNCHANGED vars
  BY <1>7 DEF vars, BootInv, ReferencesHold
<1> QED
  BY <1>1, <1>2, <1>3, <1>4, <1>5, <1>6, <1>7 DEF Next, Start

\* A membership always has its admin and its realm and a credential its realm,
\* whatever requests run against each other and wherever the server stops
\* (create_admin, update_admin, delete_admin, delete_realm, create_userpass).
THEOREM ReferencesHoldAlways == Spec => []ReferencesHold
<1>1. Init => ReferenceInv
  <2>1. Init => TypeInv
    BY IdleSound DEF Init, TypeInv, TypeOK, Sound
  <2>2. Init => BootInv /\ ReferencesHold
    BY DEF Init, BootInv, ReferencesHold, Idle
  <2> QED
    BY <2>1, <2>2 DEF ReferenceInv
<1>2. ReferenceInv => ReferencesHold
  BY DEF ReferenceInv
<1> QED
  BY <1>1, <1>2, ReferenceStep, PTL DEF Spec

-----------------------------------------------------------------------------
(***************************************************************************)
(* Authority.  A request of a super admin may go anywhere; any other one   *)
(* never enters a claim check, never links a credential to an admin, never *)
(* writes back a list of realms larger than the one its requester had,     *)
(* creates no realm, and names no realm that its requester did not have.   *)
(***************************************************************************)
Limited(c) ==
  /\ c.pc \notin {"list", "claims"}
  /\ c.pc \in {"row", "realms"} => c.op \in {"update", "delete", "add", "remove"}
  /\ c.pc \in {"insert", "update", "unassign", "assign"} => c.new \subseteq c.who
  /\ c.pc \in {"row", "realms"} /\ c.op = "add" => c.realm \in c.who
  /\ c.pc \in {"create_userpass", "delete_userpass", "delete_realm"} => c.realm \in c.who
  /\ c.pc # "create_realm"

Authorised(c) == IsSuper(c) \/ Limited(c)

AuthorityInv == TypeInv /\ \A p \in Procs : Authorised(call[p])

\* A finished request has no authority to exceed.
LEMMA IdleAuthorised == Authorised(Idle)
BY DEF Authorised, Limited, Idle

\* What the check lets a request go on with is within its authority, when the
\* realms checked bound what the request is about to write.
LEMMA CheckAuthorised ==
  ASSUME NEW c, c \in Call, NEW S,
         NEW then \in {"insert", "row", "body", "update", "delete",
                       "create_userpass", "delete_userpass"},
         then = "row" => c.op \in {"add", "remove"},
         S \subseteq c.who =>
           /\ then \in {"insert", "update"} => c.new \subseteq c.who
           /\ then = "row" /\ c.op = "add" => c.realm \in c.who
           /\ then \in {"create_userpass", "delete_userpass"} => c.realm \in c.who
  PROVE  Authorised(Check(c, S, then)) /\ Authorised(CheckAdmin(c, S, then))
<1>1. ASSUME S \subseteq c.who PROVE Authorised([c EXCEPT !.pc = then])
  <2> DEFINE d == [c EXCEPT !.pc = then]
  <2>1. d.pc = then /\ d.op = c.op /\ d.new = c.new /\ d.who = c.who /\ d.realm = c.realm
    BY DEF Call
  <2> HIDE DEF d
  <2>2. Limited(d)
    BY <1>1, <2>1 DEF Limited
  <2> QED
    BY <2>2 DEF Authorised, d
<1>2. ASSUME IsSuper(c)
      PROVE  Authorised([c EXCEPT !.pc = "list", !.check = S \ c.who, !.then = then])
  <2>1. [c EXCEPT !.pc = "list", !.check = S \ c.who, !.then = then].who = c.who
    BY DEF Call
  <2> QED
    BY <1>2, <2>1 DEF Authorised, IsSuper
<1> QED
  BY <1>1, <1>2, IdleAuthorised DEF Check, CheckAdmin

\* A request that changes its own state within its authority.
LEMMA ContinueAuthorised ==
  ASSUME AuthorityInv, NEW p \in Procs, NEW c, Authorised(c), Continue(p, c)
  PROVE  \A q \in Procs : Authorised(call'[q])
<1>1. \A q \in Procs : call'[q] = IF q = p THEN c ELSE call[q]
  BY DEF AuthorityInv, TypeInv, TypeOK, Continue
<1> QED
  BY <1>1 DEF AuthorityInv

\* Realms that a super admin sees unclaimed keep the request within authority.
LEMMA SuperAuthorised ==
  ASSUME NEW c, IsSuper(c), NEW d, d.who = c.who
  PROVE  Authorised(d)
BY DEF IsSuper, Authorised

\* So does what a handler does with the target it has read.
LEMMA WithTargetAuthorised ==
  ASSUME NEW c, c \in Call, Authorised(c), c.pc = "realms", NEW S
  PROVE  Authorised(WithTarget(c, S))
<1>1. CASE c.op \in {"update", "delete"}
  BY <1>1, CheckAuthorised DEF WithTarget
<1>2. CASE c.op = "add"
  <2> DEFINE d == [c EXCEPT !.new = S \cup {c.realm}]
  <2>1. d.op = "add" /\ d.who = c.who /\ d.new = S \cup {c.realm} /\ d.realm = c.realm /\ d.pc = c.pc
    BY <1>2 DEF Call
  <2>2. Authorised(Check(d, S, "update"))
    <3>1. CASE IsSuper(c)
      <4>1. [d EXCEPT !.pc = "update"].who = c.who
        BY DEF Call
      <4>2. [d EXCEPT !.pc = "list", !.check = S \ d.who, !.then = "update"].who = c.who
        BY DEF Call
      <4> QED
        BY <3>1, <4>1, <4>2, SuperAuthorised, IdleAuthorised DEF Check
    <3>2. CASE ~IsSuper(c)
      <4>1. c.realm \in c.who
        BY <1>2, <3>2 DEF Authorised, Limited
      <4>2. CASE S \subseteq c.who
        <5> DEFINE e == [d EXCEPT !.pc = "update"]
        <5>1. e.pc = "update" /\ e.op = "add" /\ e.new = S \cup {c.realm} /\ e.who = c.who
          BY <1>2 DEF Call
        <5>2. Limited(e)
          <6> HIDE DEF e
          <6> QED
            BY <4>1, <4>2, <5>1 DEF Limited
        <5>3. Check(d, S, "update") = e
          <6> HIDE DEF d
          <6> QED
            BY <2>1, <4>2 DEF Check, d
        <5> QED
          BY <5>2, <5>3 DEF Authorised
      <4>3. CASE ~(S \subseteq c.who)
        <5>1. Check(d, S, "update") = Idle
          <6> HIDE DEF d
          <6> QED
            BY <2>1, <3>2, <4>3 DEF Check, IsSuper
        <5> QED
          BY <5>1, IdleAuthorised
      <4> QED
        BY <4>2, <4>3
    <3> QED
      BY <3>1, <3>2
  <2> QED
    BY <1>2, <2>2, IdleAuthorised DEF WithTarget
<1>3. CASE c.op = "remove"
  <2> DEFINE d == [c EXCEPT !.new = S \ {c.realm}]
  <2>1. d.op = "remove" /\ d.who = c.who /\ d.new = S \ {c.realm}
    BY <1>3 DEF Call
  <2>2. Authorised(CheckAdmin(d, S, "update"))
    <3>1. CASE S \subseteq c.who
      <4> DEFINE e == [d EXCEPT !.pc = "update"]
      <4>1. e.pc = "update" /\ e.op = "remove" /\ e.new = S \ {c.realm} /\ e.who = c.who
        BY <1>3 DEF Call
      <4>2. Limited(e)
        <5> HIDE DEF e
        <5> QED
          BY <3>1, <4>1 DEF Limited
      <4>3. CheckAdmin(d, S, "update") \in {e, Idle}
        <5> HIDE DEF d
        <5> QED
          BY <2>1, <3>1 DEF Check, CheckAdmin, d
      <4> QED
        BY <4>2, <4>3, IdleAuthorised DEF Authorised
    <3>2. CASE ~(S \subseteq c.who)
      <4>1. [d EXCEPT !.pc = "list", !.check = S \ d.who, !.then = "update"].who = c.who
        BY DEF Call
      <4>2. IsSuper(d) => IsSuper(c)
        BY <2>1 DEF IsSuper
      <4>3. CASE IsSuper(d)
        <5>1. CheckAdmin(d, S, "update") = [d EXCEPT !.pc = "list", !.check = S \ d.who, !.then = "update"]
          <6> HIDE DEF d
          <6> QED
            BY <2>1, <3>2, <4>3 DEF Check, CheckAdmin
        <5> QED
          BY <4>1, <4>2, <4>3, <5>1, SuperAuthorised
      <4>4. CASE ~IsSuper(d)
        <5>1. CheckAdmin(d, S, "update") = Idle
          <6> HIDE DEF d
          <6> QED
            BY <2>1, <3>2, <4>4 DEF Check, CheckAdmin
        <5> QED
          BY <5>1, IdleAuthorised
      <4> QED
        BY <4>3, <4>4
    <3> QED
      BY <3>1, <3>2
  <2> QED
    BY <1>3, <2>2, IdleAuthorised DEF WithTarget
<1>4. CASE c.op \in {"none", "create", "link", "unlink"}
  <2>1. IsSuper(c)
    BY <1>4 DEF Authorised, Limited
  <2>2. ASSUME NEW u
        PROVE  [c EXCEPT !.pc = "update", !.userpass = u, !.new = S].who = c.who
    BY DEF Call
  <2> QED
    BY <1>4, <2>1, <2>2, SuperAuthorised, IdleAuthorised DEF WithTarget
<1> QED
  BY <1>1, <1>2, <1>3, <1>4 DEF Call

\* Every statement of a request stays within the authority of its requester.
LEMMA AuthorityStep == AuthorityInv /\ [Next]_vars => AuthorityInv'
<1> SUFFICES ASSUME AuthorityInv, [Next]_vars PROVE \A q \in Procs : Authorised(call'[q])
  BY TypeStep DEF AuthorityInv
<1> TypeInv /\ TypeOK /\ \A p \in Procs : call[p] \in Call /\ Sound(call[p]) /\ Authorised(call[p])
  BY DEF AuthorityInv, TypeInv, Sound
<1> DEFINE Goal == \A q \in Procs : Authorised(call'[q])
<1>1. CASE Start
  BY <1>1, IdleAuthorised
  DEF Start, init, initialize_realm, initialize_userpass, initialize_admin, initialize_member, stop
<1>2. ASSUME NEW p \in Procs, NEW n \in Names, NEW s \in {"auth_admins", "auth_realms"},
             AdminAuth(p, n, s)
      PROVE  Goal
  <2>1. Authorised([Idle EXCEPT !.pc = s, !.name = n])
    BY DEF Authorised, Limited, Idle
  <2> QED
    BY <1>2, <2>1, ContinueAuthorised DEF AdminAuth
<1>3. ASSUME NEW p \in Procs, NEW n \in Names, NEW S \in SUBSET Realms, NEW u \in Links,
             create_admin(p, n, S, u)
      PROVE  Goal
  <2> DEFINE c == [Holding(p) EXCEPT !.op = "create", !.name = n, !.new = S, !.userpass = u]
  <2>1. c \in Call /\ c.op = "create" /\ c.name = n /\ c.new = S
    <3>1. Holding(p) \in Call /\ Holding(p).op = "none"
      BY HoldingSound
    <3>2. c \in Call
      BY <3>1, RealmAdminAssumption DEF Call
    <3>3. c.op = "create" /\ c.name = n /\ c.new = S
      BY <3>1 DEF Call
    <3> QED
      BY <3>2, <3>3
  <2>2. Authorised(CheckAdmin(c, S, "insert"))
    <3> HIDE DEF c
    <3> QED
      BY <2>1, CheckAuthorised
  <2> QED
    BY <1>3, <2>2, ContinueAuthorised DEF create_admin
<1>4. ASSUME NEW p \in Procs, NEW n \in Names, NEW S \in SUBSET Realms, NEW u \in Links,
             update_admin(p, n, S, u)
      PROVE  Goal
  <2> DEFINE c == [Holding(p) EXCEPT !.pc = "row", !.op = "update", !.name = n,
                     !.new = S, !.userpass = u]
  <2>1. c \in Call /\ c.pc = "row" /\ c.op = "update" /\ c.name = n
    <3>1. Holding(p) \in Call /\ Holding(p).op = "none"
      BY HoldingSound
    <3>2. c \in Call
      BY <3>1, RealmAdminAssumption DEF Call
    <3>3. c.pc = "row" /\ c.op = "update" /\ c.name = n
      BY <3>1 DEF Call
    <3> QED
      BY <3>2, <3>3
  <2>2. Authorised(c)
    BY <2>1 DEF Authorised, Limited
  <2> QED
    BY <1>4, <2>2, ContinueAuthorised DEF update_admin
<1>5. ASSUME NEW p \in Procs, NEW n \in Names, delete_admin(p, n)
      PROVE  Goal
  <2> DEFINE c == [Holding(p) EXCEPT !.pc = "row", !.op = "delete", !.name = n]
  <2>1. c \in Call /\ c.pc = "row" /\ c.op = "delete" /\ c.name = n
    <3>1. Holding(p) \in Call /\ Holding(p).op = "none"
      BY HoldingSound
    <3>2. c \in Call
      BY <3>1 DEF Call
    <3>3. c.pc = "row" /\ c.op = "delete" /\ c.name = n
      BY <3>1 DEF Call
    <3> QED
      BY <3>2, <3>3
  <2>2. Authorised(c)
    BY <2>1 DEF Authorised, Limited
  <2> QED
    BY <1>5, <2>2, ContinueAuthorised DEF delete_admin
<1>6. ASSUME NEW p \in Procs, NEW n \in Names, NEW r \in Realms,
             NEW op \in {"add", "remove"}, change_admin_realm(p, n, r, op)
      PROVE  Goal
  <2> DEFINE c == [Holding(p) EXCEPT !.op = op, !.name = n, !.realm = r]
  <2>1. c \in Call /\ c.op = op /\ c.name = n /\ c.realm = r
    <3>1. Holding(p) \in Call /\ Holding(p).op = "none"
      BY HoldingSound
    <3>2. c \in Call
      BY <3>1 DEF Call
    <3>3. c.op = op /\ c.name = n /\ c.realm = r
      BY <3>1 DEF Call
    <3> QED
      BY <3>2, <3>3
  <2>2. Authorised(Check(c, {r}, "row"))
    <3> HIDE DEF c
    <3> QED
      BY <2>1, CheckAuthorised
  <2> QED
    BY <1>6, <2>2, ContinueAuthorised DEF change_admin_realm
<1>7. ASSUME NEW p \in Procs, NEW r \in Realms, create_realm(p, r) \/ delete_realm(p, r)
      PROVE  Goal
  <2>1. ASSUME NEW pc \in {"create_realm", "delete_realm"},
               IsSuper(Holding(p)) \/ (pc = "delete_realm" /\ r \in Holding(p).who)
        PROVE  Authorised([Holding(p) EXCEPT !.pc = pc, !.realm = r])
    <3> DEFINE c == [Holding(p) EXCEPT !.pc = pc, !.realm = r]
    <3>1. c.pc = pc /\ c.realm = r /\ c.who = Holding(p).who
      BY HoldingSound DEF Call
    <3> HIDE DEF c
    <3>2. Authorised(c)
      BY <2>1, <3>1 DEF Authorised, Limited, IsSuper
    <3> QED
      BY <3>2 DEF c
  <2> QED
    BY <1>7, <2>1, IdleAuthorised, ContinueAuthorised DEF create_realm, delete_realm
<1>8. ASSUME NEW p \in Procs, NEW n \in Names, NEW r \in Realms,
             create_userpass(p, r, n) \/ delete_userpass(p, r, n)
      PROVE  Goal
  <2> DEFINE c == [Holding(p) EXCEPT !.name = n, !.realm = r]
  <2>1. c \in Call /\ c.op = "none" /\ c.name = n /\ c.realm = r
    <3>1. Holding(p) \in Call /\ Holding(p).op = "none"
      BY HoldingSound
    <3>2. c \in Call
      BY <3>1 DEF Call
    <3>3. c.op = "none" /\ c.name = n /\ c.realm = r
      BY <3>1 DEF Call
    <3> QED
      BY <3>2, <3>3
  <2>2. ASSUME NEW then \in {"create_userpass", "delete_userpass"}
        PROVE  Authorised(Check(c, {r}, then))
    <3> HIDE DEF c
    <3> QED
      BY <2>1, CheckAuthorised
  <2> QED
    BY <1>8, <2>2, ContinueAuthorised DEF create_userpass, delete_userpass
<1>9. ASSUME NEW p \in Procs, list_admins(p) PROVE Goal
  <2> DEFINE V == {n \in Names : admin[n] # None}
             d(r) == [call[p] EXCEPT !.check = @ \ {r}, !.visit = V]
  <2>1. PICK r \in call[p].check :
          Continue(p, IF V = {} THEN Unclaimed(d(r))
                      ELSE [d(r) EXCEPT !.pc = "claims", !.cur = r])
    BY <1>9 DEF list_admins
  <2>2. IsSuper(call[p])
    BY <1>9 DEF list_admins, Authorised, Limited
  <2>3. Unclaimed(d(r)).who = call[p].who
    BY DEF Unclaimed, Call
  <2>4. [d(r) EXCEPT !.pc = "claims", !.cur = r].who = call[p].who
    BY DEF Call
  <2> HIDE DEF d
  <2> QED
    BY <2>1, <2>2, <2>3, <2>4, SuperAuthorised, ContinueAuthorised
<1>10. ASSUME NEW p \in Procs, list_admins_realms(p) PROVE Goal
  <2> DEFINE d(n) == [call[p] EXCEPT !.visit = @ \ {n}]
  <2>1. PICK n \in call[p].visit :
          Continue(p, IF <<n, call[p].cur>> \in member THEN Idle
                      ELSE IF d(n).visit = {} THEN Unclaimed(d(n)) ELSE d(n))
    BY <1>10 DEF list_admins_realms
  <2>2. IsSuper(call[p])
    BY <1>10 DEF list_admins_realms, Authorised, Limited
  <2>3. Unclaimed(d(n)).who = call[p].who /\ d(n).who = call[p].who
    BY DEF Unclaimed, Call
  <2> HIDE DEF d
  <2> QED
    BY <2>1, <2>2, <2>3, IdleAuthorised, SuperAuthorised, ContinueAuthorised
<1>11. ASSUME NEW p \in Procs, get_admin(p) PROVE Goal
  <2>1. Authorised([call[p] EXCEPT !.pc = "delete"])
    <3>1. [call[p] EXCEPT !.pc = "delete"].pc = "delete"
      BY DEF Call
    <3> QED
      BY <3>1 DEF Authorised, Limited
  <2>2. ASSUME NEW u PROVE Authorised([call[p] EXCEPT !.pc = "realms", !.userpass = u])
    <3> DEFINE d == [call[p] EXCEPT !.pc = "realms", !.userpass = u]
    <3>1. /\ d.pc = "realms" /\ d.op = call[p].op /\ d.realm = call[p].realm
          /\ d.who = call[p].who /\ d.new = call[p].new
      BY DEF Call
    <3>2. call[p].pc = "row"
      BY <1>11 DEF get_admin
    <3> HIDE DEF d
    <3>3. Authorised(d)
      BY <3>1, <3>2 DEF Authorised, Limited, IsSuper
    <3> QED
      BY <3>3 DEF d
  <2> DEFINE u == IF call[p].op = "update" THEN call[p].userpass ELSE admin[call[p].name].userpass
  <2>3. Continue(p, IF admin[call[p].name] = None
                    THEN IF call[p].op = "delete" /\ IsSuper(call[p])
                         THEN [call[p] EXCEPT !.pc = "delete"] ELSE Idle
                    ELSE [call[p] EXCEPT !.pc = "realms", !.userpass = u])
    BY <1>11 DEF get_admin
  <2> QED
    BY <2>1, <2>2, <2>3, IdleAuthorised, ContinueAuthorised
<1>12. ASSUME NEW p \in Procs, get_admin_realms(p) PROVE Goal
  BY <1>12, WithTargetAuthorised, ContinueAuthorised DEF get_admin_realms
<1>13. ASSUME NEW p \in Procs, update_admin_body(p) PROVE Goal
  BY <1>13, CheckAuthorised, ContinueAuthorised DEF update_admin_body, Body
<1>14. ASSUME NEW c, c \in Call, Authorised(c),
              c.pc \in {"insert", "update", "unassign", "assign"},
              NEW pc \in {"unassign", "assign"}, NEW S \in SUBSET c.new
       PROVE  Authorised([c EXCEPT !.pc = pc, !.new = S])
  <2> DEFINE d == [c EXCEPT !.pc = pc, !.new = S]
  <2>1. d.pc = pc /\ d.who = c.who /\ d.new = S
    BY DEF Call
  <2> HIDE DEF d
  <2>2. Authorised(d)
    BY <1>14, <2>1 DEF Authorised, Limited, IsSuper
  <2> QED
    BY <2>2 DEF d
<1>15. ASSUME NEW c, c \in Call, Authorised(c),
              c.pc \in {"insert", "update", "unassign", "assign"}
       PROVE  /\ Authorised([c EXCEPT !.pc = "unassign"])
              /\ Authorised(Assigning(c))
  <2>1. /\ [c EXCEPT !.pc = "unassign"] = [c EXCEPT !.pc = "unassign", !.new = c.new]
        /\ [c EXCEPT !.pc = "assign"] = [c EXCEPT !.pc = "assign", !.new = c.new]
    BY <1>15 DEF Call
  <2> QED
    BY <1>14, <1>15, <2>1, IdleAuthorised DEF Assigning
<1>16. ASSUME NEW p \in Procs, update_admin_row(p) \/ update_admin_unassign(p) \/ insert_admin(p)
       PROVE  Goal
  BY <1>15, <1>16, IdleAuthorised, ContinueAuthorised
  DEF update_admin_row, update_admin_unassign, insert_admin, Finish
<1>17. ASSUME NEW p \in Procs, assign(p) PROVE Goal
  <2>1. PICK r \in call[p].new :
          \/ Continue(p, Assigning([call[p] EXCEPT !.new = @ \ {r}]))
          \/ Finish(p)
    BY <1>17 DEF assign
  <2> DEFINE d == [call[p] EXCEPT !.new = @ \ {r}]
  <2>2. /\ d.pc = "assign" /\ d.who = call[p].who /\ d.new = call[p].new \ {r}
        /\ d \in Call
    BY <1>17 DEF assign, Call
  <2> HIDE DEF d
  <2>3. Authorised(d)
    BY <1>17, <2>2 DEF assign, Authorised, Limited, IsSuper
  <2>4. Authorised(Assigning(d))
    BY <1>15, <2>2, <2>3
  <2> QED
    BY <2>1, <2>4, IdleAuthorised, ContinueAuthorised DEF Finish, d
<1>18. ASSUME NEW p \in Procs, delete_admin_row(p) PROVE Goal
  <2>1. [call[p] EXCEPT !.pc = "forget"].pc = "forget"
    BY DEF Call
  <2>2. Authorised([call[p] EXCEPT !.pc = "forget"])
    BY <2>1 DEF Authorised, Limited
  <2> QED
    BY <1>18, <2>2, IdleAuthorised, ContinueAuthorised DEF delete_admin_row
<1>19. ASSUME NEW p \in Procs, insert_userpass(p) \/ delete_userpass_row(p) PROVE Goal
  <2>1. ASSUME NEW op PROVE Authorised(Linking(call[p], op))
    <3>1. CASE call[p].realm = AdminRealm
      <4>1. IsSuper(call[p])
        BY <1>19, <3>1 DEF insert_userpass, delete_userpass_row, Authorised, Limited, IsSuper
      <4>2. [call[p] EXCEPT !.pc = "row", !.op = op].who = call[p].who
        BY DEF Call
      <4> QED
        BY <3>1, <4>1, <4>2, SuperAuthorised DEF Linking
    <3> QED
      BY <3>1, IdleAuthorised DEF Linking
  <2> QED
    BY <1>19, <2>1, IdleAuthorised, ContinueAuthorised DEF insert_userpass, delete_userpass_row, Finish
<1>20. ASSUME NEW p \in Procs,
              \/ delete_userpass_by_username(p) \/ insert_realm(p)
              \/ delete_realm_row(p) \/ abandon(p)
       PROVE  Goal
  BY <1>20, IdleAuthorised, ContinueAuthorised
  DEF delete_userpass_by_username, insert_realm, delete_realm_row, abandon, Finish
<1>21. CASE UNCHANGED vars
  BY <1>21 DEF vars
<1> QED
  BY <1>1, <1>2, <1>3, <1>4, <1>5, <1>6, <1>7, <1>8, <1>9, <1>10, <1>11, <1>12, <1>13,
     <1>16, <1>17, <1>18, <1>19, <1>20, <1>21
  DEF Next, Handle

\* Only the start of the server and an INSERT of a request add a membership, and
\* the request's authority covers it (assign, initialize_member).
LEMMA GrantStep ==
  ASSUME AuthorityInv, [Next]_vars, NEW x \in member' \ member
  PROVE  \/ boot = "member"
         \/ \E p \in Procs : /\ call[p].pc = "assign" /\ call[p].name = x[1]
                             /\ IsSuper(call[p]) \/ x[2] \in call[p].who
<1>1. CASE Start
  BY <1>1 DEF Start, init, initialize_realm, initialize_userpass, initialize_admin,
              initialize_member, stop, tables
<1>2. ASSUME NEW p \in Procs, Handle(p)
      PROVE  \E q \in Procs : /\ call[q].pc = "assign" /\ call[q].name = x[1]
                              /\ IsSuper(call[q]) \/ x[2] \in call[q].who
  <2>1. CASE UNCHANGED tables
    BY <2>1 DEF tables
  <2>2. CASE assign(p)
    <3>1. call[p].pc = "assign" /\ \E r \in call[p].new : x = <<call[p].name, r>>
      BY <2>2 DEF assign
    <3>2. IsSuper(call[p]) \/ call[p].new \subseteq call[p].who
      BY <3>1 DEF AuthorityInv, Authorised, Limited
    <3> QED
      BY <3>1, <3>2
  <2>3. CASE Writes(p) /\ ~assign(p)
    BY <2>3 DEF Writes, update_admin_row, update_admin_unassign, insert_admin, delete_admin_row,
                delete_userpass_by_username, insert_realm, delete_realm_row, insert_userpass,
                delete_userpass_row
  <2> QED
    BY <1>2, <2>1, <2>2, <2>3, ReadsOrWrites
<1>3. CASE UNCHANGED vars
  BY <1>3 DEF vars
<1> QED
  BY <1>1, <1>2, <1>3 DEF Next

\* "Realm admins can only assign admins to realms they administer": whatever
\* requests run against each other, a request makes an administrator only of a
\* realm its requester had when it was authenticated, unless the requester is a
\* super admin (can_manage_realm, can_manage_admin_realms and their callers).
THEOREM GrantsAuthorisedAlways == Spec => GrantsAuthorised
<1>1. Init => AuthorityInv
  <2>1. Init => TypeInv
    BY IdleSound DEF Init, TypeInv, TypeOK, Sound
  <2> QED
    BY <2>1, IdleAuthorised DEF Init, AuthorityInv
<1>2. AuthorityInv /\ [Next]_vars =>
        [\A x \in member' \ member :
           \/ boot = "member"
           \/ \E p \in Procs : /\ call[p].pc = "assign" /\ call[p].name = x[1]
                               /\ IsSuper(call[p]) \/ x[2] \in call[p].who]_vars
  BY GrantStep
<1> QED
  BY <1>1, <1>2, AuthorityStep, PTL DEF Spec, GrantsAuthorised

\* The requester of p had the realm when its request was authenticated, or is a
\* super admin.
Owns(p, r) == IsSuper(call[p]) \/ r \in call[p].who

\* What a step may do to the tables of realms and of credentials: only the start
\* and super admins add a realm, and only those who own a realm delete it or
\* give it a credential.
OwnersOnly ==
  /\ \A r \in realms' \ realms :
       \/ boot = "realm"
       \/ \E p \in Procs : call[p].pc = "create_realm" /\ call[p].realm = r /\ IsSuper(call[p])
  /\ \A r \in realms \ realms' :
       \E p \in Procs : call[p].pc = "delete_realm" /\ call[p].realm = r /\ Owns(p, r)
  /\ \A x \in creds' \ creds :
       \/ boot = "user"
       \/ \E p \in Procs : /\ call[p].pc = "create_userpass"
                           /\ x = <<call[p].realm, call[p].name>> /\ Owns(p, x[1])

\* A realm is created only by a super admin, and deleted or given a credential
\* only by one who administered it when the request was authenticated or by a
\* super admin, also when memberships change and the server stops between the
\* check and the write (create_realm, delete_realm, create_userpass).
THEOREM OwnersOnlyAlways == Spec => [][OwnersOnly]_vars
<1>1. Init => AuthorityInv
  <2>1. Init => TypeInv
    BY IdleSound DEF Init, TypeInv, TypeOK, Sound
  <2> QED
    BY <2>1, IdleAuthorised DEF Init, AuthorityInv
<1>2. AuthorityInv /\ [Next]_vars => [OwnersOnly]_vars
  <2> SUFFICES ASSUME AuthorityInv, Next PROVE OwnersOnly
    OBVIOUS
  <2>1. CASE Start
    BY <2>1 DEF Start, init, initialize_realm, initialize_userpass, initialize_admin,
                initialize_member, stop, tables, OwnersOnly
  <2>2. ASSUME NEW p \in Procs, Handle(p) PROVE OwnersOnly
    <3>1. Authorised(call[p])
      BY DEF AuthorityInv
    <3>2. CASE UNCHANGED tables
      BY <3>2 DEF tables, OwnersOnly
    <3>3. CASE insert_realm(p)
      <4>1. /\ realms' = realms \cup {call[p].realm} /\ creds' = creds
            /\ call[p].pc = "create_realm" /\ IsSuper(call[p])
        BY <3>1, <3>3 DEF insert_realm, Authorised, Limited
      <4> QED
        BY <4>1 DEF OwnersOnly
    <3>4. CASE delete_realm_row(p)
      <4>1. /\ realms' = realms \ {call[p].realm} /\ creds' \subseteq creds
            /\ call[p].pc = "delete_realm" /\ Owns(p, call[p].realm)
        BY <3>1, <3>4 DEF delete_realm_row, Authorised, Limited, Owns
      <4> QED
        BY <4>1 DEF OwnersOnly
    <3>5. CASE insert_userpass(p)
      <4>1. /\ realms' = realms
            /\ \A x \in creds' \ creds : x = <<call[p].realm, call[p].name>>
            /\ call[p].pc = "create_userpass" /\ Owns(p, call[p].realm)
        BY <3>1, <3>5 DEF insert_userpass, Authorised, Limited, Owns
      <4> QED
        BY <4>1 DEF OwnersOnly
    <3>6. CASE Writes(p) /\ ~insert_realm(p) /\ ~delete_realm_row(p) /\ ~insert_userpass(p)
      <4>1. realms' = realms /\ creds' \subseteq creds
        BY <3>6 DEF Writes, update_admin_row, update_admin_unassign, assign, insert_admin,
                    delete_admin_row, delete_userpass_by_username, delete_userpass_row
      <4> QED
        BY <4>1 DEF OwnersOnly
    <3> QED
      BY <2>2, <3>2, <3>3, <3>4, <3>5, <3>6, ReadsOrWrites
  <2> QED
    BY <2>1, <2>2 DEF Next
<1> QED
  BY <1>1, <1>2, AuthorityStep, PTL DEF Spec

-----------------------------------------------------------------------------
(***************************************************************************)
(* The first start.  A start that is not interrupted leaves the initial    *)
(* super admin complete; one that is interrupted can leave a database with *)
(* a realm and nobody to administer it, and then no number of restarts     *)
(* helps, because init looks at the table of realms only.                  *)
(***************************************************************************)

\* What the statements of initialize_db have written when the last one runs.
SeedInv ==
  /\ boot \in {"admin", "member"} => <<AdminRealm, Root>> \in creds
  /\ boot = "member" => admin[Root] = [userpass |-> Root]

\* Nothing but the statements of initialize_db runs between them.
LEMMA SeedStep == ReferenceInv /\ SeedInv /\ [Next]_vars => SeedInv'
<1> SUFFICES ASSUME ReferenceInv, SeedInv, [Next]_vars PROVE SeedInv'
  OBVIOUS
<1> TypeInv /\ TypeOK /\ BootInv
  BY DEF ReferenceInv, TypeInv
<1>1. CASE init \/ initialize_realm \/ initialize_member \/ stop
  BY <1>1 DEF init, initialize_realm, initialize_member, stop, SeedInv
<1>2. CASE initialize_userpass
  BY <1>2 DEF initialize_userpass, SeedInv
<1>3. CASE initialize_admin
  BY <1>3, RealmAdminAssumption DEF initialize_admin, SeedInv, TypeOK
<1>4. ASSUME NEW p \in Procs, Handle(p) PROVE SeedInv'
  BY <1>4, HandledUp DEF SeedInv
<1>5. CASE UNCHANGED vars
  BY <1>5 DEF vars, SeedInv
<1> QED
  BY <1>1, <1>2, <1>3, <1>4, <1>5 DEF Next, Start

\* ReferenceInv and SeedInv hold together from the start.
LEMMA SeedInvariance == Spec => [](ReferenceInv /\ SeedInv)
<1>1. Init => ReferenceInv /\ SeedInv
  <2>1. Init => TypeInv
    BY IdleSound DEF Init, TypeInv, TypeOK, Sound
  <2>2. Init => BootInv /\ ReferencesHold /\ SeedInv
    BY DEF Init, BootInv, ReferencesHold, Idle, SeedInv
  <2> QED
    BY <2>1, <2>2 DEF ReferenceInv
<1> QED
  BY <1>1, ReferenceStep, SeedStep, PTL DEF Spec

\* The admin realm, the credential, the linked admin record and its membership.
Seeded ==
  /\ AdminRealm \in realms /\ <<AdminRealm, Root>> \in creds
  /\ admin[Root] = [userpass |-> Root] /\ <<Root, AdminRealm>> \in member

\* The part of "At startup the server creates whichever of these is missing"
\* that the code keeps: a start that runs the last statement of initialize_db
\* has created all of it, whatever earlier starts were interrupted.
THEOREM CompletedStartSeeds == Spec => [][(boot = "member" /\ boot' = "up") => Seeded']_vars
<1>1. ASSUME ReferenceInv, SeedInv, [Next]_vars, boot = "member", boot' = "up"
      PROVE  Seeded'
  <2>1. boot' # boot
    BY <1>1
  <2>2. ~ \E p \in Procs : Handle(p)
    BY <1>1, HandledUp DEF ReferenceInv
  <2>3. initialize_member
    BY <1>1, <2>1, <2>2
    DEF Next, Start, vars, init, initialize_realm, initialize_userpass, initialize_admin, stop
  <2> QED
    BY <1>1, <2>3 DEF initialize_member, SeedInv, Seeded, ReferenceInv, BootInv
<1> QED
  BY <1>1, SeedInvariance, PTL DEF Spec

\* A realm is stored, no admin can sign in, and no request is under way.
LockedOut ==
  /\ boot \in {"down", "up"} /\ realms # {}
  /\ \A n \in Names : admin[n] = None \/ admin[n].userpass = None
  /\ \A p \in Procs : call[p].pc = "idle"

\* A request needs an admin to be accepted, and a start needs an empty table of
\* realms to write anything.
LEMMA LockedOutStep == TypeInv /\ LockedOut /\ [Next]_vars => LockedOut'
<1> SUFFICES ASSUME TypeInv, LockedOut, [Next]_vars PROVE LockedOut'
  OBVIOUS
<1>1. CASE init
  BY <1>1 DEF init, tables, LockedOut
<1>2. CASE stop
  BY <1>2 DEF stop, tables, LockedOut, Idle
<1>3. ~ (initialize_realm \/ initialize_userpass \/ initialize_admin \/ initialize_member)
  BY DEF LockedOut, initialize_realm, initialize_userpass, initialize_admin, initialize_member
<1>4. ASSUME NEW p \in Procs PROVE ~ Handle(p)
  <2>1. call[p].pc = "idle"
    BY DEF LockedOut
  <2> QED
    BY <2>1
    DEF Handle, LockedOut, AdminAuth, Requester, create_admin, update_admin, delete_admin,
        change_admin_realm, create_realm, delete_realm, create_userpass, delete_userpass,
        list_admins, list_admins_realms, get_admin, get_admin_realms, update_admin_body,
        update_admin_row, update_admin_unassign, assign, insert_admin, delete_admin_row,
        delete_userpass_by_username, insert_realm, delete_realm_row, insert_userpass,
        delete_userpass_row, abandon
<1>5. CASE UNCHANGED vars
  BY <1>5 DEF vars, LockedOut
<1> QED
  BY <1>1, <1>2, <1>3, <1>4, <1>5 DEF Next, Start

\* A database with a realm and without an admin who can sign in, and with no
\* request under way, stays so through every restart and every attempt at one
\* (init, initialize_db, AdminAuth): what the run realm_first_start reaches is
\* never repaired.
THEOREM LockedOutForGood == Spec => [](LockedOut => []LockedOut)
  BY LockedOutStep, RealmTypeCorrect, PTL DEF Spec
=============================================================================
