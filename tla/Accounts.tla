------------------------------- MODULE Accounts -------------------------------
(***************************************************************************)
(* Accounts and departments: the handlers of admin_server/service_users.py *)
(* and the sign-up of auth_server/service.py.  An actor a is a user whose  *)
(* session was accepted; dependencies of the router say which roles may    *)
(* call.                                                                   *)
(***************************************************************************)
EXTENDS Org

(* PATCH /users/{id}/suspend.  The sessions end with it (AuthSession).      *)
MayStop(a, u) ==
  user[u].dvsn \in (IF user[a].dvsn = "a" THEN {"o", "u"} ELSE {"a", "o", "u"})

CanSuspend(a, u) ==
  Is(a, OrgAdmin) /\ Reaches(a, u) /\ MayStop(a, u) /\ HasNothing(u)
SuspendUser(a, u) ==
  Request(<<"suspend", a, u>>, CanSuspend(a, u), {u},
    /\ user' = [user EXCEPT ![u].active = FALSE]
    /\ unguarded' = unguarded \cup Unseen(u)
    /\ UNCHANGED <<dept, work, joining>>)

CanActivate(a, u) == Is(a, OrgAdmin) /\ Reaches(a, u) /\ MayStop(a, u)
ActivateUser(a, u) ==
  Request(<<"activate", a, u>>, CanActivate(a, u), {u},
    /\ user' = [user EXCEPT ![u].active = TRUE]
    /\ UNCHANGED <<dept, unguarded, work, joining>>)

(* DELETE /users/{id}: with the account go its notifications, its places in *)
(* projects and the invitations that it had sent by mail.                   *)
CanDelete(a, u) ==
  /\ a # u /\ Is(a, OrgAdmin) /\ Reaches(a, u) /\ MayStop(a, u)
  /\ ~user[u].active /\ HasNothing(u)
DeleteInactiveUser(a, u) ==
  Request(<<"delete user", a, u>>, CanDelete(a, u), {u},
    /\ user[u].at = "there"
    /\ user' = [user EXCEPT ![u].at = "gone"]
    /\ note' = {n \in note : n.to # u}
    /\ member' = [p \in Project |-> [member[p] EXCEPT ![u] = NoPlace]]
    /\ code' = [v \in User |-> IF code[v].by = u THEN NoCode ELSE code[v]]
    /\ unguarded' = unguarded \cup Unseen(u)
    /\ UNCHANGED <<dept, work, late>>)

(* PATCH /users/{id}/role looks at nothing that the user owns.              *)
CanSetDvsn(a, u, new) ==
  /\ Is(a, OrgAdmin) /\ Reaches(a, u) /\ MayStop(a, u)
  /\ new \in (IF user[a].dvsn = "a" THEN {"o", "u"} ELSE {"a", "o", "u"})
SetUserDvsn(a, u, new) ==
  Request(<<"role", a, u, new>>, CanSetDvsn(a, u, new), {u},
    /\ user' = [user EXCEPT ![u].dvsn = new]
    /\ unguarded' = unguarded \cup {u}
    /\ UNCHANGED <<dept, work, joining>>)

(* PATCH /users/{id}/etl-access                                             *)
CanSetEtl(a, u, etl) ==
  /\ Is(a, Super) /\ user[u].at = "there" /\ user[u].dvsn # "sa_dev"
  /\ user[a].dvsn = "sa" => Manages(user[a].dept, user[u].dept)
  /\ ~etl => \A x \in Seen(u) : x[1] # "etl"
SetUserEtlFlag(a, u, etl) ==
  Request(<<"etl", a, u, etl>>, CanSetEtl(a, u, etl), {u},
    /\ user' = [user EXCEPT ![u].etl = etl]
    /\ unguarded' = unguarded \cup (IF etl THEN {} ELSE Unseen(u))
    /\ UNCHANGED <<dept, work, joining>>)

-----------------------------------------------------------------------------
(* PUT /users/{id}/management: department, role, ETL and projects at once;  *)
(* what is not sent stays.  The check of what the user owns takes a role u  *)
(* for one without ETL, and only a change to u takes the ETL away.          *)
Sent(field, old) == IF field = <<>> THEN old ELSE field[1]

EtlAfter(u, dvsn, etl) ==
  Sent(etl, user[u].etl /\ ~(Sent(dvsn, user[u].dvsn) = "u" /\ user[u].dvsn # "u"))

CanManage(a, u, d, dvsn, etl) ==
  LET new == Sent(dvsn, user[u].dvsn)
  IN /\ Is(a, OrgAdmin) /\ Reaches(a, u) /\ Rank[user[u].dvsn] <= Rank[user[a].dvsn]
     /\ dvsn # <<>> \/ etl # <<>> =>
          MayKeep(u, new, Sent(etl, user[u].etl) /\ new # "u")
     /\ d # <<>> =>
          /\ dept[d[1]].at = "there" /\ dept[d[1]].use
          /\ IF user[a].dvsn = "sa_dev" THEN d[1] # Dev ELSE d[1] \in Tree(user[a].dept)
     /\ dvsn # <<>> =>
          new \in (IF user[a].dvsn = "a" THEN {"a", "o", "u"} ELSE Dvsn \ {"sa_dev"})
     /\ etl # <<>> =>
          /\ user[a].dvsn \in Super /\ new # "sa_dev"
          /\ user[a].dvsn = "sa" => Manages(user[a].dept, Sent(d, user[u].dept))

(* The projects wanted replace those that the user has: what to do in each  *)
(* is decided by the checks.  Joining or another template needs the         *)
(* administrator's own department; leaving does not.                        *)
Keep == <<"keep">>
Drop == <<"drop">>
MayChangePlaces(a, u, change) ==
  \A p \in Project :
    /\ change[p][1] = "add" => ~Joined(p, u)
    /\ change[p][1] \in {"drop", "set"} => Joined(p, u)
    /\ change[p][1] \in {"add", "set"} =>
         /\ Assignable(p, change[p][2])
         /\ user[a].dvsn = "sa_dev" \/ project[p].dept = user[a].dept

Changed(place, change, a) ==
  CASE change = Keep -> place
    [] change = Drop -> NoPlace
    [] change[1] = "add" -> IF place = NoPlace THEN Member(change[2], a) ELSE place
    [] OTHER -> IF place = NoPlace THEN place ELSE [place EXCEPT !.role = change[2]]

Management(a, u, d, dvsn, etl, change) ==
  Request(<<"manage", a, u, d, dvsn, etl, change>>,
    CanManage(a, u, d, dvsn, etl) /\ MayChangePlaces(a, u, change), {a, u},
    /\ user[u].at = "there"
    /\ user' = [user EXCEPT ![u].dept = Sent(d, @), ![u].dvsn = Sent(dvsn, @),
                            ![u].etl = EtlAfter(u, dvsn, etl)]
    /\ member' = [p \in Project |->
         [member[p] EXCEPT ![u] = Changed(@, change[p], a)]]
    /\ unguarded' = unguarded \cup Unseen(u)
    /\ UNCHANGED <<dept, work, note, code, late>>)

-----------------------------------------------------------------------------
(* POST /users/invite: one code for an address; the mail is sent after.     *)
(* (An administrator's request for the ETL is dropped: etl is what is left.) *)
CanInvite(a, v, d, dvsn, etl, p, r) ==
  /\ Is(a, OrgAdmin) /\ (etl => user[a].dvsn \in Super)
  /\ dvsn \in (IF user[a].dvsn = "a" THEN {"a", "o", "u"} ELSE Dvsn \ {"sa_dev"})
  /\ d = Dev => user[a].dvsn = "sa_dev"
  /\ MayInviteTo(a, d) /\ dept[d].at = "there"
  /\ (p = NoProject) = (r = NoRole)
  /\ p # NoProject => /\ dvsn = "u" /\ Assignable(p, r)
                      /\ project[p].active /\ project[p].dept = d
  /\ user[v].at = "new" /\ code[v].at = "none"
InviteUserByEmail(a, v, d, dvsn, etl, p, r) ==
  Request(<<"invite", a, v, d, dvsn, etl, p, r>>, CanInvite(a, v, d, dvsn, etl, p, r), {a, v},
    /\ code[v].at = "none"
    /\ code' = [code EXCEPT ![v] = [at |-> "open", by |-> a, dept |-> d, dvsn |-> dvsn,
                                   etl |-> etl, project |-> p, role |-> r]]
    /\ UNCHANGED <<people, work, member, note, late>>)

(* signup_with_invite; with the project of the invitation, if it is still   *)
(* there and active.                                                        *)
CanSignUp(v) ==
  /\ code[v].at = "open" /\ user[v].at = "new"
  /\ code[v].project # NoProject =>
       LET first == code[v].project
       IN Assignable(first, code[v].role) /\ project[first].active /\ project[first].dept = code[v].dept
SignUp(v) ==
  Request(<<"sign up", v>>, CanSignUp(v), {v, code[v].by},
    LET c == code[v]
    IN /\ user[v].at = "new" /\ c.at = "open"
       /\ user' = [user EXCEPT ![v] = [at |-> "there", dvsn |-> c.dvsn, dept |-> c.dept,
                                       active |-> TRUE, etl |-> c.etl]]
       /\ IF c.project = NoProject THEN UNCHANGED <<member, late>>
          ELSE /\ member' = [member EXCEPT ![c.project][v] = [role |-> c.role, by |-> c.by]]
               /\ late' = late \cup (IF Signed(c.by) THEN {} ELSE {<<c.project, v>>})
       /\ code' = [code EXCEPT ![v].at = "used"]
       /\ UNCHANGED <<dept, unguarded, work, note>>)

-----------------------------------------------------------------------------
(* Departments: POST, PATCH and DELETE /org/departments.                    *)

CanCreateDepartment(a, d, parent) ==
  /\ Is(a, Super) /\ dept[d].at = "new"
  /\ user[a].dvsn = "sa" => parent # NoDept /\ Manages(user[a].dept, parent)
  /\ parent # NoDept => parent # Dev /\ dept[parent].at = "there"
CreateDepartment(a, d, parent) ==
  Request(<<"create dept", a, d, parent>>, CanCreateDepartment(a, d, parent), {a},
    /\ dept[d].at = "new"
    /\ dept' = [dept EXCEPT ![d] = [at |-> "there", use |-> TRUE, parent |-> parent, owner |-> a]]
    /\ UNCHANGED <<user, unguarded, work, joining>>)

(* _assert_actor_can_manage_department                                      *)
ManagesDept(a, d) ==
  /\ Is(a, Super) /\ d # Dev /\ dept[d].at = "there"
  /\ user[a].dvsn = "sa" => d # user[a].dept /\ Manages(user[a].dept, d)

(* _assert_department_clear_for_invalidate_or_remove                        *)
Clear(d, leaving) ==
  /\ \A c \in There(dept) : dept[c].parent # d
  /\ \A u \in There(user) : user[u].dept # d \/ leaving
  /\ \A v \in User : code[v].at # "none" => code[v].dept # d
  /\ \A p \in There(project) : project[p].dept # d
  /\ \A r \in There(role) : role[r].dept # d

(* With use = FALSE its users may move to another department.               *)
CanUpdateDepartment(a, d, use, to) ==
  /\ ManagesDept(a, d)
  /\ to # NoDept => ~use /\ to # d /\ MayInviteTo(a, to) /\ dept[to].at = "there" /\ dept[to].use
  /\ ~use => Clear(d, to # NoDept)
UpdateDepartment(a, d, use, to) ==
  Request(<<"update dept", a, d, use, to>>, CanUpdateDepartment(a, d, use, to), {a},
    /\ dept[d].at = "there"
    /\ dept' = [dept EXCEPT ![d].use = use]
    /\ user' = [u \in User |->
         IF to # NoDept /\ user[u].at = "there" /\ user[u].dept = d
         THEN [user[u] EXCEPT !.dept = to] ELSE user[u]]
    /\ UNCHANGED <<unguarded, work, member, note, code, late>>)

CanDeleteDepartment(a, d) == ManagesDept(a, d) /\ Clear(d, FALSE)
DeleteDepartment(a, d) ==
  Request(<<"delete dept", a, d>>, CanDeleteDepartment(a, d),
    {a} \cup {u \in User : user[u].dept = d \/ code[u].dept = d},
    /\ dept[d].at = "there"
    /\ dept' = [dept EXCEPT ![d].at = "gone"]
    /\ UNCHANGED <<user, unguarded, work, joining>>)

=============================================================================
