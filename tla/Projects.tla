------------------------------- MODULE Projects -------------------------------
(***************************************************************************)
(* Permission templates, projects, their participants and invitations: the *)
(* handlers of admin_server/service_roles.py and service_projects.py, and  *)
(* the answers of project_server/service.py.                               *)
(***************************************************************************)
EXTENDS Org

Unchanged == UNCHANGED <<people, asset, etlUp>>

(* The templates of the administrator's own department.                     *)
OwnTemplate(a, r) ==
  Is(a, OrgAdmin) /\ role[r].at = "there" /\ role[r].dept = user[a].dept

HasRole(r) == {v \in User : \E p \in Project : member[p][v].role = r}

CanCreateCustomRole(a, r, d) == Is(a, OrgAdmin) /\ user[a].dept = d /\ role[r].at = "new"
CreateCustomRole(a, r, d, l) ==
  Request(<<"create role", a, r, d, l>>, CanCreateCustomRole(a, r, d), {a},
    /\ role[r].at = "new"
    /\ role' = [role EXCEPT ![r] = [at |-> "there", dept |-> d, owner |-> a, list |-> l]]
    /\ UNCHANGED <<project, joining>> /\ Unchanged)

(* A template that somebody has keeps its list.                             *)
CanUpdateAnyRole(a, r, l) == OwnTemplate(a, r)
CanUpdateCustomRole(a, r, l) ==
  OwnTemplate(a, r) /\ (l # role[r].list => HasRole(r) = {})
UpdateCustomRole(a, r, l) ==
  Request(<<"update role", a, r, l>>, CanUpdateCustomRole(a, r, l), HasRole(r),
    /\ role[r].at = "there"
    /\ role' = [role EXCEPT ![r].list = l]
    /\ UNCHANGED <<project, joining>> /\ Unchanged)

(* Pending invitations that name it are not looked at.                      *)
CanDeleteCustomRole(a, r) == OwnTemplate(a, r) /\ HasRole(r) = {}
DeleteCustomRole(a, r) ==
  Request(<<"delete role", a, r>>, CanDeleteCustomRole(a, r), HasRole(r),
    /\ role[r].at = "there"
    /\ role' = [role EXCEPT ![r].at = "gone"]
    /\ UNCHANGED <<project, joining>> /\ Unchanged)

-----------------------------------------------------------------------------

(* Project and department agree, and an operator takes part in the project. *)
MayRun(a, p) ==
  /\ project[p].at = "there" /\ project[p].dept = user[a].dept
  /\ Is(a, OrgAdmin) \/ (Is(a, {"o"}) /\ Joined(p, a))

(* Who may be chosen; the developers' department is hidden from the others. *)
MayBeChosen(a, u) ==
  /\ Signed(u)
  /\ user[u].dept = Dev => user[a].dvsn = "sa_dev" \/ user[a].dept = Dev

Join(p, u, r, by) == member' = [member EXCEPT ![p][u] = Member(r, by)]
InvitationUnsigned(p, u, r, by) == [to |-> u, project |-> p, role |-> r, by |-> NoUser]
Invitation(p, u, r, by) == [to |-> u, project |-> p, role |-> r, by |-> by]

(* A user of the department's tree joins at once, another gets an           *)
(* invitation: decided by the checks.                                       *)
JoinOrInvite(p, u, r, by, inside, places) ==
  IF inside
  THEN /\ places[p][u] = NoPlace
       /\ member' = [places EXCEPT ![p][u] = Member(r, by)]
       /\ UNCHANGED note
  ELSE /\ member' = places
       /\ note' = note \cup {Invitation(p, u, r, by)}

(* The creator joins the project, and at most one more user is named; an    *)
(* account named for itself is left out.                                    *)
CanCreateProject(a, p, d, r, guest, inside) ==
  /\ Is(a, OrgAdmin) /\ user[a].dept = d
  /\ project[p].at = "new"
  /\ role[r].at = "there" /\ role[r].dept \in {NoDept, d}
  /\ guest # a => MayBeChosen(a, guest)
  /\ inside = InScope(d, guest)
CreateProject(a, p, d, r, guest, inside) ==
  Request(<<"create project", a, p, d, r, guest, inside>>,
    CanCreateProject(a, p, d, r, guest, inside), {a, guest},
    /\ project[p].at = "new"
    /\ project' = [project EXCEPT ![p] = [at |-> "there", active |-> TRUE, dept |-> d, owner |-> a]]
    /\ LET started == [member EXCEPT ![p][a] = Member(r, a)]
       IN IF guest = a THEN member' = started /\ UNCHANGED note
          ELSE JoinOrInvite(p, guest, r, a, inside, started)
    /\ UNCHANGED <<role, code, late>> /\ Unchanged)

(* PATCH of active_yn, and DELETE, which only deactivates.                  *)
CanSetProjectActive(a, p) == MayRun(a, p) /\ Is(a, OrgAdmin)
SetProjectActive(a, p, active) ==
  Request(<<"active", a, p, active>>, CanSetProjectActive(a, p), {a},
    /\ project' = [project EXCEPT ![p].active = active]
    /\ UNCHANGED <<role, joining>> /\ Unchanged)

(* Everything that names the project goes, before the project itself.       *)
CanPurge(a, p) == CanSetProjectActive(a, p) /\ ~project[p].active
PurgeInactiveProject(a, p) ==
  Request(<<"purge", a, p>>, CanPurge(a, p), {v \in User : Joined(p, v)},
    /\ project[p].at = "there"
    /\ note' = {n \in note : n.project # p}
    /\ code' = [v \in User |-> IF code[v].project = p
                               THEN [code[v] EXCEPT !.project = NoProject, !.role = NoRole]
                               ELSE code[v]]
    /\ asset' = [x \in Asset |->
         IF asset[x].project # p THEN asset[x]
         ELSE IF KindOf[x] = "board" THEN [asset[x] EXCEPT !.at = "gone", !.project = NoProject]
         ELSE [asset[x] EXCEPT !.project = NoProject]]
    /\ member' = [member EXCEPT ![p] = [v \in User |-> NoPlace]]
    /\ project' = [project EXCEPT ![p].at = "gone"]
    /\ UNCHANGED <<people, role, etlUp, late>>)

-----------------------------------------------------------------------------

MayChange(a, p) == MayRun(a, p) /\ project[p].active

Pending(p, u) == {n \in note : n.project = p /\ n.to = u}

CanAddMember(a, p, u, r, inside) ==
  /\ MayChange(a, p) /\ Assignable(p, r) /\ MayBeChosen(a, u)
  /\ ~Joined(p, u) /\ Pending(p, u) = {}
  /\ inside = InScope(user[a].dept, u)
AddMember(a, p, u, r, inside) ==
  Request(<<"add member", a, p, u, r, inside>>, CanAddMember(a, p, u, r, inside), {a, u},
    /\ user[u].at = "there"
    /\ JoinOrInvite(p, u, r, a, inside, member)
    /\ UNCHANGED <<role, project, code, late>> /\ Unchanged)

(* An operator changes plain users only.                                    *)
MayChangeMember(a, p, u) == MayChange(a, p) /\ (Is(a, {"o"}) => user[u].dvsn = "u")

UpdateMemberRole(a, p, u, r) ==
  Request(<<"member role", a, p, u, r>>,
    MayChangeMember(a, p, u) /\ Assignable(p, r) /\ Joined(p, u), {u},
    /\ Joined(p, u)
    /\ member' = [member EXCEPT ![p][u].role = r]
    /\ UNCHANGED <<role, project, note, code, late>> /\ Unchanged)

RemoveMember(a, p, u) ==
  Request(<<"remove member", a, p, u>>, MayChangeMember(a, p, u) /\ Joined(p, u), {u},
    /\ Joined(p, u)
    /\ member' = [member EXCEPT ![p][u] = NoPlace]
    /\ note' = note \ Pending(p, u)
    /\ UNCHANGED <<role, project, code, late>> /\ Unchanged)

CancelProjectInvite(a, n) ==
  Request(<<"cancel invite", a, n>>,
    MayChange(a, n.project) /\ n \in note /\ ~Joined(n.project, n.to), {n.to},
    /\ n \in note
    /\ note' = note \ {n}
    /\ UNCHANGED <<role, project, member, code, late>> /\ Unchanged)

(* What the inviter is by now is not asked.                                 *)
CanAccept(n) ==
  /\ Signed(n.to) /\ n \in note
  /\ project[n.project].at = "there" /\ project[n.project].active
  /\ ~Joined(n.project, n.to) /\ Assignable(n.project, n.role)
AcceptProjectInvite(n) ==
  Request(<<"accept", n>>, CanAccept(n), {},
    /\ n \in note /\ ~Joined(n.project, n.to)
    /\ Join(n.project, n.to, n.role, n.by)
    /\ note' = note \ {n}
    /\ late' = late \cup (IF Signed(n.by) THEN {} ELSE {<<n.project, n.to>>})
    /\ UNCHANGED <<role, project, code>> /\ Unchanged)

RejectProjectInvite(n) ==
  Request(<<"reject", n>>, Signed(n.to) /\ n \in note /\ ~Joined(n.project, n.to), {n.to},
    /\ n \in note
    /\ note' = note \ {n}
    /\ UNCHANGED <<role, project, member, code, late>> /\ Unchanged)

=============================================================================
