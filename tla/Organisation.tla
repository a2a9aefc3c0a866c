----------------------------- MODULE Organisation -----------------------------
(***************************************************************************)
(* Accounts, projects and assets together: requests of several users at    *)
(* the same time, on one system database and one ETL database.  At most    *)
(* one request at a time stays between its checks and its writes; the      *)
(* others then run whole.                                                  *)
(***************************************************************************)
EXTENDS Accounts, Projects, Assets

CONSTANTS
  Offices,  \* organisations to start with
  Bodies,   \* bodies of PUT management: department, role and ETL, each sent or not
  Offers    \* bodies of an invitation by mail: role, ETL, project, template

Optional(S) == {<<>>} \cup {<<x>> : x \in S}

ASSUME OfficesAssumption ==
  /\ Bodies \subseteq Optional(Dept) \X Optional(Dvsn) \X Optional(BOOLEAN)
  /\ Offers \subseteq Dvsn \X BOOLEAN \X (Project \cup {NoProject}) \X (Role \cup {NoRole})
  /\ \A office \in Offices :
       /\ office.user \in [User -> Account]
       /\ office.dept \in [Dept -> Department]
       /\ office.role \in [Role -> Template]
       /\ office.project \in [Project -> Undertaking]
       /\ office.member \in [Project -> [User -> Place]]
       /\ office.asset \in [Asset -> Thing]
       /\ office.etlUp \in BOOLEAN
       /\ office.note \subseteq Note
       /\ office.code \in [User -> Code]

-----------------------------------------------------------------------------

(* What a user is the creator of, the user's role and ETL flag allow, and   *)
(* nobody suspended or deleted is the creator of anything (the rules of     *)
(* ownership_guards.py, for every route by which a role, a flag, an account *)
(* or an owner changes): but for the users of whom a handler does not ask,  *)
(* and those whom two requests changed at once.                             *)
OwnersCanOwn ==
  \A u \in Created(user) \ (unchecked \cup unguarded) :
    \A x \in Owned(u) : Signed(u) /\ CanOwn(x[1], user[u].dvsn, user[u].etl)

(* Whoever is on record as having brought another user into a project can   *)
(* still be asked: neither suspended nor deleted, unless that was so before *)
(* the invitation was taken up (build_ownership_violation_payload).         *)
InvitersStay ==
  \A p \in There(project), v \in User :
    Joined(p, v) /\ member[p][v].by \notin unchecked \cup {v} /\ <<p, v>> \notin late
      => Signed(member[p][v].by)

(* Whatever is there was made by somebody with an account.  (Tables and ETL *)
(* registrations have no foreign key that says so.)                         *)
Registered == \A x \in There(asset) : asset[x].owner \in Created(user)

(* An organisation in which the rules hold already.                         *)
Init ==
  /\ \E office \in Offices :
       /\ user = office.user /\ dept = office.dept
       /\ role = office.role /\ project = office.project
       /\ member = office.member /\ asset = office.asset
       /\ etlUp = office.etlUp /\ note = office.note /\ code = office.code
  /\ slow = Nothing /\ requests = 0
  /\ unchecked = {} /\ unguarded = {} /\ late = {}
  /\ References /\ Registered /\ OwnersCanOwn /\ InvitersStay

-----------------------------------------------------------------------------

(* Those who may call at all, and the one whose call is on its way; and     *)
(* likewise for the users whom an administrator reaches.                    *)
Caller(dvsns) ==
  {a \in User : (requests < MaxRequests /\ Is(a, dvsns)) \/ (slow # Nothing /\ slow[2] = a)}
Target(a) ==
  {u \in There(user) :
     (requests < MaxRequests /\ Reaches(a, u)) \/ (Len(slow) > 2 /\ slow[3] = u)}

AccountRequest(a) ==
  \/ \E u \in Target(a) :
       \/ SuspendUser(a, u) \/ ActivateUser(a, u) \/ DeleteInactiveUser(a, u)
       \/ \E new \in Dvsn : SetUserDvsn(a, u, new)
       \/ \E etl \in BOOLEAN : SetUserEtlFlag(a, u, etl)
       \/ \E body \in Bodies : Management(a, u, body[1], body[2], body[3], [p \in Project |-> Keep])
       \/ \E p \in There(project), r \in There(role), c \in {"add", "set"} :
            Management(a, u, <<>>, <<>>, <<>>, [q \in Project |-> IF q = p THEN <<c, r>> ELSE Keep])
       \/ \E p \in There(project) :
            Management(a, u, <<>>, <<>>, <<>>, [q \in Project |-> IF q = p THEN Drop ELSE Keep])
  \/ \E v \in User \ Created(user), d \in There(dept), o \in Offers :
       InviteUserByEmail(a, v, d, o[1], o[2], o[3], o[4])

DepartmentRequest(a) ==
  \/ \E d \in Dept \ Created(dept), parent \in There(dept) \cup {NoDept} :
       CreateDepartment(a, d, parent)
  \/ \E d \in There(dept) :
       \/ DeleteDepartment(a, d)
       \/ UpdateDepartment(a, d, TRUE, NoDept)
       \/ \E to \in There(dept) \cup {NoDept} : UpdateDepartment(a, d, FALSE, to)

RoleRequest(a) ==
  \/ \E r \in Role \ Created(role), d \in There(dept), l \in List : CreateCustomRole(a, r, d, l)
  \/ \E r \in There(role) :
       DeleteCustomRole(a, r) \/ \E l \in List : UpdateCustomRole(a, r, l)

ProjectRequest(a) ==
  \/ \E p \in Project \ Created(project), d \in There(dept), r \in There(role),
        guest \in There(user), inside \in BOOLEAN : CreateProject(a, p, d, r, guest, inside)
  \/ \E p \in There(project) :
       \/ \E active \in BOOLEAN : SetProjectActive(a, p, active)
       \/ PurgeInactiveProject(a, p)
       \/ \E u \in There(user) :
            \/ RemoveMember(a, p, u)
            \/ \E r \in There(role) :
                 \/ UpdateMemberRole(a, p, u, r)
                 \/ \E inside \in BOOLEAN : AddMember(a, p, u, r, inside)
  \/ \E n \in note : CancelProjectInvite(a, n)

TransferRequest(a) ==
  \E to \in There(user) :
    \/ \E x \in There(asset) :
         \/ TransferEtl(a, x, asset[x].owner, to) \/ TransferBoard(a, x, asset[x].owner, to)
         \/ \E moved \in BOOLEAN : TransferTable(a, x, asset[x].owner, to, moved)
    \/ \E d \in There(dept) : dept[d].owner # NoUser /\ TransferDept(a, d, dept[d].owner, to)
    \/ \E p \in There(project) :
         \/ TransferProject(a, p, to)
         \/ \E v \in There(user) : TransferVoucher(a, p, v, member[p][v].by, to)
    \/ \E r \in There(role) : TransferRole(a, r, to)

(* What a user asks for, signed in or by following an invitation.           *)
OwnRequest(a) ==
  \/ /\ a \in Created(user)
     /\ \E x \in Asset \ Created(asset), p \in There(project) \cup {NoProject} :
          RegisterAsset(a, x, p)
  \/ \E x \in There(asset) : DeleteAsset(a, x)
  \/ \E n \in note \cup (IF slow[1] = "accept" THEN {slow[2]} ELSE {}) :
       n.to = a /\ (AcceptProjectInvite(n) \/ RejectProjectInvite(n))
  \/ SignUp(a)

Next ==
  \/ \E a \in Caller(OrgAdmin) :
       AccountRequest(a) \/ DepartmentRequest(a) \/ RoleRequest(a) \/ TransferRequest(a)
  \/ \E a \in Caller(OrgAdmin \cup {"o"}) : ProjectRequest(a)
  \/ \E a \in User : OwnRequest(a)
  \/ Abandon

Spec == Init /\ [][Next]_vars

-----------------------------------------------------------------------------

AtHome(p, u) == user[u].dept \in Tree(project[p].dept)

(* Nobody from outside the tree of a project's department becomes a         *)
(* participant without having taken up an invitation that still stood, but  *)
(* at the hands of a sa_dev (add_member, update_user_management, accept).   *)
OutsidersConsent ==
  [][\A p \in Project, u \in User \ unchecked' :
       ~Joined(p, u) /\ Joined(p, u)' =>
         \/ AtHome(p, u)'
         \/ \E n \in note \ note' : n.to = u /\ n.project = p
         \/ user[member'[p][u].by].dvsn = "sa_dev"]_vars

(* The permissions of a participant do not change under his hands: only by  *)
(* giving him another template (update_custom_role refuses the others).     *)
PermissionsKept ==
  [][\A p \in Project, u \in User \ unchecked' :
       Joined(p, u) /\ Joined(p, u)' /\ member'[p][u].role = member[p][u].role =>
         role'[member[p][u].role].list = role[member[p][u].role].list]_vars

=============================================================================
