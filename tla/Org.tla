--------------------------------- MODULE Org ---------------------------------
(***************************************************************************)
(* What the system database says of people and of their work: accounts,    *)
(* departments, permission roles, projects and their participants, the     *)
(* invitations, and whatever somebody is the registered creator of.        *)
(*                                                                         *)
(* A handler of the API reads what it checks and writes in one transaction *)
(* of isolation READ COMMITTED and locks nothing: another handler may run  *)
(* between its checks and its writes.  Request below says so once for      *)
(* every handler.  The database keeps its foreign keys (References).       *)
(***************************************************************************)
EXTENDS Naturals, Sequences, FiniteSets

CONSTANTS
  User,        \* accounts, one for each e-mail address
  Dept, Dev,   \* departments; Dev has the id 0 and is the developers' own
  Role,        \* pmssn_master: permission templates
  Project,
  Asset,       \* table masters, widget boards and ETL registrations
  KindOf,      \* what each of them is
  FillsTable,  \* pairs of an ETL registration and the table that it loads
  List,        \* lists of permissions
  Executes,    \* those with query.execute
  NoUser, NoDept, NoRole, NoProject,
  MaxRequests  \* bound: requests that reach their writes

Dvsn == {"sa_dev", "sa", "a", "o", "u"}
Rank == [u |-> 1, o |-> 2, a |-> 3, sa |-> 4, sa_dev |-> 5]
OrgAdmin == {"sa_dev", "sa", "a"}
Super == {"sa_dev", "sa"}
Kind == {"etl", "table", "board"}

ASSUME OrgAssumption ==
  /\ NoUser \notin User /\ NoDept \notin Dept /\ NoRole \notin Role /\ NoProject \notin Project
  /\ Dev \in Dept
  /\ KindOf \in [Asset -> Kind]
  /\ FillsTable \subseteq Asset \X Asset
  /\ Executes \subseteq List
  /\ MaxRequests \in Nat

VARIABLES
  user, dept, role, project,
  member,      \* project_ptcpnt_info, unique for a project and a user
  note,        \* notification_info of the type project_invite
  code,        \* email_invite_code_master, for each address
  asset,
  etlUp,       \* whether the ETL database can be reached, while an instance lasts
  slow,        \* the request that has made its checks and has not written yet
  requests,
  unchecked,   \* history: users of whom a request wrote what its checks did not allow then
  unguarded,   \* history: users changed without the check of what they own
  late         \* history: who joined on behalf of somebody who was not active any more

data == <<user, dept, role, project, member, note, code, asset, etlUp, late, unguarded>>
people == <<user, dept, unguarded>>
work == <<role, project, asset, etlUp>>
joining == <<member, note, code, late>>
vars == <<data, slow, requests, unchecked>>

Stage == {"new", "there", "gone"}
Account == [at : Stage, dvsn : Dvsn, dept : Dept, active : BOOLEAN, etl : BOOLEAN]
Department == [at : Stage, use : BOOLEAN, parent : Dept \cup {NoDept}, owner : User \cup {NoUser}]
Template == [at : Stage, dept : Dept \cup {NoDept}, owner : User \cup {NoUser}, list : List]
Undertaking == [at : Stage, active : BOOLEAN, dept : Dept, owner : User \cup {NoUser}]
Thing == [at : Stage, owner : User \cup {NoUser}, project : Project \cup {NoProject}]
Code == [at : {"none", "open", "used"}, by : User \cup {NoUser}, dept : Dept, dvsn : Dvsn,
         etl : BOOLEAN, project : Project \cup {NoProject}, role : Role \cup {NoRole}]
Note == [to : User, project : Project, role : Role, by : User]

NoPlace == [role |-> NoRole, by |-> NoUser]
Place == [role : Role, by : User] \cup {NoPlace}
NoCode == [at |-> "none", by |-> NoUser, dept |-> Dev, dvsn |-> "u", etl |-> FALSE,
           project |-> NoProject, role |-> NoRole]
Nothing == <<"none">>

TypeOK ==
  /\ user \in [User -> Account]
  /\ dept \in [Dept -> Department]
  /\ role \in [Role -> Template]
  /\ project \in [Project -> Undertaking]
  /\ member \in [Project -> [User -> Place]]
  /\ note \subseteq Note
  /\ code \in [User -> Code]
  /\ asset \in [Asset -> Thing]
  /\ etlUp \in BOOLEAN
  /\ requests \in 0..MaxRequests
  /\ unchecked \subseteq User /\ unguarded \subseteq User
  /\ late \subseteq Project \X User

-----------------------------------------------------------------------------
(* Who may do what.                                                         *)

There(f) == {x \in DOMAIN f : f[x].at = "there"}
Created(f) == {x \in DOMAIN f : f[x].at # "new"}

(* get_authenticated_user_row: the session's user, read again.              *)
Signed(a) == user[a].at = "there" /\ user[a].active
Is(a, dvsns) == Signed(a) /\ user[a].dvsn \in dvsns

(* A department and all below it, whether or not they are in use: the least *)
(* set with it and with whatever has its parent in the set, which is what   *)
(* the recursive query computes.                                            *)
Closed(S) == \A d \in There(dept) : dept[d].parent \in S => d \in S
Tree(root) ==
  {d \in There(dept) :
     \A S \in SUBSET There(dept) : Closed(S) /\ {root} \cap There(dept) \subseteq S => d \in S}

(* _dptmt_id_in_managed_subtree                                             *)
Manages(d, e) == Dev \notin {d, e} /\ e \in Tree(d)
SameBranch(d, e) == Dev \notin {d, e} /\ (d = e \/ Manages(d, e) \/ Manages(e, d))

(* _assert_target_exists_or_same_dept                                       *)
Reaches(a, u) ==
  /\ user[u].at = "there"
  /\ user[a].dvsn = "sa_dev" \/ Manages(user[a].dept, user[u].dept)

(* assert_invite_dptmt_allowed                                              *)
MayInviteTo(a, d) ==
  IF user[a].dvsn = "sa_dev" THEN dept[d].at = "there"
  ELSE d = user[a].dept \/ d \in Tree(user[a].dept)

(* _user_in_actor_dept_scope                                                *)
InAnyScope(d, u) == Signed(u)
InScope(d, u) == Signed(u) /\ user[u].dept \in Tree(d)

(* can_own_after_change                                                     *)
CanOwn(kind, dvsn, etl) ==
  CASE kind \in {"project", "role"} -> dvsn \in OrgAdmin
    [] kind = "dept" -> dvsn \in Super
    [] kind = "etl" -> dvsn = "sa_dev" \/ etl
    [] OTHER -> TRUE

Owned(u) ==
  {<<"project", p>> : p \in {p \in There(project) : project[p].owner = u}}
  \cup {<<"role", r>> : r \in {r \in There(role) : role[r].owner = u}}
  \cup {<<"dept", d>> : d \in {d \in There(dept) : dept[d].owner = u}}
  \cup {<<KindOf[x], x>> : x \in {x \in There(asset) : asset[x].owner = u}}

(* The ETL registrations are in another database; when it cannot be read,   *)
(* the guard goes on without them.                                          *)
SeenButDepts(u) == {x \in Owned(u) : x[1] # "dept" /\ (x[1] # "etl" \/ etlUp)}
Seen(u) == {x \in Owned(u) : x[1] # "etl" \/ etlUp}

(* build_ownership_violation_payload, for a change and for a suspension.    *)
MayKeep(u, dvsn, etl) == \A x \in Seen(u) : CanOwn(x[1], dvsn, etl)
Vouches(u) == {v \in User \ {u} : \E p \in There(project) : member[p][v].by = u}
OwnsNothing(u) == Seen(u) = {}
HasNothing(u) == Seen(u) = {} /\ Vouches(u) = {}

(* What a guard that did not see the ETL registrations leaves behind.       *)
Unseen(u) == IF etlUp THEN {} ELSE {u}

(* _assert_pmssn_for_project                                                *)
Assignable(p, r) ==
  /\ project[p].at = "there" /\ role[r].at = "there"
  /\ role[r].dept \in {NoDept, project[p].dept}

Joined(p, u) == member[p][u] # NoPlace

Member(r, a) == [role |-> r, by |-> a]

(* The foreign keys of the system database: a statement that would break    *)
(* one fails.  Notifications name projects and roles in a text, without.    *)
References ==
  /\ \A u \in There(user) : dept[user[u].dept].at = "there"
  /\ \A d \in There(dept) :
       /\ dept[d].parent \in There(dept) \cup {NoDept}
       /\ dept[d].owner \in There(user) \cup {NoUser}
  /\ \A r \in There(role) :
       /\ role[r].dept \in There(dept) \cup {NoDept}
       /\ role[r].owner \in There(user) \cup {NoUser}
  /\ \A p \in There(project) : project[p].dept \in There(dept) /\ project[p].owner \in There(user)
  /\ \A p \in Project, v \in User : member[p][v] # NoPlace =>
       /\ p \in There(project) /\ v \in There(user)
       /\ member[p][v].role \in There(role) /\ member[p][v].by \in There(user)
  /\ \A n \in note : n.to \in There(user)
  /\ \A v \in User : code[v].at # "none" => code[v].dept \in There(dept) /\ code[v].by \in There(user)
  /\ \A x \in There(asset) : KindOf[x] = "board" =>
       asset[x].owner \in There(user) /\ asset[x].project \in There(project)

-----------------------------------------------------------------------------
(* A handler: its checks hold, and it writes, at once or after others have. *)
(* What it wrote without a check that holds is noted for the users touched. *)
(* (The last request of a run finds nobody to let through.)                 *)
Request(q, checks, touched, writes) ==
  \/ /\ slow = Nothing /\ requests + 1 < MaxRequests
     /\ checks
     /\ slow' = q /\ requests' = requests + 1
     /\ UNCHANGED <<data, unchecked>>
  \/ /\ requests < MaxRequests
     /\ checks /\ writes /\ References'
     /\ requests' = requests + 1
     /\ UNCHANGED <<slow, unchecked>>
  \/ /\ slow = q
     /\ writes /\ References'
     /\ slow' = Nothing
     /\ unchecked' = unchecked \cup (IF checks THEN {} ELSE touched)
     /\ UNCHANGED requests

(* A statement fails, or the client is gone: rolled back.                   *)
Abandon ==
  /\ slow # Nothing
  /\ slow' = Nothing
  /\ UNCHANGED <<data, requests, unchecked>>

=============================================================================
