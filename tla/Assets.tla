-------------------------------- MODULE Assets --------------------------------
(***************************************************************************)
(* What a user is the creator of: registrations, and their transfer by     *)
(* transfer_resource_ownership of admin_server/service_users.py.           *)
(***************************************************************************)
EXTENDS Org

Nobody == UNCHANGED <<people, joining>>

HasEtl(u) == Signed(u) /\ (user[u].dvsn = "sa_dev" \/ user[u].etl)

(* What the participant's template allows, while the project is active.     *)
Permits(p, u) == Joined(p, u) /\ project[p].active
MayQuery(p, u) == Permits(p, u) /\ role[member[p][u].role].list \in Executes

(* An ETL registration, a table saved by the query studio, a new board.     *)
CanRegister(a, x, p) ==
  /\ Signed(a) /\ asset[x].at = "new"
  /\ CASE KindOf[x] = "etl" -> p = NoProject /\ etlUp /\ HasEtl(a)
       [] KindOf[x] = "table" -> p # NoProject /\ MayQuery(p, a)
       [] OTHER -> p # NoProject /\ Permits(p, a)
RegisterAsset(a, x, p) ==
  Request(<<"register", a, x, p>>, CanRegister(a, x, p), {a},
    /\ asset[x].at = "new"
    /\ asset' = [asset EXCEPT ![x] = [at |-> "there", owner |-> a, project |-> p]]
    /\ UNCHANGED <<role, project, etlUp>> /\ Nobody)

(* ETL registrations by whoever has the ETL, a board by its owner.          *)
CanDeleteAsset(a, x) ==
  /\ Signed(a) /\ asset[x].at = "there"
  /\ CASE KindOf[x] = "etl" -> etlUp /\ HasEtl(a)
       [] KindOf[x] = "board" -> asset[x].owner = a /\ Permits(asset[x].project, a)
       [] OTHER -> FALSE
DeleteAsset(a, x) ==
  Request(<<"delete asset", a, x>>, CanDeleteAsset(a, x), {a},
    /\ asset[x].at = "there"
    /\ asset' = [asset EXCEPT ![x].at = "gone"]
    /\ UNCHANGED <<role, project, etlUp>> /\ Nobody)

-----------------------------------------------------------------------------
(* POST /users/transfer-ownership.                                          *)

(* The owner named must be the owner.  Both users are the administrator's   *)
(* to reach, and the recipient is active.                                   *)
MayTransfer(a, from, to) ==
  /\ from # to
  /\ Is(a, OrgAdmin) /\ Reaches(a, from) /\ Reaches(a, to)
  /\ user[a].dvsn = "sa" => user[to].dvsn # "sa_dev"
  /\ user[to].active

Given(x, to) == asset' = [asset EXCEPT ![x].owner = to]

TransferEtl(a, x, from, to) ==
  Request(<<"give", a, x, from, to>>,
    /\ KindOf[x] = "etl" /\ etlUp
    /\ MayTransfer(a, from, to)
    /\ MayInviteTo(a, user[from].dept) /\ SameBranch(user[from].dept, user[to].dept)
    /\ HasEtl(to)
    /\ asset[x].at = "there" /\ asset[x].owner = from, {from, to},
    /\ asset[x].at = "there" /\ asset[x].owner = from
    /\ Given(x, to)
    /\ UNCHANGED <<role, project, etlUp>> /\ Nobody)

(* _table_master_recipient_eligible                                         *)
MayHaveTable(x, from, to) ==
  \/ user[to].dvsn = "sa_dev"
  \/ user[to].dvsn \in {"sa", "a"} /\ SameBranch(user[from].dept, user[to].dept)
  \/ asset[x].project # NoProject /\ MayQuery(asset[x].project, to)

(* With a table go the ETL registrations of its owner that fill it, to a    *)
(* recipient who is not asked for the ETL.  They are in the other database  *)
(* and committed first: the table may stay behind.                          *)
Fills(x, from) ==
  {y \in There(asset) : <<y, x>> \in FillsTable /\ asset[y].owner = from}

TransferTable(a, x, from, to, moved) ==
  Request(<<"give", a, x, from, to, moved>>,
    /\ KindOf[x] = "table" /\ etlUp
    /\ MayTransfer(a, from, to)
    /\ MayInviteTo(a, user[from].dept)
    /\ MayHaveTable(x, from, to)
    /\ asset[x].at = "there" /\ asset[x].owner = from, {from, to},
    /\ asset[x].at = "there" /\ asset[x].owner = from
    /\ asset' = [y \in Asset |->
         IF y \in Fills(x, from) \/ (y = x /\ moved) THEN [asset[y] EXCEPT !.owner = to]
         ELSE asset[y]]
    /\ unguarded' = unguarded \cup (IF Fills(x, from) = {} THEN {} ELSE {to})
    /\ UNCHANGED <<user, dept, role, project, etlUp, joining>>)

(* A department's creator is a super administrator of its branch.           *)
TransferDept(a, d, from, to) ==
  Request(<<"give dept", a, d, from, to>>,
    /\ MayTransfer(a, from, to)
    /\ Is(a, Super) /\ user[to].dvsn \in Super
    /\ d # Dev /\ dept[d].at = "there"
    /\ user[a].dvsn = "sa" => d # user[a].dept /\ Manages(user[a].dept, d)
    /\ dept[d].owner = from
    /\ SameBranch(d, user[to].dept) /\ MayInviteTo(a, d), {from, to},
    /\ dept[d].at = "there" /\ dept[d].owner = from
    /\ dept' = [dept EXCEPT ![d].owner = to]
    /\ UNCHANGED <<user, unguarded, work, joining>>)

(* The rest goes to an administrator of the very department.                *)
MayTransferIn(a, d, from, to) ==
  /\ MayTransfer(a, from, to)
  /\ user[to].dvsn \in OrgAdmin
  /\ user[to].dept = d /\ MayInviteTo(a, d)

TransferBoard(a, x, from, to) ==
  Request(<<"give", a, x, from, to>>,
    /\ KindOf[x] = "board" /\ asset[x].at = "there" /\ asset[x].owner = from
    /\ MayTransferIn(a, project[asset[x].project].dept, from, to), {from, to},
    /\ asset[x].at = "there" /\ asset[x].owner = from
    /\ Given(x, to)
    /\ UNCHANGED <<role, project, etlUp>> /\ Nobody)

(* The one who is on record as having brought the participant v in.         *)
TransferVoucher(a, p, v, from, to) ==
  Request(<<"give place", a, p, v, from, to>>,
    /\ Joined(p, v) /\ member[p][v].by = from /\ v # to
    /\ MayTransferIn(a, project[p].dept, from, to), {from, to},
    /\ Joined(p, v) /\ member[p][v].by = from
    /\ member' = [member EXCEPT ![p][v].by = to]
    /\ UNCHANGED <<people, work, note, code, late>>)

(* These two are written whoever the owner is by then.                      *)
TransferProject(a, p, to) ==
  Request(<<"give project", a, p, to>>,
    /\ project[p].at = "there"
    /\ MayTransferIn(a, project[p].dept, project[p].owner, to), {to},
    /\ project[p].at = "there"
    /\ project' = [project EXCEPT ![p].owner = to]
    /\ UNCHANGED <<people, role, asset, etlUp, joining>>)

TransferRole(a, r, to) ==
  Request(<<"give role", a, r, to>>,
    /\ role[r].at = "there" /\ role[r].dept # NoDept
    /\ MayTransferIn(a, role[r].dept, role[r].owner, to), {to},
    /\ role[r].at = "there"
    /\ role' = [role EXCEPT ![r].owner = to]
    /\ UNCHANGED <<people, project, asset, etlUp, joining>>)

=============================================================================
