------------------------------- MODULE Workspace -------------------------------
(***************************************************************************)
(* Sessions, tables, saved queries, the cache of relationships and boards  *)
(* together, on one system database and one main database.  A scene says   *)
(* what there is to start with, in which parts something happens, and how  *)
(* many requests are sent.                                                 *)
(***************************************************************************)
EXTENDS Sessions, TargetTables, SavedTables, Relationships, Boards

CONSTANTS
  Scenes,  \* what there is to start with
  Lists    \* bodies of PUT /projects/{id}: flags and tables

(* A scene is a state that work may have led to and that nobody works in:   *)
(* tables are there for those who say so, and rows refer to rows.           *)
Typed(scene) ==
  /\ scene.account \in [User -> Account] /\ scene.session \in [Session -> Login]
  /\ scene.project \in [Project -> Undertaking]
  /\ scene.table \in [Table -> {NotMade, Loaded} \cup {Saved(j) : j \in Job}]
  /\ scene.master \subseteq Table /\ scene.map \in [Project -> [Table -> Usage]]
  /\ scene.conn \in [Conn -> Source] /\ scene.etl \in [Etl -> Registration]
  /\ scene.batch \in [Batch -> BatchJob]
  /\ scene.registry \in [Table -> Batch \cup {NoBatch}] /\ scene.scheduled \subseteq Batch
  /\ scene.job \in [Job -> Save]
  /\ scene.board \in [Board -> WidgetBoard] /\ scene.widget \in [Widget -> Item]
  /\ scene.share \in [Board -> [User -> {"none", "view", "edit"}]] /\ scene.invite \subseteq Invite
  /\ scene.requests \in 0..MaxRequests

Settled(scene) ==
  /\ \A s \in Session :
       /\ scene.session[s].at # "new" => scene.session[s].of \in User
       /\ scene.session[s].at = "open" => scene.session[s].pw = scene.account[scene.session[s].of].pw
  /\ \A t \in scene.master : scene.table[t] # NotMade
  /\ \A p \in Project, t \in Table : scene.map[p][t] # {} => t \in scene.master
  /\ \A e \in Etl :
       /\ scene.etl[e].at # "new" => scene.etl[e].target \in Table
       /\ scene.etl[e].at = "there" /\ scene.etl[e].loaded => scene.table[scene.etl[e].target] # NotMade
  /\ \A t \in Table :
       scene.registry[t] # NoBatch =>
         scene.batch[scene.registry[t]].at = "there" /\ scene.batch[scene.registry[t]].target = t
  /\ \A b \in Batch : scene.batch[b].todo = "done"
  /\ \A j \in Job :
       /\ scene.job[j].status # "running" /\ (scene.job[j].status # "new" => scene.job[j].name \in Table)
       /\ \A t \in Table : scene.table[t] = Saved(j) => scene.job[j].result /\ scene.job[j].name = t
       /\ scene.job[j].result => /\ scene.job[j].status \notin {"new", "queued"}
                                 /\ scene.job[j].name \in scene.master
                                 /\ scene.table[scene.job[j].name] = Saved(j)
  /\ \A w \in Widget :
       scene.widget[w].at = "there" =>
         LET b == scene.widget[w].board
         IN /\ scene.board[b].at = "there" /\ scene.widget[w].by \in User
            /\ scene.widget[w].by = scene.board[b].owner \/ scene.share[b][scene.widget[w].by] # "none"
  /\ \A n \in scene.invite : scene.board[n.board].at = "there"

ASSUME ScenesAssumption == \A scene \in Scenes : Typed(scene) /\ Settled(scene)
ASSUME ListsAssumption == Lists \subseteq Usage \X [Table -> Usage]

Init ==
  /\ \E scene \in Scenes :
       /\ open = scene.open /\ apart = scene.apart
       /\ account = scene.account /\ session = scene.session
       /\ project = scene.project
       /\ table = scene.table /\ master = scene.master /\ map = scene.map
       /\ conn = scene.conn /\ etl = scene.etl /\ batch = scene.batch
       /\ registry = scene.registry /\ scheduled = scene.scheduled
       /\ job = scene.job
       /\ board = scene.board /\ share = scene.share /\ widget = scene.widget /\ invite = scene.invite
       /\ requests = scene.requests
  /\ ending = [u \in User |-> 0] /\ left = {}
  /\ gone = {} /\ dropped = {} /\ replaced = {} /\ deleting = Nothing
  /\ load = [e \in Etl |-> "idle"]
  /\ listing = {} /\ leaving = {} /\ overtaken = {}
  /\ handing = Nothing /\ missed = {}
  /\ worker = [w \in Worker |-> [pc |-> "idle", job |-> 0, ok |-> TRUE]] /\ unsure = {}
  /\ cache = <<>> /\ moved = {}
  /\ reader = [r \in Reader |-> [pc |-> "idle", names |-> {}, columns |-> {}, steady |-> TRUE,
                                 key |-> [project |-> CHOOSE p \in Project : TRUE, names |-> {}]]]
  /\ slow = Nothing /\ unchecked = {}

-----------------------------------------------------------------------------

Signed == {s \in Session : session[s].of # NoUser}

SessionRequest ==
  \/ \E u \in User :
       \/ CreateOrg(u)
       \/ \E pw \in 0..MaxPasswords : LoginSendCode(u, pw)
       \/ \E s \in New(session) : VerifyLoginComplete(s, u)
  \/ \E s \in Signed :
       \/ \E claim \in Project \cup {NoProject} : RefreshSessionTokens(s, claim)
       \/ \E p \in Project : RotateWithProject(s, p)
       \/ RotateClearProject(s) \/ LogoutOneSession(s)
       \/ \E u \in User : SuspendAccount(s, u) \/ ActivateAccount(s, u)
       \/ \E pw \in 0..MaxPasswords : ChangePassword(s, pw)

EndOfSessions == \E u \in User : InvalidateAllSessions(u) \/ InvalidateFails(u)

MapRequest ==
  \E s \in Signed, p \in Project :
    \/ \E t \in Table : AddMapping(s, p, t) \/ DeleteMapping(s, p, t)
    \/ \E l \in Lists : UpdateProject(s, p, l[1], l[2])

ConnectionRequest ==
  \E s \in Signed :
    \/ \E c \in New(conn) : CreateConnection(s, c) \/ CreateFileConnection(s, c)
    \/ \E c \in There(conn) : DeleteConnection(s, c)

RegistrationRequest ==
  \E s \in Signed, e \in New(etl), c \in There(conn), t \in Table, from \in Table \cup {NoTable},
     mode \in {"full", "incremental", "diff"} : CreateEtlTable(s, e, c, t, from, mode)

DeletionRequest ==
  \E s \in Signed, e \in Etl :
    \/ \E drop \in BOOLEAN : DeleteEtlTable(s, e, drop)
    \/ \E too \in BOOLEAN : DeleteEtlTableRowOnly(s, e, too)

EtlRequest == ConnectionRequest \/ RegistrationRequest \/ DeletionRequest

Load ==
  \E e \in Etl :
    \/ \E how \in {"full", "more", "nothing"} : LoadTable(e, how)
    \/ \E done \in BOOLEAN : RecordMaster(e, done)
    \/ RecordLoad(e) \/ LoadFails(e) \/ LoadCancelled(e)

NewBatchRequest ==
  \E s \in Signed, b \in New(batch), e \in There(etl) \cup {NoEtl}, t \in Table, active \in BOOLEAN :
    CreateBatchJob(s, b, e, t, active)

EndOfBatchRequest == \E s \in Signed, b \in Batch : DeleteBatchJob(s, b)
EndOfTargetRequest == \E s \in Signed, t \in Table, b \in Batch : DeleteTargetAndDrop(s, t, b)

BatchRequest == NewBatchRequest \/ EndOfBatchRequest \/ EndOfTargetRequest

Following ==
  \/ \E e \in Etl : DeletedEtlTable(e)
  \/ \E c \in Conn : DeletedConnection(c)
  \/ DeletionFails
  \/ \E b \in Batch :
       \/ ScheduleBatch(b)
       \/ \E written \in BOOLEAN : RegisterTarget(b, written) \/ EnterListed(b, written)
  \/ \E l \in leaving, deleted, drop \in BOOLEAN : DeletedBatchJob(l[1], l[2], deleted, drop)
  \/ \E s \in Signed : ReadBatches(s)

SaveRequest ==
  \E s \in Signed :
    \/ \E t \in Table, hints \in BOOLEAN : SaveQueryAsTable(s, t, hints)
    \/ \E j \in Job : CancelSave(s, j) \/ RequeueSave(s, j)

SaveWorker(w) ==
  \/ \E j \in Job : Claim(w, j)
  \/ \E told \in BOOLEAN : CreateTable(w, told) \/ RegisterTable(w, told) \/ Finish(w, told)
  \/ \E ok \in BOOLEAN : SetComments(w, ok)
  \/ CreateFails(w) \/ StepFails(w)
  \/ DropOrphan(w) \/ DropFails(w) \/ MarkFailed(w) \/ GiveUp(w)

Guard ==
  \/ \E r \in Reader :
       \/ \E s \in Signed : ReadNames(r, s)
       \/ Enter(r) \/ NoAnswer(r) \/ AskColumns(r) \/ ReadColumns(r) \/ Compute(r)
  \/ \E k \in DOMAIN cache : Purge(k)

BoardRequest ==
  \E s \in Signed :
    \/ \E b \in New(board), scope \in {"private", "project"} : CreateBoard(s, b, scope)
    \/ \E b \in Board :
         \/ DeleteBoard(s, b)
         \/ \E active \in BOOLEAN, scope \in {"private", "project"} : PatchBoard(s, b, active, scope)

WidgetRequest ==
  \E s \in Signed :
    \/ \E w \in New(widget), b \in Board, t \in Table : AddWidget(s, w, b, t)
    \/ \E w \in There(widget) :
         \/ DeleteWidget(s, w)
         \/ \E t \in Table : PatchWidget(s, w, t)

SharingRequest ==
  \E s \in Signed :
    \/ \E b \in Board, u \in User :
         \/ DeleteShare(s, b, u)
         \/ \E level \in {"view", "edit"} : UpsertShare(s, b, u, level)
         \/ \E edit \in BOOLEAN : SendInvite(s, b, u, edit)
    \/ \E n \in invite \cup (IF slow[1] = "accept" THEN {slow[3]} ELSE {}) :
         AcceptInvite(s, n) \/ RejectInvite(s, n)

TransferRequest ==
  \E s \in Signed, b \in Board, from \in User, to \in User : TransferBoard(s, b, from, to)

Next ==
  \/ "session" \in open /\ (SessionRequest \/ EndOfSessions)
  \/ "map" \in open /\ MapRequest
  \/ "etl" \in open /\ (EtlRequest \/ Load \/ BatchRequest \/ Following)
  \/ "save" \in open /\ (SaveRequest \/ \E w \in Worker : SaveWorker(w))
  \/ "guard" \in open /\ Guard
  \/ "board" \in open /\ (BoardRequest \/ WidgetRequest \/ SharingRequest \/ TransferRequest)
  \/ "board" \in open /\ (HandedOver \/ HandOverFails)
  \/ Abandon

Spec == Init /\ [][Next]_vars

-----------------------------------------------------------------------------

(* A session that was logged out of, or ended by a suspension or a change   *)
(* of password, is not open again (service.py: every renewal asks for the   *)
(* expiry first), but by a renewal that had asked before it ended.          *)
EndedStays ==
  [][\A s \in Session \ unchecked' :
       session[s].at = "ended" => session[s].at' = "ended"]_vars

(* Once a change of password is through, no session lives on that began     *)
(* with an older one (change_password, invalidate_all_sessions), unless the *)
(* second transaction failed.                                               *)
NewPasswordEnds ==
  \A s \in Session \ unchecked :
    LET u == session[s].of
    IN Open(s) /\ session[s].pw # account[u].pw => ending[u] > 0 \/ u \in left

(* A table that a project has mapped can be read: no deletion that asks for *)
(* mappings takes it away, however it meets one being added or a save being *)
(* given (delete_etl_table, add_project_table_mapping), unless the table is *)
(* loaded or saved under that very deletion, or the load made none.         *)
MappedTablesExist ==
  \A p \in Project, t \in Table \ (dropped \cup unchecked) :
    map[p][t] # {} => table[t] # NotMade

(* What a registration has loaded stays while the registration does: the    *)
(* deletion of another one does not take the table along.                   *)
LoadedTablesStay ==
  \A e \in There(etl) :
    /\ etl[e].loaded
    /\ ~(deleting[1] = "etl" /\ deleting[2] = e)
    /\ etl[e].target \notin dropped \cup unchecked
    => table[etl[e].target] # NotMade

(* The list of ETL targets names batches that are there                     *)
(* (clear_batch_job_from_registry), unless one was deleted while its entry  *)
(* was still to be written, by its creation or by a GET of the list.        *)
TargetsNameBatches ==
  \A t \in Table : registry[t] # NoBatch => batch[registry[t]].at = "there" \/ registry[t] \in overtaken

(* A table that a queued query made is there only while its row runs, or    *)
(* says so: what a failed or cancelled row has begun is undone              *)
(* (_drop_orphan_saved_physical_table_if_any), unless the worker did not    *)
(* learn what became of a statement.                                        *)
NoOrphans ==
  \A t \in Table, j \in Job \ unsure :
    table[t] = Saved(j) => job[j].status = "running" \/ job[j].result

(* A row that says its table is there tells the truth, and the table can be *)
(* given to projects, until somebody has it dropped; it is the row's own,   *)
(* until a full load puts another one in its place.                         *)
ResultsExist ==
  \A j \in Job \ unsure :
    LET t == job[j].name
    IN job[j].result /\ t \notin gone =>
         /\ table[t] # NotMade /\ t \in master
         /\ t \notin replaced => table[t] = Saved(j)

(* The answer that the cache has for a project speaks of the tables that    *)
(* the project may query now, unless they changed under its computation     *)
(* (_compute_relationships_all, relationship_cache_key).                    *)
CacheFits ==
  \A p \in Project :
    LET names == AllowedTables(p)
        k == CacheKey(p, names)
    IN Cached(k) /\ k \notin moved => cache[k] = [columns |-> names, keys |-> names]

(* Whoever put a widget on a board still has the board, as its owner or by  *)
(* a share: whoever loses either has had the widgets handed on              *)
(* (delete_share, transfer_resource_ownership), but for those that came     *)
(* between that and its end.                                                *)
CreatorsBelong ==
  \A w \in There(widget) \ (unchecked \cup missed) :
    LET b == widget[w].board
    IN widget[w].by = board[b].owner \/ share[b][widget[w].by] # "none"

(* An invitation that can be taken up is to a board that is there           *)
(* (delete_board takes its notes along), unless it was sent while the board *)
(* was being deleted.                                                       *)
InvitesHaveBoards ==
  \A n \in invite : n.board \notin unchecked => board[n.board].at = "there"

=============================================================================
