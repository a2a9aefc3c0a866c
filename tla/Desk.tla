--------------------------------- MODULE Desk ---------------------------------
(***************************************************************************)
(* What the signed-in users of a project work on: sessions, the tables of  *)
(* the main database and what the system database says of them, the        *)
(* queries saved as tables, the cache of relationships, the widget boards. *)
(*                                                                         *)
(* As in module Org, a handler checks and writes in one transaction that   *)
(* locks nothing, so that others may run in between; Request says so once. *)
(***************************************************************************)
EXTENDS Naturals, Sequences, FiniteSets

CONSTANTS
  User, OrgAdmin, EtlUser,  \* accounts; those who administer, those who have the ETL
  Session, Project,
  Grants,                   \* what a participant's template allows, {} for others
  Table,                    \* names of tables in the main database
  Etl, Conn, Batch,         \* etl_tables, etl_connections, batch_jobs
  Worker, MaxJobs,          \* save workers; bound: rows of report_save_queue
  Reader, MaxHeavy,         \* requests for relationships; permits of the semaphore
  Board, Widget,
  StartsWith,               \* pairs of boards: the first one's id starts with the other's
  NoUser, NoProject, NoTable, NoConn, NoEtl, NoBatch,
  MaxPasswords, MaxRequests \* bounds: changes of a password, requests sent

Job == 1..MaxJobs

ASSUME DeskAssumption ==
  /\ OrgAdmin \subseteq User /\ EtlUser \subseteq User
  /\ Grants \in [Project -> [User -> SUBSET {"query.read", "query.execute", "widgetboard"}]]
  /\ StartsWith \subseteq Board \X Board /\ Project # {}
  /\ NoUser \notin User /\ NoProject \notin Project /\ NoTable \notin Table
  /\ NoConn \notin Conn /\ NoEtl \notin Etl /\ NoBatch \notin Batch
  /\ MaxJobs \in Nat /\ MaxHeavy \in Nat \ {0}
  /\ MaxPasswords \in Nat /\ MaxRequests \in Nat

VARIABLES
  account, session,        \* user_info, session_log
  ending, left,            \* changed passwords whose sessions are still to end; history: or were not
  project,                 \* project_info: active_yn and feature_flags
  table,                   \* the tables that exist, and who made each
  master,                  \* table_master: the tables that can be given to projects
  map,                     \* table_project_mapping: what each project uses a table for
  gone, dropped,           \* history: tables dropped on request; dropped, or not made, unasked who uses them
  replaced,                \* history: tables that a full load made anew
  conn, etl, batch,
  load,                    \* how far the load of each registration is
  registry,                \* etl_batch_target_registry
  scheduled,               \* batches that the scheduler of the process runs
  deleting,                \* a deletion that has dropped its tables and not its rows yet; of an
                           \* etl_table: its batches, and whether there was a table master
  listing,                 \* batches that a GET of the registry has read and is to enter
  leaving,                 \* batches cleared from the registry whose rows go next, and the table to drop
  overtaken,               \* history: batches deleted, or cleared, with their entry still being written
  job, worker, unsure,     \* report_save_queue; history: jobs of which a statement's end was not learnt
  cache, reader,           \* peak_guard: results under their keys; requests that compute them
  moved,                   \* history: keys computed while the names they stand for changed
  board, share, widget, invite,
  handing,                 \* a transaction that hands widgets over and is not committed
  missed,                  \* history: widgets that came meanwhile from the one who loses the board
  open,                    \* which parts of the system something happens in, while an instance lasts
  apart,                   \* whether the ETL has a system database of its own
  slow,                    \* the request that has made its checks and has not written yet
  requests,                \* how many more are sent
  unchecked                \* history: what a request wrote that its checks did not allow then

access == <<account, session, ending, left>>
tables == <<project, table, master, map, gone, dropped, replaced>>
batches == <<batch, registry, scheduled, listing, leaving, overtaken>>
loads == <<conn, etl, load, deleting, batches>>
saving == <<job, worker, unsure>>
caching == <<cache, reader, moved>>
boards == <<board, share, widget, invite, handing, missed>>
data == <<access, tables, loads, saving, caching, boards, open, apart>>
vars == <<data, slow, requests, unchecked>>

Permission == {"query.read", "query.execute", "widgetboard"}
Usage == SUBSET {"query", "widget"}
Nothing == <<"none">>
NotMade == <<>>
Loaded == <<"load">>
Saved(j) == <<"job", j>>

Account == [at : {"new", "there"}, active : BOOLEAN, pw : 0..MaxPasswords, code : BOOLEAN]
Login == [at : {"new", "open", "ended"}, of : User \cup {NoUser}, pw : 0..MaxPasswords,
          claim : Project \cup {NoProject}]
Undertaking == [active : BOOLEAN, flags : Usage]
Source == [at : {"new", "there", "gone"}, file : BOOLEAN]
Registration == [at : {"new", "there", "gone"}, conn : Conn \cup {NoConn}, target : Table \cup {NoTable},
                 source : Table \cup {NoTable}, loaded : BOOLEAN]
BatchJob == [at : {"new", "there", "gone"}, etl : Etl \cup {NoEtl}, target : Table \cup {NoTable},
             active : BOOLEAN, todo : {"register", "schedule", "done"}]
Save == [status : {"new", "queued", "running", "completed", "failed", "cancelled"},
         name : Table \cup {NoTable}, project : Project \cup {NoProject}, hints : BOOLEAN,
         result : BOOLEAN]
Saver == [pc : {"idle", "claimed", "made", "noted", "registered", "orphan", "failing"},
          job : Job \cup {0}, ok : BOOLEAN]
Key == [project : Project, names : SUBSET Table]
Lookup == [pc : {"idle", "named", "computing", "columns", "known"}, key : Key, names : SUBSET Table,
           columns : SUBSET Table, steady : BOOLEAN]
Answer == [columns : SUBSET Table, keys : SUBSET Table]
WidgetBoard == [at : {"new", "there", "gone"}, active : BOOLEAN, owner : User \cup {NoUser},
                project : Project \cup {NoProject}, scope : {"private", "project"}]
Item == [at : {"new", "there", "gone"}, board : Board, by : User \cup {NoUser}, table : Table \cup {NoTable}]
Invite == [to : User, board : Board, by : User, edit : BOOLEAN, read : BOOLEAN]

TypeOK ==
  /\ account \in [User -> Account] /\ session \in [Session -> Login]
  /\ ending \in [User -> Nat] /\ left \subseteq User
  /\ project \in [Project -> Undertaking]
  /\ table \in [Table -> {NotMade, Loaded} \cup {Saved(j) : j \in Job}]
  /\ master \subseteq Table /\ map \in [Project -> [Table -> Usage]]
  /\ gone \subseteq Table /\ dropped \subseteq Table /\ replaced \subseteq Table
  /\ conn \in [Conn -> Source] /\ etl \in [Etl -> Registration] /\ batch \in [Batch -> BatchJob]
  /\ load \in [Etl -> {"idle", "fresh", "made", "noted"}]
  /\ registry \in [Table -> Batch \cup {NoBatch}] /\ scheduled \subseteq Batch
  /\ deleting \in {Nothing} \cup ({"etl"} \X Etl \X (SUBSET Batch) \X BOOLEAN) \cup ({"conn"} \X Conn)
  /\ listing \subseteq Batch /\ leaving \subseteq Batch \X (Table \cup {NoTable}) /\ overtaken \subseteq Batch
  /\ job \in [Job -> Save] /\ worker \in [Worker -> Saver] /\ unsure \subseteq Job
  /\ DOMAIN cache \subseteq Key /\ \A k \in DOMAIN cache : cache[k] \in Answer
  /\ reader \in [Reader -> Lookup] /\ moved \subseteq Key
  /\ board \in [Board -> WidgetBoard] /\ widget \in [Widget -> Item]
  /\ share \in [Board -> [User -> {"none", "view", "edit"}]] /\ invite \subseteq Invite
  /\ handing \in {Nothing} \cup ({"unshare", "transfer"} \X Board \X User \X User \X (SUBSET Widget))
  /\ missed \subseteq Widget
  /\ requests \in 0..MaxRequests

There(f) == {x \in DOMAIN f : f[x].at = "there"}
New(f) == {x \in DOMAIN f : f[x].at = "new"}

-----------------------------------------------------------------------------
(* Who may do what.                                                         *)

(* require_access_session_bound: the token is the one last given out, and   *)
(* the session's refresh_exprtn_dtm is to come.                             *)
Open(s) == session[s].at = "open"

(* require_active_access                                                    *)
Bound(s) == Open(s) /\ account[session[s].of].active

Acts(s, users) == Bound(s) /\ session[s].of \in users

(* The feature flags of a project turn permissions of its templates off.    *)
Enabled(p) ==
  UNION {CASE f = "query" -> {"query.read", "query.execute"} [] OTHER -> {"widgetboard"} :
         f \in project[p].flags}

(* require_permission: the project is the one that the token claims.        *)
Allowed(s, permission) ==
  /\ Bound(s)
  /\ session[s].claim # NoProject
  /\ project[session[s].claim].active
  /\ permission \in Grants[session[s].claim][session[s].of] \cap Enabled(session[s].claim)

(* The foreign keys that a write here could break.                          *)
References ==
  /\ \A p \in Project, t \in Table : map[p][t] # {} => t \in master
  /\ \A e \in There(etl) : etl[e].conn \in There(conn) \cup {NoConn}
  /\ \A b \in There(batch) : batch[b].etl \in There(etl) \cup {NoEtl}
  /\ \A w \in There(widget) : widget[w].board \in There(board)
  /\ \A b \in Board, u \in User : share[b][u] # "none" => b \in There(board)

(* A table master that another transaction has deleted and not committed    *)
(* makes those wait who refer to it or insert it again; when there was none *)
(* to delete, nobody waits.                                                 *)
FreeAnyway(t) == TRUE
Free(t) == ~(deleting[1] = "etl" /\ etl[deleting[2]].target = t /\ deleting[4])

(* A handler: its checks hold, and it writes, at once or after others have. *)
Request(part, q, checks, touched, writes) ==
  /\ part \in open
  /\ \/ /\ slow = Nothing /\ requests > 1
        /\ checks
        /\ slow' = q /\ requests' = requests - 1
        /\ UNCHANGED <<data, unchecked>>
     \/ /\ requests > 0
        /\ checks /\ writes /\ References'
        /\ requests' = requests - 1
        /\ UNCHANGED <<slow, unchecked, open, apart>>
     \/ /\ slow = q
        /\ writes /\ References'
        /\ slow' = Nothing
        /\ unchecked' = unchecked \cup (IF checks THEN {} ELSE touched)
        /\ UNCHANGED <<requests, open, apart>>

(* A statement fails, or the client is gone: rolled back.                   *)
Abandon ==
  /\ slow # Nothing
  /\ slow' = Nothing
  /\ UNCHANGED <<data, requests, unchecked>>

(* What goes on by itself, outside of requests.                             *)
Quietly(part) == part \in open /\ UNCHANGED <<slow, requests, unchecked, open, apart>>

=============================================================================
