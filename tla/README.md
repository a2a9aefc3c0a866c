# Verification of the Ibank BI backend

Ibank BI is a no-code query builder, dashboard and ETL product: a FastAPI backend
(`src/Backend`), a React client (`src/Frontend`) and PostgreSQL databases. This
directory holds TLA+ models of the backend's stateful parts, the TLC
configurations that check them on small instances, and TLAPS proofs of the
properties that matter most for every value of the constants.

Paths below are relative to the repository. `PROJECT.json` lists, for every
definition that models code, the file and lines it stands for.

## 1. The system

One API process (uvicorn, `run.py back`) assembles the routers in
`Backend/api_server/main.py` and runs every handler in a thread pool. Beside the
handlers it has these threads of its own:

* the ETL queue worker with a pool of three threads (`etl_server/queue_worker.py`),
* one daemon thread per run of a file table, outside that pool (`etl_server/router.py`),
* APScheduler with three threads that execute batch jobs (`etl_server/scheduler_file.py`),
* daemon threads that save a query as a table (`query_studio_server/router.py`).

They share no locks worth the name; they meet in the rows of the system database
(`system_db`: ETL metadata, users, sessions, projects, boards) and in the tables
of the target databases. Almost every function opens a connection, runs one
transaction and closes it, and most operations are sequences of such
transactions. That is where the hard behaviour is: *a row is read in one
transaction, decided on, and written in a later one*, while another thread, a
cancel, a deletion or a restart comes in between.

## 2. Inventory

For every component: its state, its operations, whom it talks to, what is hard,
and what makes it correct. The last column of `PROJECT.json` "components" says
how far it is modelled.

### 2.1 ETL job queue (`etl_server/queue_worker.py`, `service.py`, `router.py`)
* State: `etl_jobs.status` (pending, running, completed, failed, cancelled),
  `created_at`, `add_file_path`; the worker thread, its executor and its queue.
* Operations: enqueue (run of a database table, added files), run of a file table
  on its own thread, claim (`FOR UPDATE SKIP LOCKED`), submission to the pool,
  the choice of the load function, the load with its cancellation checks,
  `update_job`, cancel, delete, lazy start of the worker, shutdown, crash, restart.
* Interactions: handlers write rows the worker polls; loads read the row to see
  a cancellation; deletion of a table deletes jobs under the threads' feet.
* Hard: claim against cancel and delete; a row set running by its load whatever
  it says by then; rows left running; the count of running rows as capacity.
* Correct if: a job is run once at most, never after its withdrawal, and an
  enqueued job ends unless the process or the database fails.

### 2.2 Loads into a target table (`load_service.py`, `db_load_service.py`, `load_service_file.py`)
* State: the target table, `etl_tables.last_synced_at`, `sync_mode`, the job row.
* Operations: full load (drop, create, insert), incremental upsert after
  `last_synced_at`, primary-key diff, upsert of an added file, row-by-row
  fallback, creation of indexes, entry in `table_master`.
* Hard: drop and create are committed before the first insert; batches commit one
  by one; the checkpoint moves after the data; a limit on rows cuts an unordered
  query; two loads of one table at once; a crash between any two of these.
* Correct if: no source row is passed over for good, a failed row does not take
  others with it, a full load leaves what it read, and a cancelled load does not
  remove another one's table.

### 2.3 Batch jobs and scheduler (`scheduler_file.py`, `batch_executor_*.py`, `service_file.py`, `router_file.py`)
* State: `batch_jobs.is_active`, `last_run_status`; `batch_run_history`; the
  scheduler's entries; per job `last_processed_ts`, `last_synced_at`.
* Operations: interval and one-shot execution, claim of the job, a run with its
  files or batches, cancel of a run, toggle, patch, delete, automatic disabling
  after five failures, reload of active jobs at start.
* Hard: interval and run-now start together; the row and the scheduler are
  written in two steps; cancel and toggle clear the claim of an executor at work;
  nothing is reset after a crash.
* Correct if: one executor at a time is in a run, its claim comes back, and the
  scheduler has exactly the active jobs.

### 2.4 File checkpoint of a folder batch (`batch_executor_file.py`, `parser_file.py`, `folder_adapter_file.py`)
* State: `last_processed_ts`, checksums and file lists in `batch_run_history`,
  `batch_loaded_keys`.
* Operations: list, filter by pattern and timestamp, skip by history, size and
  checksum, load, advance the checkpoint, roll a file back, reset the checkpoint.
* Hard: the checkpoint moves past failed files and past files of equal timestamp;
  a crash between the commit of a file and its checkpoint.

### 2.5 Authentication and sessions (`auth_server`)
* State: `user_info` (password, lock, activity, one-time code), `session_log`
  (hashes and expiry of the current tokens, the claimed project), `email_invite_code_master`.
* Operations: invitation, signup, password and code login, refresh and rotation
  of tokens, logout, change of password, end of all sessions.
* Hard: refresh reads the session in one statement and writes it in another, so
  it can undo a logout or a change of password in between; an invitation is
  checked before it is consumed.
* Correct if: a session that was ended stays ended, and an invitation admits one.

### 2.6 Users, roles, projects, invitations (`admin_server`, `project_server`, `notification_server`)
* State: departments (a tree), users and their division (`sa`, `a`, `o`, `u`),
  roles, projects, participants, table mappings, owners of resources,
  notifications that carry invitations.
* Operations: invite, accept, reject, cancel, add, remove, change role, suspend,
  delete, transfer ownership, deactivate and purge a project.
* Hard: rules that span several tables and are checked before they are relied
  on; an invitation accepted while it is cancelled or the project deactivated.
* Correct if: no resource is left to somebody who may not own it, no participant
  has a role of another project, and an invitation is answered once.

### 2.7 Registrations, targets, mappings (`etl_server/service.py`, `service_file.py`, `admin_server/service_tables.py`)
* State: `etl_connections`, `etl_tables`, `batch_jobs`, `etl_batch_target_registry`,
  `table_master`, `table_project_mapping`, and the tables themselves.
* Operations: register, load, give a table to a project, take it away, delete a
  registration with or without its table, a connection, a batch, a batch's target.
* Hard: a deletion asks its questions, drops the table in one database and its
  rows in another; a mapping, a load or a batch comes in between.
* Correct if: no project has a table that is gone, no deletion takes away what
  another registration has loaded, and the list of targets names real batches.

### 2.8 Widget boards (`widget_board_server`)
* State: boards, widgets, layout, shares, invitations by notification.
* Operations: create, patch, delete, add and change widgets, share, invite, accept, reject.
* Hard: shares beside pending invitations; a share that ends while its holder
  adds a widget; notes found by the text of their payload.
* Correct if: whoever has a widget on a board has the board, and an invitation
  leads to a board that is there.

### 2.9 Query studio and peak guard (`query_studio_server`)
* State: sliding windows of requests per user, a cache with expiry, a semaphore;
  `report_save_queue` and the threads that take its rows.
* Operations: execute query, relationships under the semaphore, save as table,
  cancel, requeue.
* Hard: a query is saved by five commits in two databases and undone by hand; the
  names that make a cache key are read again before the result is computed.
* Correct if: a table that was made is spoken of by its row, a row that says so
  tells the truth, and a cached answer is about the tables of its key.

### 2.10 The rest
Campaign dashboards (read-only queries), system log and change tracking
(append-only), mail (SMTP), API assembly, connection pools (`core/db.py`),
the transform engine (pure functions on data frames), previews and schema
inference, and the client. See section 7.

## 3. Modules

| Module | What it is |
|---|---|
| `EtlJobQueue` | the job queue of 2.1 |
| `JobExecution` | abstract specification: a job is executed at most once |
| `EtlJobQueueProofs` | TLAPS proofs about `EtlJobQueue` and its refinement of `JobExecution` |
| `BatchRun` | one batch job of 2.3: claim, runs, scheduler entry, administrators |
| `BatchRunProofs` | TLAPS proofs about `BatchRun` |
| `DbLoad` | the loads of one database table of 2.2, by jobs and by its batch |
| `DbLoadProofs` | TLAPS proofs about `DbLoad` |
| `FileBatch` | the files of a folder batch of 2.4: checkpoint, history, keys, roll back |
| `FileBatchProofs` | TLAPS proofs about `FileBatch` |
| `Org` | people and what they own: the state of 2.6, who may act on whom, what a request is |
| `Accounts`, `Projects`, `Assets` | the requests about accounts, about departments, templates and projects, about what somebody owns |
| `Organisation` | the three together on one database, with the properties |
| `OrganisationProofs` | TLAPS proofs about `Organisation` |
| `Desk` | the state of what users work on (2.5, 2.7 to 2.9), permissions, what a request is |
| `Sessions`, `TargetTables`, `SavedTables`, `Relationships`, `Boards` | 2.5, 2.7, the save queue and the cache of 2.9, 2.8 |
| `Workspace` | the five together on one system and one main database, with the properties |
| `WorkspaceProofs` | TLAPS proofs about `Workspace`: what each part leaves alone, and the sessions |
| `TableProofs` | what connections, registrations, loads and batches do to the tables and leave to the others; the workers that save queries; the theorems about tables |
| `BoardProofs` | the cache, the boards, and the types of the whole |
| `MCEtlJobQueue`, `MCBatchRun`, `MCDbLoad`, `MCFileBatch`, `MCOrganisation`, `MCWorkspace` | instances for TLC: symmetry sets, time stamps, what there is to start with |

### 3.1 EtlJobQueue

`status`, `kind`, `created` are the columns of `etl_jobs`; `worker`, `take`,
`held`, `pool` the state of `_worker_loop`, `run_worker_iteration` and the
executor; `pc`, `job`, `mode`, `done`, `res` what a thread in `_run_one_job` or
in the thread of a file run has in its variables. A step is one transaction, or
one operation on the executor:

| Action | Code |
|---|---|
| `Enqueue`, `RunFile` | `insert_job` in the handlers, then `start_background_worker` or a thread |
| `CountRunning`, `Claim`, `Submit` | the three parts of `run_worker_iteration` |
| `PickUp`, `Dispatch` | a pool thread takes the job and reads its row to choose the load |
| `Enter`, `LoadBatch`, `StopOnCancel`, `EndLoad` | `set_job_running`, the loop with `is_job_cancelled`, its ends |
| `Record`, `RecordTable` | `update_job`, `update_etl_table_status` |
| `CancelRead`, `CancelWrite`, `DeleteJob` | the handlers, in the transactions they use |
| `QueryFails`, `ClaimFails` | an exception of the system database in a thread or in the worker |
| `Crash`, `Shutdown`, `Exit`, `Restart` | death or orderly end of the process, and its next life |

The two handlers of a cancel are two steps because the code reads the job in one
connection and updates it in another. A load is a bounded number of batches;
what it writes is not part of this module.

`JobExecution` states the promise: a job is new, waiting, taken, over, in that
order, and taken once. `phaseBar` in `EtlJobQueue` maps the rows and hands to it.

### 3.2 BatchRun

One row of `batch_jobs`, its runs, its interval entry and its one-shot entries.
Executors are the scheduler's threads as far as they run this job; `pc` follows
`run_batch_job` and `run_db_batch_job` from one transaction to the next:
`list` (folder listed, not yet claimed), `claim`, `create`, `work`, `finish`
(before `finish_run`), `status` (before `update_job_status`), `check`, `remove`
(automatic disabling), and `recover`, `giveback` in the exception handler.
Administrators' requests are small programs as well: a toggle reads, writes,
marks runs, reads again and calls the scheduler; a patch moves the interval entry
first, which raises when there is none (`Reschedule`). Any of them may fail between
two of its steps (`RequestFails`). A deletion takes the entry out of the scheduler and
then deletes the rows, which a run inserted meanwhile can undo (`DeleteRows`);
`DELETE /etl/tables/{id}/row` deletes the rows of a registration's batches and tells
the scheduler nothing (`DeleteWithRegistration`), so that the entry stays, and returns
at its first check whenever it fires.

Three history variables make the properties exact. `released` says that the claim
of an executor was given back by somebody else, which the code does in a cancel,
in a toggle, and in an execution that finds nothing to load. `raced` says that
two writers of `is_active` overlapped between the row and the scheduler, or that one
failed between the two. `forgotten` says that the row went with its registration.
The last two end with the process, whose successor schedules what the rows say.

### 3.3 DbLoad

One row of `etl_tables` with a database source, its source table and its target
table. A source row is a key with a version; versions are numbered in the order
in which they are written, and `Stamp` gives the incremental column of each, so
that several versions may share a time stamp. `Rejected` are versions the target
refuses. `lastSynced` is the checkpoint of the row, `batchSynced` that of the
batch job of the row, which asks for `>=` where a job asks for `>`.

A load's variables are a record in `load`: `read` are the rows its cursor will
return, with the versions they had when the SELECT began, `left` those still to
come, `newest` the newest stamp among those loaded, `count` the rows counted,
`failed` and `lost` those recorded as failed and those that did not get into the
target. A step is a transaction:

| Action | Code |
|---|---|
| `Start`, `Extract` | `run_db_load` up to its SELECT |
| `Prepare` | the second reading of `sync_mode`, DROP and CREATE or CREATE, commit |
| `LoadBatch` | `fetchmany`, cut at `max_rows_per_load`, COPY or upsert, row fallback, commit |
| `Cancel`, `Fail`, `Finish` | the three ways out; only `Finish` writes the checkpoint |
| `ReadSourceKeys` ... `DeleteOrphans` | `_run_diff_sync` |
| `BatchStart` ... `BatchMarkTable` | `run_db_batch_job`, whose two checkpoints are two transactions |
| `SourceWrite`, `SourceDelete`, `Configure` | the source system; `update_etl_table` |

What the code does with rows at its edges is in `risk`, a history: a write got a
stamp that was read already (`tie`, `passed`), loads overlapped, the table was
emptied, rows were skipped, a limit or a cancelled batch cut an unordered cursor.
A load that reads everything, alone, and loses nothing makes the table whole and
takes these risks away. The properties say what holds under which risks.

### 3.4 FileBatch

One folder batch: files with the stamp of their name, a content (equal contents
have equal checksums) and the kind of each content: rows, none, too large, not
readable. `checkpoint` is `last_processed_ts`, `history` the rows of
`batch_run_history` with their file lists, `loadedKeys` is `batch_loaded_keys`,
and `target` says for each key which run and file wrote its row. An executor goes
through `run_batch_job` one commit at a time: listing (`Look`), claim, then for
each file `Settle` (the tests before a load), `Write`, `Commit`, `Advance` (the
checkpoint), `Progress` (the history), and the ends of the run. `Raise`, `Recover`
and `GiveBack` are its exception handlers, `Crash` ends the process anywhere.
Administrators cancel, reset the checkpoint, delete remote files, and roll a file
back in the three transactions that `rollback_file_from_target` uses.

`excused` names the files that the checkpoint passes for good and why: they came too
late (`Arrive`), an administrator moved the checkpoint over them (`ResetTs`), a failed
one's entry was lost with its run, or a run ended, by a cancellation, an error or a crash,
before it came to them (`PassedBy`): because they have the stamp it had reached, because
its own listing was stale, or because another run passes them that listed the folder
without them, even if the checkpoint is moved back meanwhile (`Overtaken`). The last case
was found by the proof of `PassedIsAccounted` and needs two requests of administrators;
`filebatch_safety` allows one. `loose` and `unkeyed` name what a failure between two
commits leaves; `fresh` marks an executor whose listing is not stale.

### 3.5 Organisation

A handler of the API checks and writes in one transaction at READ COMMITTED and
locks nothing. `Request` in `Org` says this once for every handler: the checks and
the writes in one step, or the checks now and the writes later (`slow` keeps the
request), with the conditions of its UPDATE and the foreign keys (`References`)
still deciding. At most one request is `slow` at a time: two that overlap are what
the hazards need. What it writes when its checks hold no more goes into the history
`unchecked`; `unguarded` names those whom a route changes that never asks what they
own (PATCH role), `late` those who joined in the name of somebody suspended.

`Accounts` has suspension, activation, deletion, role, ETL flag, PUT management,
invitation by mail, sign-up and departments; `Projects` templates, projects,
participants, invitations; `Assets` what somebody may own and the seven kinds of
transfer. `etlUp` says whether the ETL database can be reached when the guard
looks. Left out: feature flags (all on), expiry of invitations, the activity of
boards, equal notes (they count as one), the use of an address a second time.

`Tree` is what the recursive query of `_dptmt_id_in_managed_subtree` computes: the
least set with the department that is closed under children, so that it means
something for any parents that the rows name. A request that creates a template or a
project reads the administrator's department when it checks and writes that one, which
need not be his any more. A behaviour starts in any office (`Offices`) in which the
foreign keys and the two rules hold already; whatever is there has somebody who had an
account as its owner (`Registered`), although for tables and ETL registrations no
foreign key says so.

### 3.6 Workspace

`Desk` has the state and the same `Request`. Besides requests there is what goes on
by itself (`Quietly`): the second transaction of a change of password, loads, the rows
of a deletion after its table, the entry of a batch in the list of targets, the workers
that save queries, the readers of relationships, the end of a handing over.

| Module | Actions and code |
|---|---|
| `Sessions` | login, verification, refresh, choice and loss of a project, logout, suspension, and PATCH password with `InvalidateAllSessions` or `InvalidateFails` in a transaction of its own |
| `TargetTables` | connections and registrations; loads in three commits: the table (`LoadTable`), the table master hook (`RecordMaster`), the status (`RecordLoad`); three deletions (`DeleteEtlTable` drops, `DeletedEtlTable` or `DeletionFails` ends it); batches, and their entry in the registry by their creation (`RegisterTarget`) and by a GET of the list that has read them before (`ReadBatches`, `EnterListed`); mappings and PUT project |
| `SavedTables` | the save queue; a worker's commits one by one, each of which may fail or stay unanswered, and what it undoes |
| `Relationships` | key, look-up, permit, the three readings of a computation, purge |
| `Boards` | boards, widgets, shares, invitations by note; a share that is taken away and a board that is transferred, each in two steps: the UPDATE of the widgets (`DeleteShare`, `TransferBoard`) and the rest with the commit (`HandedOver`, `HandOverFails`) |

A full load drops and recreates the table of its name, whoever made it; one that reads
nothing makes no table and is recorded all the same; one that is cancelled drops what it
made. The deletion of a registration holds the row of its table master until it commits,
and so makes hook and mapping wait, but only if there was a row to delete: `Free` says
who waits, and `deleting` remembers whether there was one. `apart` says whether the ETL
has a system database of its own, as `config.json` allows: its deletion then finds no
mapping to count and locks no table master. In a handing over the widgets that the UPDATE
found are locked (`Held`), and those of a transferred board with it (`HeldBoard`); the
board can still be given widgets.

History variables name what the code does not prevent, so that each property says
exactly of which states it speaks. `unchecked` as above. `left`: users whose sessions
were not ended by the second transaction. `dropped`: tables taken away by a deletion
that asks nobody (of a connection, of a batch's target, with a database apart), or
while they were being loaded or saved, or whose rows stayed, by a save that was undone
or a load that was cancelled, and tables that a load recorded and did not make.
`replaced`: tables that a full load made anew. `overtaken`: batches deleted, or cleared
from the registry, while their entry was still to be written. `unsure`: rows of which
the worker did not learn how a statement ended. `moved`: cache keys whose tables
changed under the computation. `missed`: widgets that came from the one who loses the
board between the two steps of a handing over. Each is a hazard in `PROJECT.json`.

Bounds of the model itself: one deletion of a table, one handing over and one listing
of targets at a time, one load of a registration at a time (two registrations of one
table do load it at once). What two handings over of one board would do is decided by
the row locks, which let the second wait for the first. Loads of a folder batch, which
have no registration, are the subject of `FileBatch` only.

Time does not pass: a code, a session or an invitation does not expire, and the
cache's time to live is `Purge`. Tokens are not told apart: whoever calls with a
session holds its last one. Who takes part in a project, and with what template, is
constant here (`Grants`) and the subject of `Organisation`.

A behaviour starts in a scene: a state of the database in which nobody is in the
middle of anything and every row refers to rows that are there (`Settled`). `Scenes`
is a constant, so that TLC starts where the interesting cases are near and the proofs
hold for every such state.

## 4. Runs

| Run | Instance | What it shows |
|---|---|---|
| `queue_safety` | 2 jobs (added file, file run), pool of 2, a crash or shutdown, one failing query | the safety properties and the refinement of `JobExecution` |
| `queue_live` | 2 jobs of three kinds, pool of 1, no failure | every enqueued job ends |
| `queue_addfile` | 1 job | violated: a claimed job of an added file whose row is deleted replaces its table |
| `queue_cancel` | 1 job | violated: a cancel between claim and start is overwritten |
| `batch_safety` | 2 executors, 1 administrator, both job types, 2 runs, one fault or crash, deletion with and without the scheduler | the claim excludes and comes back, the scheduler follows `is_active` |
| `batch_overlap` | 3 executors of a folder batch | violated: an execution with nothing to do gives back another's claim |
| `batch_cancel` | 1 executor, 1 administrator, a database batch | violated: a cancelled run becomes a success |
| `dbload_safety` | 2 rows, 3 writes, 2 jobs and the batch with 2 loads in all, all modes, a refused version, limits 0 and 1, one change of the settings | what is behind a checkpoint is in the target; full and diff loads end as they should |
| `dbload_skip` | 2 rows, 1 job, 1 batch, a refused version | violated: skipping a refused row undoes rows before it |
| `filebatch_safety` | 2 executors, 3 files, 2 of one stamp and 2 of one content, 2 runs, one fault, one request | what the checkpoint passes is accounted for, nothing is loaded twice, every row can be rolled back, the history tells the truth |
| `organisation_safety` | 4 offices, 4 people, 2 requests | owners may own, inviters stay, outsiders consented, permissions are kept |
| `workspace_safety` | 14 scenes, 1 to 4 requests each, 2 workers, 2 readers, 2 registrations with a load each | ended sessions stay ended, a new password ends the old one's, mapped and loaded tables stay, no orphans, true results, a cache that fits, boards and their people |

Bounds. Two jobs and two threads are what it takes for two hands to reach for
one job and for one job to wait for another; a third adds only permutations of
the same conflicts. One batch per load is enough for a cancellation check to
come before, between and after the writes of the row. One crash and one fault
place them at every step of every thread. In `batch_safety` two executors suffice
for the claim to be contended; the overlap of three needs the third. Two runs
with a threshold of two reach the automatic disabling (five in the code) in its
shortest form. `MaxNow` bounds waiting one-shot entries, `MaxRuns` rows of history.
Of what its properties excuse (a claim given back, `released`; a disagreement with the
scheduler, `raced` or `forgotten`; the one failure) `batch_safety` goes on after one and
stops at a second (`OneExcuse`): what three excuses together would leave to check is
little, and all four properties are theorems without this bound.
In `dbload_safety` two rows are a batch before and a batch after the one in hand,
three versions with two stamps are a tie and a newer stamp, and two loads overlap
or follow one another; three loads of one job pass as well, in an instance too
large to keep. The fallback gives up after two equal errors instead of fifty.

In `filebatch_safety` the third file comes late, between the other two in time. In
`organisation_safety` two requests are one between the checks and the writes of
the other, or one after the other; the offices are rich enough that every
request is possible first. In `workspace_safety` a scene opens the parts of the
system that meet in it (mappings with deletions, saving with loads, the cache with
mappings, boards and invitations) and says how many requests come; three are one
that is slow, one that overtakes it, and one that uses what they left. The fourteen:
`Signing`; `Loading` (a table nobody has mapped), `Twice` (two registrations of it),
`Unlisted` (its table master was never made), `Separate` (an ETL database apart, a batch
in the registry), `Listing` (a batch in the registry and another to come); `Saving`,
`Racing` (the name that is being saved is registered for a load), `Crowded` (two queries
are saved under it), `Again` (a table saved before is to be saved, and loaded, again); `Asking` (the
cache); `Sharing`, `Inviting` and `Handing` (boards with a note, without a share, and
on their way to another owner). The workers, loads, second transactions and failures
are not counted. `MaxJobs` bounds the save queue,
`MaxPasswords` the changes of a password.

Symmetry is used over jobs, threads and files in the safety runs only, never under
liveness. Deadlock is not checked: when every job has ended and the bounds are
used up, the models stop, and so does the system, until the next request; the
two models of requests stop when the bound on them is reached.

## 5. Fairness

`queue_live` assumes weak fairness of the worker's loop, of the threads' steps,
of a process's exit and restart and of the second half of an accepted cancel:
each is a thread of the operating system that is never blocked by another one
(the executor and the database give every waiter its turn). Nothing is assumed
of clients: they need not enqueue, cancel or delete. The worker's poll is a
loop that always comes back, which is what weak fairness says. The
temporal property of `batch_cancel` is a step property; it is checked under the
same fairness of executors and handlers, so that its counterexample is an
execution the system completes.

## 6. Proofs

All theorems hold for any sets of jobs, processes, threads, executors,
administrators, users, tables and boards, and any bounds. The assumptions are those
the modules name: `QueueAssumption` (finitely many jobs, at least one process,
positive pool size), `BatchAssumption`, `DbLoadAssumption` (finitely many rows;
stamps that grow with the versions; positive batch sizes), `FileBatchAssumption`
(finitely many executors and files, positive stamps), and for the workspace
`DeskAssumption` (bounds are numbers, there is a project, nothing is at once two of
the things a name can stand for), `ScenesAssumption` (every scene has the types and is
`Settled`) and `ListsAssumption` (the PUT of a project's tables gives sets of tables);
for the organisation `OrgAssumption` (values that mean nobody or nothing are not among
the users, departments, templates or projects, every asset is of a kind) and
`OfficesAssumption` (the offices and the bodies of requests have the types).
TLC evaluates each of them in the instances.

**EtlJobQueueProofs.** `TypeOK` needs `Control`: that a worker which claims still
may take a job, that a submitting worker holds one, that a thread is idle exactly
if it has none. The inductive invariant is `TypeInv /\ HandsInv`, where `HandsInv`
joins `OneHandler`, `PendingUntouched`, `WithdrawnNeverRuns` and `NoZombie`: none
is inductive alone, since that a claim does not give a job to a second hand
follows from the fact that a pending row is in nobody's. `Handled` (who has which
job) changes by a few moves only, each with a lemma of its own; `MoveRefines`
turns them into the steps of `JobExecution`, which gives `Refinement`.

**BatchRunProofs.** `IInv` joins the types, `Control` (which program counters
have a run), `Claimed`, `Returned` and `Synced`. `Claimed`: while nobody gave a
claim back from outside, a holder implies that the row says running, so the
claim's test refuses the next. `Returned`: without failures a running row has a
holder, and a running run an executor before its `finish_run`. `Synced`: while no
writers of `is_active` overlapped, none failed half way and the row did not go with
its registration, at most one has yet to call the scheduler, and its call agrees with
the row. A patch that moves the interval is about to activate the job (`Control`), and
while it does there is an entry as long as there is a row. Each is shown step by step,
one lemma per conjunct.

**DbLoadProofs.** `LoadedStays` is not inductive: another load could write the
same rows. `Solo` says that a load marked as undisturbed is the only active one,
because whoever starts takes the mark from the others; `AllLeft` that an opened
cursor has all of its rows to come. With them a step of a load concerns only its
own rows (`SetStays`), and each action shows that what it takes from `left` is
written or in `lost`. The types need the maximum of a bounded set of numbers
(`MaxNat`) and what the row fallback keeps and counts (`FallbackType`).

The checkpoints need more, and `CInv` adds it to that invariant. A checkpoint
*vouches* for the source rows it has passed (`Passed`, `Vouched`): those up to it,
or, once a write has shared a stamp that was read already, those older than it.
`CheckpointsHold` says that they are fresh in the target. A load moves the
checkpoint only at its end, so its phases must carry what will be true then.
`Structure` is what they say of its variables whoever else is at work: the newest
stamp it will record is one that it has read, one batch works at a time, nobody
has read anything while nothing has been written, and each limit, overlap or lost
row is noted in `risk`. `Undisturbed` speaks of the load that is alone: before its
SELECT the rows it will not ask for are in the target (`Asks`); after it, no row that
a checkpoint, or its own mark, would vouch for has changed since it was read
(`Covers`), which is where the numbering of versions by their time of writing
enters; a full load has nothing in the target but what it has read (`Replaces`); a
diff load knows its orphans and has copied or still has every new key (`Compares`).
When loads overlap, freshness is lost but existence is not: `Overlapped` says that
rows a mark would vouch for are there, or read and still to come (`Shares`). The
proof shows these part by part for each action; `Set` of one load leaves the others'
parts alone, since whoever starts takes the mark `alone` from them. It gives
`CheckpointFresh`, `TiesReadAgain`, `OverlapKeepsRows`, and the action properties
`FullReplaces` and `DiffConverges`.

**FileBatchProofs.** All properties of `FileBatch`. `TypeInv` joins the types,
`Control` (what the program counter says of a record), that a run has one execution and
that those about to create one have room. For each action one lemma says what it does to
the record of its executor; `OneRecord` that nobody else's changes, but for a listing
that becomes stale. Five invariants are built on it. `NotesInv`: the list in a row is a
part of the results, all of them while the run may go on, and a file noted as loaded
was; it gives `HistoryIsTrue`. `RollInv`: only a file that is not pending any more has
keys, so that a request that has read them still has all of them when it deletes them;
it gives `RowsCanBeRolledBack`. `FreshInv`: while a listing is not stale nobody else
works, and the checkpoint, the file in hand and the files to come follow each other in
time; it gives `CheckpointAdvances`. `OnceInv`: a committed content is known as loaded, in
the history or by an executor (`KnownStays`), so nobody who tests the history writes
it; it gives `LoadedOnce`. `PassedInv` and `PassingInv`: what the checkpoint has passed,
and what some executor is about to pass, is done with or somebody has it before him;
`PassedIsAccounted` is not inductive without the second, since a checkpoint moves to
whatever an executor has in hand, and without `FreshInv`, since a run that ends with a
listing in order leaves nothing behind the checkpoint.

**OrganisationProofs.** The five properties of `organisation_safety`. The inductive
invariant `IInv` joins `TypeOK`, `References`, `Registered`, `OwnersCanOwn` and
`InvitersStay`; each of the two rules speaks of several tables, and any request may
touch one of them. So the proof first says what a request may do (`Lawful`), in parts
that each concern one side of a rule: it forgets no excuse (`Growing`), it takes no
right from somebody who has something that needs it (`RightsKept`), it gives nothing
to somebody who may not have it (`OwnedKept`), it stops nobody who has brought others
in (`InvitersKept`), it brings nobody in in the name of somebody who is stopped
(`PlacesKept`), and it keeps the two action properties (`Consents`, `ListsKept`).
`LawfulStep` shows that this is enough. Then there is one lemma for each of the 32
kinds of request: it has only made its checks (`Stays`), or what it writes is lawful,
at once or after others have written, since one whose checks hold no more puts those
it touches among the excused. A request that leaves a table alone has the parts about
it from a frame lemma (`SameUsers`, `SameThings`, `SamePlaces`, `SameLists`); what is
given to one person comes under `OneGiven` or `AssetsGiven`, a change of one account
under `OneUserKept`. Nothing is said of `slow`: the late half of any request is
shown lawful in every state that satisfies the invariant, whoever wrote in between.

Two theorems more are about the trees of departments, which decide who reaches whom.
`TreesNest`: with a department a tree has the whole tree of that one. The queries
that find a tree use UNION ALL and end only if parents make no cycle;
`DepartmentsStayTrees` shows, from the effect of each request on `dept`
(`ParentsKept`), that none ever makes one if there was none to begin with (`Forest`,
which no foreign key says, hence a hypothesis), and that then no two departments are
above one another (`OneAbove`). In `organisation_safety` every office is such a forest.

**WorkspaceProofs.** The five parts share one state but hardly write into each
other's, so the proofs begin with frames: for each part, the variables its actions
leave unchanged, those of a slow request included. `AccessInv` is the types of what
sessions are made of, with `NewPasswordEnds`. Every action on accounts is one of five
kinds (`WritesAccount`, `Begins`, `Renews`, `Ends`, `ChangesPassword`), and the
properties are shown kind by kind. `EndedStays` rests on the check of the expiry alone:
the UPDATE that renews a session has no condition on it, so a renewal that checked
before the session ended does open it again, and puts it among `unchecked`.

**TableProofs.** Rely and guarantee. `LoadInv` is what the ETL keeps: the types; that a
registration has a target, and one being deleted has lost its table and, while the
deletion holds the table master, its mappings (`Deleted`); that a table being loaded or
recorded as loaded is there (`Filled`), as is one that can be given to projects, but in a
deletion that keeps everybody from giving it (`MastersExist`); that an entry of the
registry is a batch's that is there and not on its way out, or was overtaken, as is any
batch whose entry is still to be written (`Entries`). What others may do to it is
`TablesKept`, what the ETL may do to a worker is `TablesGiven`: a table is made or
replaced by a load, or goes and is known to be gone, and nobody's save is under way
unless `dropped` says so. `SaveInv` is what a worker keeps: whose row it is, which table
it has made and how far it has written its rows (`OwnTables`), what a requeue leaves
(`Requeued`), and that a table is not the work of two rows unless it was dropped in
between (`NoTwins`), which is what a worker's own DROP rests on. With the two,
`MappedTablesExist`, `LoadedTablesStay`, `TargetsNameBatches`, `NoOrphans` and
`ResultsExist` hold in every state. The next row of the queue is the pending one with
the least number, which exists because numbers are well founded.

**BoardProofs.** `CacheInv`: a computation that has met no change has read the names of
its key each time (`Reads`), so that its answer is about them unless `moved` says
otherwise. `BoardInv` needs that widgets are on boards that are there and somebody's
(`Hosts`, `Makers`), that whoever has one has the board (`Belong`), and of a handing over
under way (`Handed`) that its widgets are all that the one who loses the board has there,
but for the `missed`, and that for a share the heir owns the board, for a transfer the
one who loses it does (`Rightful`): then the commit restores `Belong` at once. `TypeOK`
of the whole follows last; it counts the requests (`Counted`), since the bound on them is a
guard of the request and not of its second half.

Left to TLC: liveness (`EnqueuedJobsEnd`), which is out of the proof system's reach,
and of course the properties that the code violates. Every other property of every
run is a theorem.

## 7. What is not modelled

* Loads of uploaded files (`load_service.py`): `EtlJobQueue` has their jobs, threads
  and cancellation, nothing says what they write.
* Updates of a registration's fields, storage connections outside the main
  database, folder connections and their tests, layout of a board, labels, the
  sliding windows of the peak guard, locks after wrong passwords, expiry of codes,
  tokens and invitations: single statements, or time that no model here lets pass.
* In `DbLoad`: the branch that fetches a PostgreSQL source at once when no batch
  size is set, targets without a key, indexes, type mapping, time zones. A source
  row has one stamp, never NULL; stamps grow with the writes, as a column that
  records the time of the last change does.
* Retries of connections, waiting for a file's size to settle, sleeping between
  batches: they change when, not what.
* In `BatchRun`: the scheduler's pool is as large as the executors; intervals and
  misfires are abstracted to "may fire whenever no interval execution is under
  way"; moving an entry does not change whether it is there. A patch that moves the
  interval is modelled where it also sets `is_active` to true: there its failure decides
  what the scheduler has. Alone, or with `is_active` set to false, it leaves the row and
  the scheduler as they are when it raises.
* Deployment is one API process. `EtlJobQueue` is proved for any number of
  processes; `BatchRun` is one process, as `SCHEDULER_ENABLED` asks for.
* Transform rules, schema inference, previews, chart recommendation: pure
  functions on data frames, without state of their own.
* Campaign dashboards and system log: reads and append-only writes.
* The client: every rule it applies is applied again by the API.

## 8. Plan

Done: the job queue, batch runs, database loads, folder batches, the organisation,
the workspace, and the proofs of all their safety and action properties. What would come next, in this order:

1. `FileLoad`: what `run_file_load` and `run_file_upsert` write, with the types and
   keys of an added file, beside `DbLoad` on one target.
2. Time: expiry of sessions, codes and invitations, the windows of the peak guard.
3. The algorithms of `join_path.py` and `relationship_inference.py` against a
   reference definition over small schemas.
