------------------------------- MODULE BatchRun -------------------------------
(***************************************************************************)
(* One batch job: its row in batch_jobs, the runs it leaves in             *)
(* batch_run_history, its entry in the APScheduler of the process, the     *)
(* scheduler threads that execute it (run_batch_job for folders,           *)
(* run_db_batch_job for databases) and the administrators' requests that   *)
(* toggle, patch, start, cancel and delete it.                             *)
(*                                                                         *)
(* A step is one transaction or one call of the scheduler.  Which files    *)
(* and rows a run loads, and the checkpoints it keeps, are the subject of  *)
(* another module; here a file is loaded, skipped or fails.                *)
(***************************************************************************)
EXTENDS Naturals

CONSTANTS
  Executor,   \* the scheduler's threads, as far as they run this job
  Admin,      \* requests of administrators that may be in progress at once
  JobTypes,   \* the types of batch job to consider
  Policies,   \* the settings of on_file_error to consider
  Threshold,  \* consecutive failures that disable the job (5)
  MaxRuns,    \* bound: rows in batch_run_history
  MaxNow,     \* bound: one-shot entries waiting in the scheduler
  MaxFault    \* bound: crashes of the process and exceptions in an executor

ASSUME BatchAssumption ==
  /\ JobTypes \subseteq {"file", "db"}
  /\ Policies \subseteq {"stop", "continue"}
  /\ Threshold \in Nat \ {0}
  /\ {MaxRuns, MaxNow, MaxFault} \subseteq Nat

RunId == 1..MaxRuns
NoRun == 0
Outcome == {"success", "partial_error", "skipped", "error", "cancelled"}
FileResult == {"ok", "skipped", "error"}

VARIABLES
  jobType, policy,  \* batch_jobs.job_type and on_file_error
  exists,           \* whether the row is there
  active,           \* batch_jobs.is_active
  lastStatus,       \* batch_jobs.last_run_status, "null" for NULL
  run,              \* batch_run_history.status by run_id, "none" without a row
  created,          \* the runs inserted so far, numbered in the order of started_at
  flagged,          \* runs with cancel_requested_at
  scheduled,        \* the scheduler has the interval entry of the job
  oneShots,         \* one-shot entries of run_now that are waiting
  pc,               \* where each executor is
  source,           \* what started it: "interval" or "once"
  rid,              \* its run_id
  saw,              \* the results of the files it has gone through, as far as
                    \* they decide the outcome
  res,              \* the outcome it is about to record
  apc,              \* where each administrator's request is
  aset,             \* the is_active it writes
  aclear,           \* what more it does: a toggle resets last_run_status, a
                    \* patch moves the interval
  arun,             \* the run it cancels; for a deletion, the last run before it
  crashes, faults,
  released,         \* history: somebody else gave an executor's claim back
  raced,            \* history: is_active was written while another writer had
                    \* not yet called the scheduler, or one failed between the two
  forgotten         \* history: the row went with its registration, and nobody
                    \* told the scheduler

jobVars   == <<jobType, policy, exists, active, lastStatus>>
runVars   == <<run, created, flagged>>
schedVars == <<scheduled, oneShots>>
execVars  == <<pc, source, rid, saw, res>>
adminVars == <<apc, aset, aclear, arun>>
faultVars == <<crashes, faults>>
histVars  == <<released, raced, forgotten>>
vars == <<jobVars, runVars, schedVars, execVars, adminVars, faultVars, histVars>>

ExecPc == {"idle", "list", "claim", "create", "work", "finish", "status",
           "recover", "giveback", "check", "remove"}
AdminPc == {"idle", "toggle", "mark", "patch", "resched", "reread", "add", "remove",
            "flag", "force", "delete"}

TypeOK ==
  /\ jobType \in JobTypes /\ policy \in Policies
  /\ exists \in BOOLEAN /\ active \in BOOLEAN /\ scheduled \in BOOLEAN
  /\ released \in BOOLEAN /\ raced \in BOOLEAN /\ forgotten \in BOOLEAN
  /\ lastStatus \in {"null", "running"} \cup (Outcome \ {"cancelled"})
  /\ run \in [RunId -> {"none", "running"} \cup Outcome]
  /\ created \in 0..MaxRuns
  /\ flagged \subseteq RunId
  /\ oneShots \in 0..MaxNow
  /\ pc \in [Executor -> ExecPc]
  /\ source \in [Executor -> {"interval", "once"}]
  /\ rid \in [Executor -> {NoRun} \cup RunId]
  /\ saw \in [Executor -> SUBSET FileResult]
  /\ res \in [Executor -> Outcome]
  /\ apc \in [Admin -> AdminPc]
  /\ aset \in [Admin -> BOOLEAN]
  /\ aclear \in [Admin -> BOOLEAN]
  /\ arun \in [Admin -> {NoRun} \cup RunId]
  /\ crashes \in 0..MaxFault
  /\ faults \in 0..MaxFault

Init ==
  /\ jobType \in JobTypes /\ policy \in Policies
  /\ jobType = "db" => policy = "stop"
  /\ exists = TRUE /\ active = TRUE /\ lastStatus = "null"
  /\ run = [r \in RunId |-> "none"] /\ created = 0 /\ flagged = {}
  /\ scheduled = TRUE /\ oneShots = 0
  /\ pc = [e \in Executor |-> "idle"]
  /\ source = [e \in Executor |-> "interval"]
  /\ rid = [e \in Executor |-> NoRun]
  /\ saw = [e \in Executor |-> {}]
  /\ res = [e \in Executor |-> "error"]
  /\ apc = [a \in Admin |-> "idle"]
  /\ aset = [a \in Admin |-> FALSE]
  /\ aclear = [a \in Admin |-> FALSE]
  /\ arun = [a \in Admin |-> NoRun]
  /\ crashes = 0 /\ faults = 0
  /\ released = FALSE /\ raced = FALSE /\ forgotten = FALSE

(* Executors that have claimed the job and not yet recorded its end.       *)
InRun == {"work", "finish", "status", "recover", "giveback"}
Holder ==
  {e \in Executor : pc[e] = "create" \/ (pc[e] \in InRun /\ rid[e] # NoRun)}

(* UPDATE batch_jobs SET last_run_status = s: no row, no effect.           *)
SetStatus(s) == lastStatus' = IF exists THEN s ELSE lastStatus

(* The same by one that does not hold the claim, or is not the only one.   *)
Releasing(others) == released' = (released \/ (lastStatus = "running" /\ others # {}))

-----------------------------------------------------------------------------
(* The executors.                                                          *)

Goto(e, l) == pc' = [pc EXCEPT ![e] = l]

(* Back in the pool; the function's variables are gone.                    *)
Return(e) ==
  /\ Goto(e, "idle")
  /\ source' = [source EXCEPT ![e] = "interval"]
  /\ rid' = [rid EXCEPT ![e] = NoRun]
  /\ saw' = [saw EXCEPT ![e] = {}]
  /\ res' = [res EXCEPT ![e] = "error"]

Runnable == exists /\ active /\ lastStatus # "running"

(* The job as get_batch_job returns it passes the checks at the head.  A   *)
(* folder is listed before the job is claimed, a database after.           *)
Begin(e, s) ==
  /\ Runnable
  /\ created < MaxRuns  \* bound
  /\ Goto(e, IF jobType = "file" THEN "list" ELSE "claim")
  /\ source' = [source EXCEPT ![e] = s]
  /\ UNCHANGED <<rid, saw, res>>

(* The interval entry has max_instances 1.                                 *)
FireInterval(e) ==
  /\ scheduled
  /\ pc[e] = "idle"
  /\ \A x \in Executor : pc[x] # "idle" => source[x] # "interval"
  /\ Begin(e, "interval")
  /\ UNCHANGED <<jobVars, runVars, schedVars, adminVars, faultVars, histVars>>

FireOnce(e) ==
  /\ oneShots > 0
  /\ oneShots' = oneShots - 1
  /\ pc[e] = "idle"
  /\ \/ Begin(e, "once")
     \/ ~Runnable /\ UNCHANGED execVars
  /\ UNCHANGED <<jobVars, runVars, scheduled, adminVars, faultVars, histVars>>

(* No new file, or only files that were skipped before: last_run_status    *)
(* is set without a claim.                                                 *)
NothingPending(e) ==
  /\ pc[e] = "list"
  /\ SetStatus("success")
  /\ Releasing(Holder)
  /\ Return(e)
  /\ UNCHANGED <<jobType, policy, exists, active, runVars, schedVars, adminVars, faultVars, raced, forgotten>>

SomePending(e) ==
  /\ pc[e] = "list"
  /\ Goto(e, "claim")
  /\ UNCHANGED <<source, rid, saw, res, jobVars, runVars, schedVars, adminVars, faultVars, histVars>>

(* Mutant of TryClaim: the row is locked, and its status is not looked at. *)
TryClaimAlways(e) ==
  /\ pc[e] = "claim"
  /\ \/ exists /\ SetStatus("running") /\ Goto(e, "create") /\ UNCHANGED <<source, rid, saw, res>>
     \/ ~exists /\ Return(e) /\ UNCHANGED lastStatus
  /\ UNCHANGED <<jobType, policy, exists, active, runVars, schedVars, adminVars, faultVars, histVars>>

(* SELECT ... FOR UPDATE; unless it is running, set it running; commit.    *)
TryClaim(e) ==
  /\ pc[e] = "claim"
  /\ \/ /\ exists /\ lastStatus # "running"
        /\ SetStatus("running")
        /\ Goto(e, "create")
        /\ UNCHANGED <<source, rid, saw, res>>
     \/ /\ ~exists \/ lastStatus = "running"
        /\ Return(e)
        /\ UNCHANGED lastStatus
  /\ UNCHANGED <<jobType, policy, exists, active, runVars, schedVars, adminVars, faultVars, histVars>>

(* create_batch_run; without the job's row the foreign key refuses it, and *)
(* the executor goes to its exception handler.                             *)
CreateRun(e) ==
  /\ pc[e] = "create"
  /\ \/ /\ exists /\ created < MaxRuns
        /\ created' = created + 1
        /\ run' = [run EXCEPT ![created + 1] = "running"]
        /\ rid' = [rid EXCEPT ![e] = created + 1]
        /\ Goto(e, "work")
     \/ /\ ~exists
        /\ Goto(e, "giveback")
        /\ UNCHANGED <<run, created, rid>>
  /\ UNCHANGED <<source, saw, res, jobVars, flagged, schedVars, adminVars, faultVars, histVars>>

Conclude(e, r) ==
  /\ Goto(e, "finish")
  /\ res' = [res EXCEPT ![e] = r]
  /\ saw' = [saw EXCEPT ![e] = {}]

(* A file, or a batch of rows, after the check of cancel_requested_at.  A  *)
(* file's failure ends the run if on_file_error is 'stop'.  One that was   *)
(* skipped counts only if no other was loaded or failed.                   *)
Load(e) ==
  /\ pc[e] = "work" /\ rid[e] \notin flagged
  /\ \/ \E r \in IF jobType = "file" THEN FileResult ELSE {"ok"} :
          /\ r = "error" => policy = "continue"
          /\ saw' = [saw EXCEPT ![e] = IF r # "skipped" THEN (saw[e] \ {"skipped"}) \cup {r}
                                     ELSE IF saw[e] = {} THEN {r} ELSE saw[e]]
          /\ UNCHANGED <<pc, res>>
     \/ /\ jobType = "file" /\ policy = "stop"
        /\ Conclude(e, "error")
  /\ UNCHANGED <<source, rid, jobVars, runVars, schedVars, adminVars, faultVars, histVars>>

(* The check finds the request: a folder's run ends as cancelled, a        *)
(* database's run leaves its loop and ends like any other.                 *)
SeeCancel(e) ==
  /\ pc[e] = "work" /\ rid[e] \in flagged
  /\ Conclude(e, IF jobType = "file" THEN "cancelled" ELSE "success")
  /\ UNCHANGED <<source, rid, jobVars, runVars, schedVars, adminVars, faultVars, histVars>>

(* After the last file or the last batch.                                  *)
EndOfWork(e) ==
  /\ pc[e] = "work"
  /\ jobType = "file" => saw[e] # {}
  /\ Conclude(e, IF saw[e] = {"skipped"} THEN "skipped"
                 ELSE IF "error" \in saw[e] THEN "partial_error" ELSE "success")
  /\ UNCHANGED <<source, rid, jobVars, runVars, schedVars, adminVars, faultVars, histVars>>

(* Mutant of FinishRun: a run that failed leaves without its job's status. *)
FinishRunAndLeave(e) ==
  /\ pc[e] = "finish"
  /\ run' = [run EXCEPT ![rid[e]] = IF @ = "none" THEN @ ELSE res[e]]
  /\ \/ res[e] = "error" /\ Return(e)
     \/ res[e] # "error" /\ Goto(e, "status") /\ UNCHANGED <<source, rid, saw, res>>
  /\ UNCHANGED <<jobVars, created, flagged, schedVars, adminVars, faultVars, histVars>>

(* finish_run overwrites whatever the row says, and needs no row.          *)
FinishRun(e) ==
  /\ pc[e] = "finish"
  /\ run' = [run EXCEPT ![rid[e]] = IF @ = "none" THEN @ ELSE res[e]]
  /\ Goto(e, "status")
  /\ UNCHANGED <<source, rid, saw, res, jobVars, created, flagged, schedVars, adminVars, faultVars, histVars>>

(* Mutant of RecordStatus: the run's status is copied to the job.          *)
RecordRunStatus(e) ==
  /\ pc[e] = "status"
  /\ SetStatus(res[e])
  /\ Releasing(Holder \ {e})
  /\ Return(e)
  /\ UNCHANGED <<jobType, policy, exists, active, runVars, schedVars, adminVars, faultVars, raced, forgotten>>

(* update_job_status, and the check of consecutive failures after a failed *)
(* run of files and after any run of a database.                           *)
RecordStatus(e) ==
  /\ pc[e] = "status"
  /\ SetStatus(IF res[e] = "cancelled" THEN "success" ELSE res[e])
  /\ Releasing(Holder \ {e})
  /\ \/ /\ res[e] = "error" \/ jobType = "db"
        /\ Goto(e, "check")
        /\ UNCHANGED <<source, rid, saw, res>>
     \/ res[e] # "error" /\ Return(e)  \* a diff returns before the check
  /\ UNCHANGED <<jobType, policy, exists, active, runVars, schedVars, adminVars, faultVars, raced, forgotten>>

(* The last Threshold runs failed.                                         *)
FailureStreak ==
  /\ created >= Threshold
  /\ \A r \in (created - Threshold + 1)..created : run[r] = "error"

(* Those who have written is_active and have yet to call the scheduler.    *)
Syncing ==
  {a \in Admin : apc[a] \in {"mark", "resched", "reread", "add", "remove", "delete"}}
    \cup {e \in Executor : pc[e] = "remove"}

WriteActive(v) ==
  /\ active' = IF exists THEN v ELSE active
  /\ raced' = (raced \/ Syncing # {})

(* Mutant of CheckFailures: the scheduler keeps the job.                   *)
CheckFailuresKeeping(e) ==
  /\ pc[e] = "check"
  /\ \/ FailureStreak /\ WriteActive(FALSE)
     \/ ~FailureStreak /\ UNCHANGED <<active, raced>>
  /\ Return(e)
  /\ UNCHANGED <<jobType, policy, exists, lastStatus, runVars, schedVars, adminVars, faultVars, released, forgotten>>

CheckFailures(e) ==
  /\ pc[e] = "check"
  /\ \/ /\ FailureStreak
        /\ WriteActive(FALSE)
        /\ Goto(e, "remove")
        /\ UNCHANGED <<source, rid, saw, res>>
     \/ /\ ~FailureStreak
        /\ Return(e)
        /\ UNCHANGED <<active, raced>>
  /\ UNCHANGED <<jobType, policy, exists, lastStatus, runVars, schedVars, adminVars, faultVars, released, forgotten>>

RemoveDisabled(e) ==
  /\ pc[e] = "remove"
  /\ scheduled' = FALSE
  /\ Return(e)
  /\ UNCHANGED <<jobVars, runVars, oneShots, adminVars, faultVars, histVars>>

(* The exception handler: finish_run as failed, with no list of files, and *)
(* update_job_status unless the run had been finished.                     *)
Recover(e) ==
  /\ pc[e] = "recover"
  /\ run' = [run EXCEPT ![rid[e]] = IF @ = "none" THEN @ ELSE "error"]
  /\ Goto(e, IF res[e] = "error" THEN "giveback" ELSE "check")
  /\ UNCHANGED <<source, rid, saw, res, jobVars, created, flagged, schedVars, adminVars, faultVars, histVars>>

(* Also by an executor that never had the claim, or saw it refused by an   *)
(* exception.                                                              *)
GiveBack(e) ==
  /\ pc[e] = "giveback"
  /\ SetStatus("error")
  /\ Releasing(Holder \ {e})
  /\ \/ /\ rid[e] # NoRun \/ jobType = "db"
        /\ Goto(e, "check")
        /\ UNCHANGED <<source, rid, saw, res>>
     \/ /\ rid[e] = NoRun /\ jobType = "file"
        /\ Return(e)
  /\ UNCHANGED <<jobType, policy, exists, active, runVars, schedVars, adminVars, faultVars, raced, forgotten>>

ExecutorStep(e) ==
  \/ NothingPending(e) \/ SomePending(e) \/ TryClaim(e) \/ CreateRun(e)
  \/ Load(e) \/ SeeCancel(e) \/ EndOfWork(e) \/ FinishRun(e)
  \/ RecordStatus(e) \/ CheckFailures(e) \/ RemoveDisabled(e)
  \/ Recover(e) \/ GiveBack(e)

(* An exception: the folder, the source, the target or the system database *)
(* fails.  The handler starts, or goes on after logging its own failure;   *)
(* res is not "error" there exactly if the run had been finished.          *)
ExecutorFails(e) ==
  /\ crashes + faults < MaxFault
  /\ faults' = faults + 1
  /\ \/ /\ pc[e] \in {"list", "claim", "create"}
        /\ Goto(e, "giveback")
        /\ UNCHANGED <<source, rid, saw, res>>
     \/ /\ pc[e] \in {"work", "finish"}
        /\ Goto(e, "recover")
        /\ res' = [res EXCEPT ![e] = "error"]
        /\ saw' = [saw EXCEPT ![e] = {}]
        /\ UNCHANGED <<source, rid>>
     \/ /\ pc[e] = "status"
        /\ Goto(e, IF jobType = "file" \/ res[e] = "error" THEN "recover" ELSE "check")
        /\ UNCHANGED <<source, rid, saw, res>>
     \/ /\ pc[e] = "recover"
        /\ Goto(e, IF res[e] = "error" THEN "giveback" ELSE "check")
        /\ UNCHANGED <<source, rid, saw, res>>
     \/ /\ pc[e] = "giveback" /\ (rid[e] # NoRun \/ jobType = "db")
        /\ Goto(e, "check")
        /\ UNCHANGED <<source, rid, saw, res>>
     \/ /\ pc[e] = "giveback" /\ rid[e] = NoRun /\ jobType = "file"
        /\ Return(e)
     \/ /\ pc[e] = "check"
        /\ Return(e)
  /\ UNCHANGED <<jobVars, runVars, schedVars, adminVars, crashes, histVars>>

-----------------------------------------------------------------------------
(* The administrators' requests.                                           *)

Ask(a, l) == apc' = [apc EXCEPT ![a] = l]
Answer(a) ==
  /\ Ask(a, "idle")
  /\ aset' = [aset EXCEPT ![a] = FALSE]
  /\ aclear' = [aclear EXCEPT ![a] = FALSE]
  /\ arun' = [arun EXCEPT ![a] = NoRun]

(* run_now refuses a running job, and leaves is_active to the executor.    *)
RunNow ==
  /\ exists /\ lastStatus # "running"
  /\ oneShots < MaxNow
  /\ oneShots' = oneShots + 1
  /\ UNCHANGED <<jobVars, runVars, scheduled, execVars, adminVars, faultVars, histVars>>

ToggleRead(a) ==
  /\ apc[a] = "idle" /\ exists
  /\ Ask(a, "toggle")
  /\ aset' = [aset EXCEPT ![a] = ~active]
  /\ aclear' = [aclear EXCEPT ![a] = active /\ lastStatus = "running"]
  /\ UNCHANGED <<arun, jobVars, runVars, schedVars, execVars, faultVars, histVars>>

ToggleWrite(a) ==
  /\ apc[a] = "toggle"
  /\ WriteActive(aset[a])
  /\ IF aclear[a] THEN SetStatus("null") /\ Releasing(Holder)
                  ELSE UNCHANGED <<lastStatus, released>>
  /\ Ask(a, IF aset[a] THEN "reread" ELSE "mark")
  /\ aset' = [aset EXCEPT ![a] = FALSE]
  /\ aclear' = [aclear EXCEPT ![a] = FALSE]
  /\ UNCHANGED <<arun, jobType, policy, exists, runVars, schedVars, execVars, faultVars, forgotten>>

(* mark_stuck_runs_finished.                                               *)
ToggleMark(a) ==
  /\ apc[a] = "mark"
  /\ run' = [r \in RunId |-> IF run[r] = "running" THEN "error" ELSE run[r]]
  /\ Ask(a, "remove")
  /\ UNCHANGED <<aset, aclear, arun, jobVars, created, flagged, schedVars, execVars, faultVars, histVars>>

(* PATCH with is_active, and with interval_minutes or not: if the job was  *)
(* read as active its entry is moved first.                                *)
PatchRead(a) ==
  /\ apc[a] = "idle" /\ exists
  /\ Ask(a, "patch")
  /\ \E v, interval \in BOOLEAN :
       /\ aset' = [aset EXCEPT ![a] = v]
       /\ aclear' = [aclear EXCEPT ![a] = v /\ interval /\ active]
  /\ UNCHANGED <<arun, jobVars, runVars, schedVars, execVars, faultVars, histVars>>

PatchWrite(a) ==
  /\ apc[a] = "patch"
  /\ WriteActive(aset[a])
  /\ Ask(a, IF aclear[a] THEN "resched" ELSE IF aset[a] THEN "reread" ELSE "remove")
  /\ aset' = [aset EXCEPT ![a] = FALSE]
  /\ aclear' = [aclear EXCEPT ![a] = FALSE]
  /\ UNCHANGED <<arun, jobType, policy, exists, lastStatus, released, forgotten,
                 runVars, schedVars, execVars, faultVars>>

(* reschedule_job raises when the scheduler has no entry.  Where the job is *)
(* turned off, nothing is left to do then, and the step is left out.       *)
Reschedule(a) ==
  /\ apc[a] = "resched"
  /\ \/ /\ scheduled
        /\ Ask(a, "reread")
        /\ UNCHANGED <<aset, aclear, arun, raced>>
     \/ /\ ~scheduled
        /\ Answer(a)
        /\ raced' = TRUE
  /\ UNCHANGED <<jobVars, runVars, schedVars, execVars, faultVars, released, forgotten>>

(* The row is read again, and the job added if it was still there.         *)
ReadAgain(a) ==
  /\ apc[a] = "reread"
  /\ IF exists THEN Ask(a, "add") /\ UNCHANGED <<aset, aclear, arun>> ELSE Answer(a)
  /\ UNCHANGED <<jobVars, runVars, schedVars, execVars, faultVars, histVars>>

AddToScheduler(a) ==
  /\ apc[a] = "add"
  /\ scheduled' = TRUE
  /\ Answer(a)
  /\ UNCHANGED <<oneShots, jobVars, runVars, execVars, faultVars, histVars>>

RemoveFromScheduler(a) ==
  /\ apc[a] = "remove"
  /\ scheduled' = FALSE
  /\ Answer(a)
  /\ UNCHANGED <<oneShots, jobVars, runVars, execVars, faultVars, histVars>>

(* A run that is not running any more is left alone.                       *)
CancelRead(a) ==
  /\ apc[a] = "idle"
  /\ \E r \in RunId :
       /\ run[r] = "running"
       /\ arun' = [arun EXCEPT ![a] = r]
  /\ Ask(a, "flag")
  /\ UNCHANGED <<aset, aclear, jobVars, runVars, schedVars, execVars, faultVars, histVars>>

CancelFlag(a) ==
  /\ apc[a] = "flag"
  /\ flagged' = IF run[arun[a]] = "running" THEN flagged \cup {arun[a]} ELSE flagged
  /\ Ask(a, "force")
  /\ UNCHANGED <<aset, aclear, arun, jobVars, run, created, schedVars, execVars, faultVars, histVars>>

(* force_finish_run_as_cancelled: the run and the claim end in one         *)
(* transaction, while the executor may still be at work.                   *)
CancelForce(a) ==
  /\ apc[a] = "force"
  /\ IF run[arun[a]] = "running"
     THEN /\ run' = [run EXCEPT ![arun[a]] = "cancelled"]
          /\ SetStatus("null")
          /\ Releasing(Holder)
     ELSE UNCHANGED <<run, lastStatus, released>>
  /\ Answer(a)
  /\ UNCHANGED <<jobType, policy, exists, active, created, flagged, schedVars, execVars, faultVars, raced, forgotten>>

(* Out of the scheduler, then the rows of the history and of the job.      *)
(* delete_etl_table takes the same steps.                                  *)
DeleteUnschedule(a) ==
  /\ apc[a] = "idle" /\ exists
  /\ scheduled' = FALSE
  /\ arun' = [arun EXCEPT ![a] = created]
  /\ Ask(a, "delete")
  /\ raced' = (raced \/ Syncing # {})
  /\ UNCHANGED <<aset, aclear, jobVars, runVars, oneShots, execVars, faultVars, released, forgotten>>

NoRows ==
  /\ exists' = FALSE
  /\ active' = FALSE /\ lastStatus' = "null"
  /\ run' = [r \in RunId |-> "none"] /\ flagged' = {}
  /\ UNCHANGED <<jobType, policy, created>>

(* A run inserted since may come before the DELETE of the history, or      *)
(* after it: then its foreign key undoes the transaction.                  *)
DeleteRows(a) ==
  /\ apc[a] = "delete"
  /\ \/ NoRows /\ UNCHANGED raced
     \/ /\ exists /\ arun[a] # created
        /\ raced' = TRUE
        /\ UNCHANGED <<jobVars, runVars>>
  /\ Answer(a)
  /\ UNCHANGED <<schedVars, execVars, faultVars, released, forgotten>>

(* delete_etl_table_row_only, of a batch with a registration, does not call *)
(* the scheduler; an entry that stays finds no row whenever it fires.      *)
DeleteWithRegistration ==
  /\ exists /\ jobType = "db"
  /\ NoRows
  /\ forgotten' = TRUE
  /\ UNCHANGED <<schedVars, execVars, adminVars, faultVars, released, raced>>

(* The system database, or the DROP in delete_etl_table, fails; so does the *)
(* request, wherever it is.                                                *)
RequestFails(a) ==
  /\ crashes + faults < MaxFault
  /\ faults' = faults + 1
  /\ apc[a] \notin {"idle", "add", "remove", "resched"}
  /\ raced' = (raced \/ a \in Syncing)
  /\ Answer(a)
  /\ UNCHANGED <<jobVars, runVars, schedVars, execVars, crashes, released, forgotten>>

AdminStep(a) ==
  \/ ToggleRead(a) \/ ToggleWrite(a) \/ ToggleMark(a)
  \/ PatchRead(a) \/ PatchWrite(a) \/ Reschedule(a) \/ ReadAgain(a) \/ AddToScheduler(a) \/ RemoveFromScheduler(a)
  \/ CancelRead(a) \/ CancelFlag(a) \/ CancelForce(a)
  \/ DeleteUnschedule(a) \/ DeleteRows(a)

-----------------------------------------------------------------------------
(* The process dies and comes back: load_active_batch_jobs schedules the   *)
(* active job again.  The rows stay as they were.                          *)
CrashRestart ==
  /\ crashes + faults < MaxFault
  /\ crashes' = crashes + 1
  /\ scheduled' = (exists /\ active)
  /\ oneShots' = 0
  /\ pc' = [e \in Executor |-> "idle"]
  /\ source' = [e \in Executor |-> "interval"]
  /\ rid' = [e \in Executor |-> NoRun]
  /\ saw' = [e \in Executor |-> {}]
  /\ res' = [e \in Executor |-> "error"]
  /\ apc' = [a \in Admin |-> "idle"]
  /\ aset' = [a \in Admin |-> FALSE]
  /\ aclear' = [a \in Admin |-> FALSE]
  /\ arun' = [a \in Admin |-> NoRun]
  /\ raced' = FALSE /\ forgotten' = FALSE
  /\ UNCHANGED <<jobVars, runVars, faults, released>>

Next ==
  \/ \E e \in Executor : FireInterval(e) \/ FireOnce(e) \/ ExecutorStep(e) \/ ExecutorFails(e)
  \/ RunNow
  \/ \E a \in Admin : AdminStep(a) \/ RequestFails(a)
  \/ DeleteWithRegistration
  \/ CrashRestart

Spec == Init /\ [][Next]_vars

(* The threads of the scheduler run on, and a request that was accepted is *)
(* carried through.                                                        *)
Fairness ==
  /\ \A e \in Executor : WF_vars(ExecutorStep(e))
  /\ \A a \in Admin : WF_vars(apc[a] # "idle" /\ AdminStep(a))

FairSpec == Spec /\ Fairness

-----------------------------------------------------------------------------
(* Properties.                                                             *)

(* Two executors are inside a run of the job at once only after somebody   *)
(* took the claim from one of them: a cancel, a toggle, or an execution    *)
(* that found nothing to do and reported success.  The row lock of the     *)
(* claim itself lets one in, whatever fires at the same moment.            *)
SoleExecutor == ~released => \A e, f \in Holder : e = f

(* Unless the process died or something failed, last_run_status says       *)
(* 'running', and a run does, only while an executor is in there that will *)
(* take it back: otherwise no later execution would ever start.            *)
NothingLeftRunning ==
  crashes = 0 /\ faults = 0 =>
    /\ lastStatus = "running" => Holder # {}
    /\ \A r \in RunId : run[r] = "running" => \E e \in Executor : rid[e] = r

(* With no handler or automatic disabling in the middle of its two steps,  *)
(* none that overlapped another or failed between the two, and unless the  *)
(* row went with its registration alone, which tells the scheduler         *)
(* nothing, the scheduler has the job exactly if it is there and active.   *)
ScheduledIffActive ==
  ~raced /\ ~forgotten /\ Syncing = {} => (scheduled <=> exists /\ active)

-----------------------------------------------------------------------------
(* What docstrings and answers say, and the code does not do.              *)

(* try_claim_batch_job_for_run: it prevents executions that overlap.       *)
OneRunAtATime == \A e, f \in Holder : e = f

(* cancel_batch_run answers that the run was cancelled: it stays so.       *)
CancelledStays ==
  [][\A r \in RunId : run[r] = "cancelled" => run'[r] \in {"cancelled", "none"}]_vars
=============================================================================
