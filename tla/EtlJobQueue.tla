----------------------------- MODULE EtlJobQueue -----------------------------
(***************************************************************************)
(* The ETL job queue: the rows of etl_jobs, the HTTP handlers that insert, *)
(* cancel and delete them, the queue worker thread of each server process, *)
(* its thread pool, and the threads that run one job each.                 *)
(*                                                                         *)
(* A step is one database transaction or one operation on a structure in   *)
(* memory, because that is where the threads can interleave.  What a load  *)
(* writes in the target table is the subject of another module; here a     *)
(* load is a number of batches with a cancellation check before each.      *)
(***************************************************************************)
EXTENDS Naturals, Sequences, FiniteSets

CONSTANTS
  Job,            \* the job_ids that may be inserted
  Proc,           \* the server processes (one in the shipped start script)
  NoJob,          \* "no job": an idle thread, a worker that holds nothing
  Kinds,          \* the kinds of job the clients submit
  MaxConcurrent,  \* size of the pool and limit on rows in 'running'
  MaxBatch,       \* bound: batches one load goes through at most
  MaxCrash,       \* bound: shutdowns and crashes of processes
  MaxFault        \* bound: failures of a query to the system database

Kind == {"db", "diff", "upsert", "file"}

(* The threads of the pools, and the thread that POST /tables/{id}/run     *)
(* starts for a job of a file table, named by that job.                    *)
PoolThread == Proc \X (1..MaxConcurrent)
Thread == PoolThread \cup Job

ASSUME QueueAssumption ==
  /\ NoJob \notin Job
  /\ IsFiniteSet(Job)
  /\ Kinds \subseteq Kind
  /\ Proc # {}
  /\ PoolThread \cap Job = {}
  /\ MaxConcurrent \in Nat \ {0}
  /\ {MaxBatch, MaxCrash, MaxFault} \subseteq Nat

Finished == {"completed", "failed", "cancelled"}
Status == {"absent", "pending", "running", "deleted"} \cup Finished

VARIABLES
  status,      \* etl_jobs.status; "absent" before the INSERT, "deleted" after the DELETE
  kind,        \* what the job's etl_tables row and add_file columns ask for
  created,     \* etl_jobs.created_at
  clock,       \* the database's NOW(), advanced by every INSERT
  up,          \* the process: serving, shutting down, gone
  worker,      \* where the queue worker thread is
  take,        \* run_worker_iteration's "take", what is left of it
  held,        \* the job it has claimed and not yet submitted
  pool,        \* the executor's queue
  pc,          \* where each thread is in its job
  job,         \* the job each thread runs
  home,        \* the process each thread belongs to
  mode,        \* the load function the thread has chosen
  done,        \* batches loaded
  res,         \* the status the thread is about to record
  cancelling,  \* cancel handlers that have read the row and not yet updated it
  withdrawn,   \* history: jobs a cancel found pending when it updated the row
  crashes,
  faults

rowVars    == <<status, kind, created, clock>>
workerVars == <<worker, take, held, pool>>
threadVars == <<pc, job, home, mode, done, res>>
cancelVars == <<cancelling, withdrawn>>
faultVars  == <<up, crashes, faults>>
vars == <<rowVars, workerVars, threadVars, cancelVars, faultVars>>

ThreadPc == {"idle", "dispatch", "enter", "load", "record", "table"}

TypeOK ==
  /\ status \in [Job -> Status]
  /\ kind \in [Job -> Kind]
  /\ created \in [Job -> Nat]
  /\ clock \in Nat
  /\ up \in [Proc -> {"up", "stopping", "down"}]
  /\ worker \in [Proc -> {"off", "loop", "claim", "submit"}]
  /\ take \in [Proc -> 0..MaxConcurrent]
  /\ held \in [Proc -> Job \cup {NoJob}]
  /\ pool \in [Proc -> Seq(Job)]
  /\ pc \in [Thread -> ThreadPc]
  /\ job \in [Thread -> Job \cup {NoJob}]
  /\ home \in [Thread -> Proc]
  /\ mode \in [Thread -> Kind]
  /\ done \in [Thread -> 0..MaxBatch]
  /\ res \in [Thread -> Finished]
  /\ cancelling \subseteq Proc \X Job
  /\ withdrawn \subseteq Job
  /\ crashes \in 0..MaxCrash
  /\ faults \in 0..MaxFault

Running == {j \in Job : status[j] = "running"}
Pending == {j \in Job : status[j] = "pending"}

(* UPDATE etl_jobs SET status = s WHERE job_id = j: no row, no effect.     *)
Updated(j, s) ==
  [status EXCEPT ![j] = IF @ \in {"absent", "deleted"} THEN @ ELSE s]

Init ==
  /\ status = [j \in Job |-> "absent"]
  /\ kind = [j \in Job |-> "file"]
  /\ created = [j \in Job |-> 0]
  /\ clock = 0
  /\ up = [p \in Proc |-> "up"]
  /\ worker = [p \in Proc |-> "off"]
  /\ take = [p \in Proc |-> 0]
  /\ held = [p \in Proc |-> NoJob]
  /\ pool = [p \in Proc |-> <<>>]
  /\ pc = [t \in Thread |-> "idle"]
  /\ job = [t \in Thread |-> NoJob]
  /\ home = [t \in Thread |-> IF t \in PoolThread THEN t[1]
                                                  ELSE CHOOSE p \in Proc : TRUE]
  /\ mode = [t \in Thread |-> "file"]
  /\ done = [t \in Thread |-> 0]
  /\ res = [t \in Thread |-> "failed"]
  /\ cancelling = {}
  /\ withdrawn = {}
  /\ crashes = 0
  /\ faults = 0

-----------------------------------------------------------------------------
(* The HTTP handlers.                                                      *)

InsertRow(j, k, s) ==
  /\ status[j] = "absent"
  /\ k \in Kinds
  /\ status' = [status EXCEPT ![j] = s]
  /\ kind' = [kind EXCEPT ![j] = k]
  /\ created' = [created EXCEPT ![j] = clock]
  /\ clock' = clock + 1

(* A database source, an added file or a file of an added ZIP: insert a    *)
(* pending row, then start the worker thread unless it was started before. *)
Enqueue(p, j, k) ==
  /\ up[p] = "up"
  /\ k # "file"
  /\ InsertRow(j, k, "pending")
  /\ worker' = [worker EXCEPT ![p] = IF @ = "off" THEN "loop" ELSE @]
  /\ UNCHANGED <<take, held, pool, threadVars, cancelVars, faultVars>>

(* A file source: the row is inserted as running and a thread of its own   *)
(* starts at once, beside the queue.                                       *)
RunFile(p, j) ==
  /\ up[p] = "up"
  /\ InsertRow(j, "file", "running")
  /\ pc' = [pc EXCEPT ![j] = "enter"]
  /\ job' = [job EXCEPT ![j] = j]
  /\ home' = [home EXCEPT ![j] = p]
  /\ UNCHANGED <<mode, done, res, workerVars, cancelVars, faultVars>>

(* cancel_job reads the row, answers 404 or 400 unless it is pending or    *)
(* running, and updates it in a transaction of its own.                    *)
CancelRead(p, j) ==
  /\ up[p] = "up"
  /\ status[j] \in {"pending", "running"}
  /\ cancelling' = cancelling \cup {<<p, j>>}
  /\ UNCHANGED <<rowVars, workerVars, threadVars, withdrawn, faultVars>>

(* Mutant of CancelWrite: the UPDATE only matches running rows.            *)
CancelWriteRunningOnly(p, j) ==
  /\ <<p, j>> \in cancelling
  /\ status' = IF status[j] = "running" THEN Updated(j, "cancelled") ELSE status
  /\ withdrawn' = IF status[j] = "pending" THEN withdrawn \cup {j} ELSE withdrawn
  /\ cancelling' = cancelling \ {<<p, j>>}
  /\ UNCHANGED <<kind, created, clock, workerVars, threadVars, faultVars>>

CancelWrite(p, j) ==
  /\ <<p, j>> \in cancelling
  /\ status' = Updated(j, "cancelled")
  /\ withdrawn' = IF status[j] = "pending" THEN withdrawn \cup {j} ELSE withdrawn
  /\ cancelling' = cancelling \ {<<p, j>>}
  /\ UNCHANGED <<kind, created, clock, workerVars, threadVars, faultVars>>

DeleteJob(p, j) ==
  /\ up[p] = "up"
  /\ status[j] \notin {"absent", "deleted"}
  /\ status' = [status EXCEPT ![j] = "deleted"]
  /\ UNCHANGED <<kind, created, clock, workerVars, threadVars, cancelVars, faultVars>>

-----------------------------------------------------------------------------
(* The queue worker thread: _worker_loop around run_worker_iteration.      *)

(* Back to the head of _worker_loop, to sleep.                             *)
Idle(p) ==
  /\ worker' = [worker EXCEPT ![p] = "loop"]
  /\ take' = [take EXCEPT ![p] = 0]

CountRunning(p) ==
  /\ worker[p] = "loop"
  /\ Cardinality(Running) < MaxConcurrent
  /\ take' = [take EXCEPT ![p] = MaxConcurrent - Cardinality(Running)]
  /\ worker' = [worker EXCEPT ![p] = "claim"]
  /\ UNCHANGED <<rowVars, held, pool, threadVars, cancelVars, faultVars>>

Oldest(S) == {j \in S : \A i \in S : created[j] <= created[i]}

(* Mutant of Claim: the row is read, and the thread of the pool is left to *)
(* set it running.                                                         *)
ClaimByReadOnly(p) ==
  /\ worker[p] = "claim"
  /\ \/ /\ Pending = {}
        /\ Idle(p)
        /\ UNCHANGED held
     \/ \E j \in Oldest(Pending) :
          /\ held' = [held EXCEPT ![p] = j]
          /\ worker' = [worker EXCEPT ![p] = "submit"]
          /\ UNCHANGED take
  /\ UNCHANGED <<rowVars, pool, threadVars, cancelVars, faultVars>>

(* SELECT the oldest pending row FOR UPDATE SKIP LOCKED, set it running,   *)
(* commit.  A row that a cancel is updating may be locked, and is skipped. *)
Claim(p) ==
  /\ worker[p] = "claim"
  /\ \E locked \in SUBSET {j \in Job : \E q \in Proc : <<q, j>> \in cancelling} :
       LET free == Pending \ locked IN
       \/ /\ free = {}
          /\ Idle(p)
          /\ UNCHANGED <<status, held>>
       \/ \E j \in Oldest(free) :
            /\ status' = [status EXCEPT ![j] = "running"]
            /\ held' = [held EXCEPT ![p] = j]
            /\ worker' = [worker EXCEPT ![p] = "submit"]
            /\ UNCHANGED take
  /\ UNCHANGED <<kind, created, clock, pool, threadVars, cancelVars, faultVars>>

(* Mutant of Submit: the variable is cleared before it is used.            *)
SubmitCleared(p) ==
  /\ worker[p] = "submit"
  /\ held' = [held EXCEPT ![p] = NoJob]
  /\ pool' = [pool EXCEPT ![p] = Append(@, held'[p])]
  /\ take' = [take EXCEPT ![p] = @ - 1]
  /\ worker' = [worker EXCEPT ![p] = IF take[p] > 1 THEN "claim" ELSE "loop"]
  /\ UNCHANGED <<rowVars, threadVars, cancelVars, faultVars>>

(* executor.submit raises once the interpreter shuts down; the loop logs   *)
(* it and goes on.                                                         *)
Submit(p) ==
  /\ worker[p] = "submit"
  /\ held' = [held EXCEPT ![p] = NoJob]
  /\ \/ /\ up[p] = "up"
        /\ pool' = [pool EXCEPT ![p] = Append(@, held[p])]
        /\ take' = [take EXCEPT ![p] = @ - 1]
        /\ worker' = [worker EXCEPT ![p] = IF take[p] > 1 THEN "claim" ELSE "loop"]
     \/ /\ up[p] = "stopping"
        /\ Idle(p)
        /\ UNCHANGED pool
  /\ UNCHANGED <<rowVars, threadVars, cancelVars, faultVars>>

Worker(p) == CountRunning(p) \/ Claim(p) \/ Submit(p)

-----------------------------------------------------------------------------
(* One job on one thread: _run_one_job and the load functions.             *)

(* Mutant of PickUp: the job stays in the queue while it runs.             *)
PickUpKept(t) ==
  /\ t \in PoolThread
  /\ pc[t] = "idle"
  /\ pool[home[t]] # <<>>
  /\ job' = [job EXCEPT ![t] = Head(pool[home[t]])]
  /\ pc' = [pc EXCEPT ![t] = "dispatch"]
  /\ UNCHANGED <<rowVars, workerVars, home, mode, done, res, cancelVars, faultVars>>

PickUp(t) ==
  /\ t \in PoolThread
  /\ pc[t] = "idle"
  /\ pool[home[t]] # <<>>
  /\ job' = [job EXCEPT ![t] = Head(pool[home[t]])]
  /\ pool' = [pool EXCEPT ![home[t]] = Tail(@)]
  /\ pc' = [pc EXCEPT ![t] = "dispatch"]
  /\ UNCHANGED <<rowVars, worker, take, held, home, mode, done, res, cancelVars, faultVars>>

Goto(t, l) == pc' = [pc EXCEPT ![t] = l]
Conclude(t, r) ==
  /\ Goto(t, "record")
  /\ res' = [res EXCEPT ![t] = r]

(* The thread is free, and its local variables are gone.                   *)
Leave(t) ==
  /\ Goto(t, "idle")
  /\ job' = [job EXCEPT ![t] = NoJob]
  /\ mode' = [mode EXCEPT ![t] = "file"]
  /\ done' = [done EXCEPT ![t] = 0]
  /\ res' = [res EXCEPT ![t] = "failed"]

(* The row of the job tells an added file from a reload of the table's own *)
(* file; without the row it is a reload.                                   *)
ChosenMode(j) ==
  IF kind[j] = "upsert" /\ status[j] = "deleted" THEN "file" ELSE kind[j]

(* Mutant of Dispatch: without the ETL table's row, return.                *)
DispatchReturns(t) ==
  /\ pc[t] = "dispatch"
  /\ \/ /\ mode' = [mode EXCEPT ![t] = ChosenMode(job[t])]
        /\ Goto(t, "enter")
        /\ UNCHANGED <<job, done, res>>
     \/ Leave(t)
  /\ UNCHANGED <<rowVars, workerVars, home, cancelVars, faultVars>>

Dispatch(t) ==
  /\ pc[t] = "dispatch"
  /\ \/ /\ mode' = [mode EXCEPT ![t] = ChosenMode(job[t])]
        /\ Goto(t, "enter")
        /\ UNCHANGED res
     \/ /\ Conclude(t, "failed")  \* the ETL table is gone or cannot be run
        /\ UNCHANGED mode
  /\ UNCHANGED <<rowVars, workerVars, job, home, done, cancelVars, faultVars>>

(* The checks of the load function and its set_job_running.  An upsert     *)
(* reads the job again and needs it to be there.                           *)
Enter(t) ==
  /\ pc[t] = "enter"
  /\ \/ /\ mode[t] = "upsert" => status[job[t]] # "deleted"
        /\ status' = Updated(job[t], "running")
        /\ Goto(t, "load")
        /\ UNCHANGED res
     \/ /\ Conclude(t, "failed")
        /\ UNCHANGED status
  /\ UNCHANGED <<kind, created, clock, workerVars, job, home, mode, done, cancelVars, faultVars>>

(* is_job_cancelled is asked before every batch of a database load, and    *)
(* before every batch but the first of a file.                             *)
SeesCancel(t) ==
  /\ mode[t] \in {"db", "diff"} \/ done[t] > 0
  /\ status[job[t]] = "cancelled"

LoadBatch(t) ==
  /\ pc[t] = "load"
  /\ ~SeesCancel(t)
  /\ done[t] < MaxBatch
  /\ done' = [done EXCEPT ![t] = @ + 1]
  /\ UNCHANGED <<rowVars, workerVars, pc, job, home, mode, res, cancelVars, faultVars>>

(* A cancelled diff returns to run_db_load like one that is finished.      *)
StopOnCancel(t) ==
  /\ pc[t] = "load"
  /\ SeesCancel(t)
  /\ Conclude(t, IF mode[t] = "diff" THEN "completed" ELSE "cancelled")
  /\ UNCHANGED <<rowVars, workerVars, job, home, mode, done, cancelVars, faultVars>>

EndLoad(t) ==
  /\ pc[t] = "load"
  /\ \/ Conclude(t, "completed")
     \/ Conclude(t, "failed")
  /\ UNCHANGED <<rowVars, workerVars, job, home, mode, done, cancelVars, faultVars>>

(* update_job(job_id, res), whatever the row says by now.                  *)
Record(t) ==
  /\ pc[t] = "record"
  /\ status' = Updated(job[t], res[t])
  /\ Goto(t, "table")
  /\ UNCHANGED <<kind, created, clock, workerVars, job, home, mode, done, res, cancelVars, faultVars>>

(* update_etl_table_status, and the thread is free.                        *)
RecordTable(t) ==
  /\ pc[t] = "table"
  /\ Leave(t)
  /\ UNCHANGED <<rowVars, workerVars, home, cancelVars, faultVars>>

ThreadStep(t) ==
  \/ PickUp(t)
  \/ Dispatch(t) \/ Enter(t)
  \/ LoadBatch(t) \/ StopOnCancel(t) \/ EndLoad(t)
  \/ Record(t) \/ RecordTable(t)

-----------------------------------------------------------------------------
(* What goes wrong around them.                                            *)

(* A query to the system database raises in a thread.  The handlers then   *)
(* record 'failed'; if the database stays away, nothing is recorded.       *)
QueryFails(t) ==
  /\ faults < MaxFault
  /\ faults' = faults + 1
  /\ \/ /\ pc[t] # "idle"
        /\ Conclude(t, "failed")
        /\ UNCHANGED <<job, mode, done>>
     \/ /\ pc[t] = "record"
        /\ Leave(t)
  /\ UNCHANGED <<rowVars, workerVars, home, cancelVars, up, crashes>>

(* A query of the worker thread raises: the claim is rolled back.          *)
ClaimFails(p) ==
  /\ faults < MaxFault
  /\ faults' = faults + 1
  /\ worker[p] = "claim"
  /\ Idle(p)
  /\ UNCHANGED <<rowVars, held, pool, threadVars, cancelVars, up, crashes>>

(* What the threads of p held in memory is gone; the rows stay.            *)
Lose(p) ==
  /\ up' = [up EXCEPT ![p] = "down"]
  /\ worker' = [worker EXCEPT ![p] = "off"]
  /\ take' = [take EXCEPT ![p] = 0]
  /\ held' = [held EXCEPT ![p] = NoJob]
  /\ pool' = [pool EXCEPT ![p] = <<>>]
  /\ pc' = [t \in Thread |-> IF home[t] = p THEN "idle" ELSE pc[t]]
  /\ job' = [t \in Thread |-> IF home[t] = p THEN NoJob ELSE job[t]]
  /\ mode' = [t \in Thread |-> IF home[t] = p THEN "file" ELSE mode[t]]
  /\ done' = [t \in Thread |-> IF home[t] = p THEN 0 ELSE done[t]]
  /\ res' = [t \in Thread |-> IF home[t] = p THEN "failed" ELSE res[t]]
  /\ cancelling' = {c \in cancelling : c[1] # p}
  /\ UNCHANGED <<rowVars, home, withdrawn, faults>>

Crash(p) ==
  /\ up[p] # "down"
  /\ crashes < MaxCrash
  /\ crashes' = crashes + 1
  /\ Lose(p)

(* An orderly end: no more requests, the executor takes no more jobs, and  *)
(* the interpreter waits for the pool's threads.  The worker and the file  *)
(* threads are daemons and die with it.                                    *)
Shutdown(p) ==
  /\ up[p] = "up"
  /\ crashes < MaxCrash
  /\ crashes' = crashes + 1
  /\ up' = [up EXCEPT ![p] = "stopping"]
  /\ UNCHANGED <<rowVars, workerVars, threadVars, cancelVars, faults>>

Exit(p) ==
  /\ up[p] = "stopping"
  /\ pool[p] = <<>>
  /\ \A t \in PoolThread : home[t] = p => pc[t] = "idle"
  /\ Lose(p)
  /\ UNCHANGED crashes

(* Mutant of Restart: rows left running go back in the queue.              *)
RestartRequeues(p) ==
  /\ up[p] = "down"
  /\ up' = [up EXCEPT ![p] = "up"]
  /\ status' = [j \in Job |-> IF j \in Running THEN "pending" ELSE status[j]]
  /\ UNCHANGED <<kind, created, clock, workerVars, threadVars, cancelVars, crashes, faults>>

Restart(p) ==
  /\ up[p] = "down"
  /\ up' = [up EXCEPT ![p] = "up"]
  /\ UNCHANGED <<rowVars, workerVars, threadVars, cancelVars, crashes, faults>>

-----------------------------------------------------------------------------

Next ==
  \/ \E p \in Proc :
       \/ \E j \in Job :
            \/ \E k \in Kinds : Enqueue(p, j, k)
            \/ RunFile(p, j)
            \/ CancelRead(p, j) \/ CancelWrite(p, j) \/ DeleteJob(p, j)
       \/ Worker(p)
       \/ ClaimFails(p) \/ Crash(p) \/ Shutdown(p) \/ Exit(p) \/ Restart(p)
  \/ \E t \in Thread : ThreadStep(t) \/ QueryFails(t)

Spec == Init /\ [][Next]_vars

(* The operating system runs every thread that can run.                    *)
Fairness ==
  /\ \A p \in Proc : WF_vars(Worker(p)) /\ WF_vars(Exit(p)) /\ WF_vars(Restart(p))
  /\ \A p \in Proc, j \in Job : WF_vars(CancelWrite(p, j))
  /\ \A t \in Thread : WF_vars(ThreadStep(t))

FairSpec == Spec /\ Fairness

-----------------------------------------------------------------------------
(* Properties.                                                             *)

Queue(p) == {pool[p][i] : i \in 1..Len(pool[p])}

(* The jobs that the worker, the pool's queue or a thread has in hand.     *)
Handled ==
  ({held[p] : p \in Proc} \cup {job[t] : t \in Thread}
     \cup UNION {Queue(p) : p \in Proc}) \ {NoJob}

(* No job is in two hands: not on two threads, not on a thread and still   *)
(* in a queue, not claimed by the workers of two processes.  The claim     *)
(* (FOR UPDATE SKIP LOCKED, then 'running' in the same transaction) is     *)
(* what the API guide says prevents a job from running twice.              *)
OneHandler ==
  /\ \A t, u \in Thread : job[t] # NoJob /\ job[t] = job[u] => t = u
  /\ \A p, q \in Proc : held[p] # NoJob /\ held[p] = held[q] => p = q
  /\ \A p, q \in Proc : \A i \in 1..Len(pool[p]), k \in 1..Len(pool[q]) :
       pool[p][i] = pool[q][k] => p = q /\ i = k
  /\ \A p, q \in Proc : held[p] \notin Queue(q)
  /\ \A t \in Thread, p \in Proc : job[t] # NoJob => job[t] # held[p]
  /\ \A t \in Thread, p \in Proc : job[t] \notin Queue(p)

(* A row that is still pending is in nobody's hands: nothing puts a job    *)
(* back to pending, and nothing runs it before its claim is committed.     *)
PendingUntouched ==
  \A j \in Job : status[j] \in {"absent", "pending"} => j \notin Handled

(* A job whose cancel found it pending is never run: claim and cancel      *)
(* contend for the row, and the one that comes second sees the other.      *)
WithdrawnNeverRuns ==
  \A j \in withdrawn : j \notin Handled /\ status[j] \in {"cancelled", "deleted"}

(* Unless a process died or the system database failed, a row says         *)
(* 'running' only while the worker, a queue or a thread still has the job: *)
(* no zombie, whatever cancels and deletes came in between.                *)
NoZombie ==
  crashes = 0 /\ faults = 0 => \A j \in Running : j \in Handled

(* The jobs' executions as JobExecution describes them.                    *)
phaseBar ==
  LET H == Handled IN
  [j \in Job |-> IF status[j] = "absent" THEN "new"
                 ELSE IF status[j] = "pending" THEN "waiting"
                 ELSE IF j \in H THEN "taken" ELSE "over"]

Execution == INSTANCE JobExecution WITH phase <- phaseBar

(* Crashes, restarts, retries of the worker loop, cancels and deletes      *)
(* included, every job is executed at most once.                           *)
ExecutedAtMostOnce == Execution!Spec

(* With no crash and no failing database, a job that was enqueued reaches  *)
(* an end: capacity is given back, and the worker gets to every row.       *)
EnqueuedJobsEnd ==
  \A j \in Job :
    status[j] = "pending" ~> [](status[j] \in Finished \cup {"deleted"})

-----------------------------------------------------------------------------
(* What the documents, docstrings and answers say, and the code does not   *)
(* do: each is checked by a run that finds it violated.                    *)

(* cancel_job: a cancelled job is stopped by the worker, so the row keeps  *)
(* saying so.                                                              *)
CancelSticks ==
  [][\A j \in Job : status[j] = "cancelled" => status'[j] \in {"cancelled", "deleted"}]_vars

(* An added file is upserted in the table; it never replaces the table.    *)
AddedFileNeverReplaces ==
  \A t \in Thread : pc[t] = "load" /\ kind[job[t]] = "upsert" => mode[t] = "upsert"
=============================================================================
