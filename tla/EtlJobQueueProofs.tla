-------------------------- MODULE EtlJobQueueProofs --------------------------
(***************************************************************************)
(* Proofs about the ETL job queue, for any number of jobs, processes and   *)
(* pool threads: a job is never in two hands, a job that is still pending  *)
(* is in nobody's, a job withdrawn while it was pending never runs, and    *)
(* without crashes and failing queries no row stays 'running' by itself.   *)
(***************************************************************************)
EXTENDS EtlJobQueue, TLAPS, FiniteSetTheorems

(* Where the worker and the threads are says what they hold.               *)
Control ==
  /\ \A p \in Proc : worker[p] \in {"claim", "submit"} => take[p] > 0
  /\ \A p \in Proc : worker[p] = "submit" <=> held[p] # NoJob
  /\ \A t \in Thread : pc[t] = "idle" <=> job[t] = NoJob
  /\ \A j \in Job : job[j] \in {NoJob, j}
  /\ \A p \in Proc : up[p] # "up" => crashes > 0

(* A thread that has recorded its result left no 'running' row behind.     *)
Recorded == \A t \in Thread : pc[t] = "table" => status[job[t]] # "running"

-----------------------------------------------------------------------------
(* Types and control.                                                      *)

(* The limit on running rows compares numbers: there are finitely many.    *)
LEMMA RunningCount == Cardinality(Running) \in Nat
  BY FS_CardinalityType, FS_Subset, QueueAssumption DEF Running

TypeInv == TypeOK /\ Control

LEMMA TypeInit == Init => TypeInv
  BY QueueAssumption DEF Init, TypeInv, TypeOK, Control, Status, Kind, ThreadPc,
                         Finished, Thread, PoolThread

LEMMA TypeHandlers ==
  ASSUME TypeInv, NEW p \in Proc, NEW j \in Job,
         \/ \E k \in Kinds : Enqueue(p, j, k)
         \/ RunFile(p, j)
         \/ CancelRead(p, j) \/ CancelWrite(p, j) \/ DeleteJob(p, j)
  PROVE  TypeInv'
<1> USE QueueAssumption DEF TypeInv, Status, Finished
<1>1. CASE \E k \in Kinds : Enqueue(p, j, k)
  BY <1>1, SMTT(30) DEF Enqueue, InsertRow, TypeOK, Control, threadVars, cancelVars, faultVars
<1>2. CASE RunFile(p, j)
  <2>1. j \in Thread /\ "enter" \in ThreadPc /\ "file" \in Kind
    BY DEF Thread, ThreadPc, Kind
  <2>2. /\ status' \in [Job -> Status]
        /\ kind' \in [Job -> Kind]
        /\ created' \in [Job -> Nat]
        /\ clock' \in Nat
    BY <1>2, <2>1 DEF RunFile, InsertRow, TypeOK
  <2>4. /\ pc' \in [Thread -> ThreadPc]
        /\ job' \in [Thread -> Job \cup {NoJob}]
        /\ home' \in [Thread -> Proc]
    BY <1>2, <2>1 DEF RunFile, TypeOK
  <2>5. TypeOK'
    BY <1>2, <2>2, <2>4 DEF RunFile, TypeOK, workerVars, cancelVars, faultVars
  <2>3. Control'
    BY <1>2, <2>1, SMTT(30) DEF RunFile, InsertRow, TypeOK, Control, workerVars, cancelVars, faultVars
  <2> QED BY <2>3, <2>5
<1>3. CASE CancelRead(p, j)
  <2>1. (cancelling \cup {<<p, j>>}) \subseteq Proc \X Job
    BY DEF TypeOK
  <2> QED
    BY <1>3, <2>1 DEF CancelRead, TypeOK, Control, rowVars, workerVars, threadVars, faultVars
<1>4. CASE CancelWrite(p, j)
  BY <1>4 DEF CancelWrite, Updated, TypeOK, Control, workerVars, threadVars, faultVars
<1>5. CASE DeleteJob(p, j)
  BY <1>5 DEF DeleteJob, TypeOK, Control, workerVars, threadVars, cancelVars, faultVars
<1> QED BY <1>1, <1>2, <1>3, <1>4, <1>5

LEMMA TypeWorker ==
  ASSUME TypeInv, NEW p \in Proc, Worker(p) \/ ClaimFails(p)
  PROVE  TypeInv'
<1> USE QueueAssumption DEF TypeInv, Status, Finished
<1>1. CASE CountRunning(p)
  <2>1. MaxConcurrent - Cardinality(Running) \in 1..MaxConcurrent
    BY <1>1, RunningCount DEF CountRunning
  <2> QED
    BY <1>1, <2>1, SMTT(30) DEF CountRunning, TypeOK, Control, rowVars, threadVars, cancelVars, faultVars
<1>2. CASE Claim(p)
  <2>1. CASE Idle(p) /\ UNCHANGED <<status, held>>
    BY <1>2, <2>1, SMTT(30) DEF Claim, Idle, TypeOK, Control, threadVars, cancelVars, faultVars
  <2>2. ASSUME NEW j \in Job,
               status' = [status EXCEPT ![j] = "running"],
               held' = [held EXCEPT ![p] = j],
               worker' = [worker EXCEPT ![p] = "submit"],
               UNCHANGED take
        PROVE  TypeInv'
    <3>1. TypeOK'
      BY <1>2, <2>2 DEF Claim, TypeOK, threadVars, cancelVars, faultVars
    <3>2. Control'
      BY <1>2, <2>2 DEF Claim, TypeOK, Control, threadVars, cancelVars, faultVars
    <3> QED BY <3>1, <3>2
  <2> QED BY <1>2, <2>1, <2>2 DEF Claim, Oldest, Pending
<1>3. CASE Submit(p)
  <2>1. held[p] \in Job /\ take[p] \in 1..MaxConcurrent
    BY <1>3 DEF Submit, TypeOK, Control
  <2>2. Append(pool[p], held[p]) \in Seq(Job)
    BY <2>1 DEF TypeOK
  <2>3. take[p] - 1 \in 0..MaxConcurrent /\ (take[p] > 1 => take[p] - 1 > 0)
    BY <2>1
  <2> DEFINE next == IF take[p] > 1 THEN "claim" ELSE "loop"
  <2>4. CASE /\ pool' = [pool EXCEPT ![p] = Append(@, held[p])]
             /\ take' = [take EXCEPT ![p] = @ - 1]
             /\ worker' = [worker EXCEPT ![p] = next]
    <3>1. next \in {"claim", "loop"}
      OBVIOUS
    <3> HIDE DEF next
    <3>2. TypeOK'
      BY <1>3, <2>2, <2>3, <2>4, <3>1 DEF Submit, TypeOK, rowVars, threadVars, cancelVars,
                                          faultVars
    <3>3. Control'
      BY <1>3, <2>1, <2>3, <2>4, <3>1 DEF Submit, TypeOK, Control, threadVars, faultVars, next
    <3> QED BY <3>2, <3>3
  <2>5. CASE Idle(p) /\ UNCHANGED pool
    <3>1. TypeOK'
      BY <1>3, <2>5, SMTT(30) DEF Submit, Idle, TypeOK, rowVars, threadVars, cancelVars, faultVars
    <3>2. Control'
      BY <1>3, <2>5 DEF Submit, Idle, TypeOK, Control, threadVars, faultVars
    <3> QED BY <3>1, <3>2
  <2> QED BY <1>3, <2>4, <2>5 DEF Submit
<1>4. CASE ClaimFails(p)
  BY <1>4, SMTT(30) DEF ClaimFails, Idle, TypeOK, Control, rowVars, threadVars, cancelVars
<1> QED BY <1>1, <1>2, <1>3, <1>4 DEF Worker

LEMMA TypeThread ==
  ASSUME TypeInv, NEW t \in Thread, ThreadStep(t) \/ QueryFails(t)
  PROVE  TypeInv'
<1> USE QueueAssumption DEF TypeInv, Status, Finished, ThreadPc, Goto, Conclude
<1>1. CASE PickUp(t)
  <2>1. pool[home[t]] \in Seq(Job) /\ pool[home[t]] # <<>> /\ home[t] \in Proc
    BY <1>1 DEF PickUp, TypeOK
  <2>2. Head(pool[home[t]]) \in Job /\ Tail(pool[home[t]]) \in Seq(Job)
    BY <2>1
  <2>3. TypeOK'
    BY <1>1, <2>1, <2>2 DEF PickUp, TypeOK, rowVars, cancelVars, faultVars
  <2>4. t \notin Job
    BY <1>1 DEF PickUp
  <2>5. Control'
    BY <1>1, <2>2, <2>4, SMTT(30) DEF PickUp, TypeOK, Control, rowVars, cancelVars, faultVars
  <2> QED BY <2>3, <2>5
<1>2. CASE Dispatch(t)
  <2>1. ChosenMode(job[t]) \in Kind
    BY <1>2 DEF Dispatch, ChosenMode, TypeOK, Control, Kind
  <2>2. TypeOK'
    <3>1. /\ pc' \in [Thread -> ThreadPc]
          /\ mode' \in [Thread -> Kind]
          /\ res' \in [Thread -> Finished]
      <4>1. CASE /\ mode' = [mode EXCEPT ![t] = ChosenMode(job[t])]
                 /\ Goto(t, "enter")
                 /\ UNCHANGED res
        BY <2>1, <4>1 DEF TypeOK
      <4>2. CASE Conclude(t, "failed") /\ UNCHANGED mode
        BY <4>2 DEF TypeOK
      <4> QED BY <1>2, <4>1, <4>2 DEF Dispatch
    <3> QED
      BY <1>2, <3>1 DEF Dispatch, TypeOK, rowVars, workerVars, cancelVars, faultVars
  <2>3. Control'
    BY <1>2, SMTT(30) DEF Dispatch, TypeOK, Control, workerVars, faultVars
  <2> QED BY <2>2, <2>3
<1>3. CASE Enter(t)
  <2>1. TypeOK'
    <3>1. /\ status' \in [Job -> Status]
          /\ pc' \in [Thread -> ThreadPc]
          /\ res' \in [Thread -> Finished]
      <4>1. CASE status' = Updated(job[t], "running") /\ Goto(t, "load") /\ UNCHANGED res
        BY <4>1 DEF Updated, TypeOK
      <4>2. CASE Conclude(t, "failed") /\ UNCHANGED status
        BY <4>2 DEF TypeOK
      <4> QED BY <1>3, <4>1, <4>2 DEF Enter
    <3> QED
      BY <1>3, <3>1 DEF Enter, TypeOK, workerVars, cancelVars, faultVars
  <2>2. Control'
    BY <1>3, SMTT(30) DEF Enter, TypeOK, Control, workerVars, faultVars
  <2> QED BY <2>1, <2>2
<1>4. CASE LoadBatch(t)
  <2>1. TypeOK'
    <3>1. done[t] + 1 \in 0..MaxBatch
      BY <1>4 DEF LoadBatch, TypeOK
    <3> QED
      BY <1>4, <3>1 DEF LoadBatch, TypeOK, rowVars, workerVars, cancelVars, faultVars
  <2>2. Control'
    BY <1>4 DEF LoadBatch, TypeOK, Control, workerVars, faultVars
  <2> QED BY <2>1, <2>2
<1>5. CASE StopOnCancel(t)
  <2>1. TypeOK'
    BY <1>5 DEF StopOnCancel, TypeOK, rowVars, workerVars, cancelVars, faultVars
  <2>2. Control'
    BY <1>5 DEF StopOnCancel, TypeOK, Control, workerVars, faultVars
  <2> QED BY <2>1, <2>2
<1>6. CASE EndLoad(t)
  <2>1. TypeOK'
    BY <1>6 DEF EndLoad, TypeOK, rowVars, workerVars, cancelVars, faultVars
  <2>2. Control'
    BY <1>6 DEF EndLoad, TypeOK, Control, workerVars, faultVars
  <2> QED BY <2>1, <2>2
<1>7. CASE Record(t)
  <2>1. TypeOK'
    BY <1>7 DEF Record, Updated, TypeOK, workerVars, cancelVars, faultVars
  <2>2. Control'
    BY <1>7 DEF Record, TypeOK, Control, workerVars, faultVars
  <2> QED BY <2>1, <2>2
<1>8. CASE RecordTable(t)
  <2>1. TypeOK'
    BY <1>8, SMTT(30) DEF RecordTable, Leave, Kind, TypeOK, rowVars, workerVars, cancelVars, faultVars
  <2>2. Control'
    BY <1>8 DEF RecordTable, Leave, TypeOK, Control, workerVars, faultVars
  <2> QED BY <2>1, <2>2
<1>9. CASE QueryFails(t)
  <2>1. faults + 1 \in 0..MaxFault
    BY <1>9 DEF QueryFails, TypeOK
  <2>2. CASE pc[t] # "idle" /\ Conclude(t, "failed") /\ UNCHANGED <<job, mode, done>>
    <3>1. TypeOK'
      BY <1>9, <2>1, <2>2 DEF QueryFails, TypeOK, rowVars, workerVars, cancelVars
    <3>2. Control'
      BY <1>9, <2>2 DEF QueryFails, TypeOK, Control, workerVars
    <3> QED BY <3>1, <3>2
  <2>3. CASE Leave(t)
    <3>1. TypeOK'
      BY <1>9, <2>1, <2>3, SMTT(30) DEF QueryFails, Leave, Kind, TypeOK, rowVars, workerVars, cancelVars
    <3>2. Control'
      BY <1>9, <2>3 DEF QueryFails, Leave, TypeOK, Control, workerVars
    <3> QED BY <3>1, <3>2
  <2> QED BY <1>9, <2>2, <2>3 DEF QueryFails
<1> QED BY <1>1, <1>2, <1>3, <1>4, <1>5, <1>6, <1>7, <1>8, <1>9 DEF ThreadStep

LEMMA TypeLose ==
  ASSUME TypeInv, NEW p \in Proc, Lose(p), crashes' \in 0..MaxCrash, crashes' >= crashes,
         crashes' > 0
  PROVE  TypeInv'
<1> USE QueueAssumption DEF TypeInv, Status, Finished, ThreadPc, Lose
<1>1. <<>> \in Seq(Job) /\ "file" \in Kind
  BY DEF Kind
<1>2. TypeOK'
  BY <1>1, SMTT(30) DEF TypeOK, rowVars
<1>3. Control'
  BY DEF TypeOK, Control, Thread
<1> QED BY <1>2, <1>3

LEMMA TypeProcess ==
  ASSUME TypeInv, NEW p \in Proc, Crash(p) \/ Shutdown(p) \/ Exit(p) \/ Restart(p)
  PROVE  TypeInv'
<1>1. crashes \in Nat /\ MaxCrash \in Nat
  BY QueueAssumption DEF TypeInv, TypeOK
<1>2. CASE Crash(p)
  BY <1>1, <1>2, TypeLose DEF Crash
<1>3. CASE Shutdown(p)
  BY <1>1, <1>3 DEF Shutdown, TypeInv, TypeOK, Control, rowVars, workerVars, threadVars, cancelVars
<1>4. CASE Exit(p)
  <2>1. crashes \in 0..MaxCrash /\ crashes > 0
    BY <1>4 DEF Exit, TypeInv, TypeOK, Control
  <2> QED BY <1>4, <2>1, <1>1, TypeLose DEF Exit
<1>5. CASE Restart(p)
  BY <1>1, <1>5 DEF Restart, TypeInv, TypeOK, Control, rowVars, workerVars, threadVars, cancelVars
<1> QED BY <1>2, <1>3, <1>4, <1>5

LEMMA TypeStep == TypeInv /\ [Next]_vars => TypeInv'
<1> SUFFICES ASSUME TypeInv, [Next]_vars PROVE TypeInv'
  OBVIOUS
<1>1. CASE UNCHANGED vars
  BY <1>1 DEF TypeInv, TypeOK, Control, vars, rowVars, workerVars, threadVars, cancelVars,
              faultVars
<1>2. CASE Next
  BY <1>2, TypeHandlers, TypeWorker, TypeThread, TypeProcess DEF Next
<1> QED BY <1>1, <1>2

(* Every variable keeps its type: the number of jobs the worker may still  *)
(* claim stays between one and MaxConcurrent while it claims, and what it  *)
(* submits is a job.                                                       *)
THEOREM TypeCorrect == Spec => []TypeOK
<1>1. TypeInv => TypeOK
  BY DEF TypeInv
<1> QED BY <1>1, TypeInit, TypeStep, PTL DEF Spec

-----------------------------------------------------------------------------
(* The hands a job passes through: a worker's, a pool's queue, a thread's.  *)

LEMMA HandledIs ==
  \A j : j \in Handled <=> /\ j # NoJob
                           /\ \/ \E p \in Proc : held[p] = j
                              \/ \E t \in Thread : job[t] = j
                              \/ \E p \in Proc : \E i \in 1..Len(pool[p]) : pool[p][i] = j
  BY DEF Handled, Queue

HandsUnchanged == UNCHANGED <<held, pool, job>>

LEMMA HandsSame ==
  ASSUME OneHandler, HandsUnchanged
  PROVE  OneHandler' /\ Handled' = Handled
  BY DEF OneHandler, Handled, Queue, HandsUnchanged

(* A job that nobody has is claimed.                                       *)
LEMMA HandsClaim ==
  ASSUME TypeOK, OneHandler, NEW p \in Proc, NEW j \in Job, j \notin Handled,
         held[p] = NoJob, held' = [held EXCEPT ![p] = j], UNCHANGED <<pool, job>>
  PROVE  OneHandler' /\ Handled' = Handled \cup {j}
<1> USE QueueAssumption
<1>1. \A q \in Proc : held'[q] = IF q = p THEN j ELSE held[q]
  BY DEF TypeOK
<1>2. /\ \A q \in Proc : held[q] # j
      /\ \A t \in Thread : job[t] # j
      /\ \A q \in Proc : \A i \in 1..Len(pool[q]) : pool[q][i] # j
  BY HandledIs
<1>3. OneHandler'
  <2>1. \A q, r \in Proc : held'[q] # NoJob /\ held'[q] = held'[r] => q = r
    BY <1>1, <1>2 DEF OneHandler
  <2>2. \A q, r \in Proc : held'[q] \notin Queue(r)
    BY <1>1, <1>2 DEF OneHandler, Queue
  <2>3. \A t \in Thread, q \in Proc : job[t] # NoJob => job[t] # held'[q]
    BY <1>1, <1>2 DEF OneHandler
  <2>4. \A q \in Proc : Queue(q)' = Queue(q) /\ pool'[q] = pool[q]
    BY DEF Queue
  <2>5. /\ \A t, u \in Thread : job'[t] # NoJob /\ job'[t] = job'[u] => t = u
        /\ \A q, r \in Proc : \A i \in 1..Len(pool'[q]), k \in 1..Len(pool'[r]) :
             pool'[q][i] = pool'[r][k] => q = r /\ i = k
        /\ \A t \in Thread, q \in Proc : job'[t] \notin Queue(q)'
    BY <2>4 DEF OneHandler
  <2>6. /\ \A q, r \in Proc : held'[q] \notin Queue(r)'
        /\ \A t \in Thread, q \in Proc : job'[t] # NoJob => job'[t] # held'[q]
    BY <2>2, <2>3, <2>4
  <2> HIDE QueueAssumption
  <2> QED BY <2>1, <2>5, <2>6 DEF OneHandler
<1>4. Handled' = Handled \cup {j}
  BY <1>1, <1>2 DEF Handled, Queue
<1> QED BY <1>3, <1>4

(* A job that nobody has starts on the file thread of its name.            *)
LEMMA HandsRunFile ==
  ASSUME TypeOK, OneHandler, NEW j \in Job, j \notin Handled,
         job[j] = NoJob, job' = [job EXCEPT ![j] = j], UNCHANGED <<pool, held>>
  PROVE  OneHandler' /\ Handled' = Handled \cup {j}
<1> USE QueueAssumption
<1>1. j \in Thread /\ \A t \in Thread : job'[t] = IF t = j THEN j ELSE job[t]
  BY DEF TypeOK, Thread
<1>2. /\ \A q \in Proc : held[q] # j
      /\ \A t \in Thread : job[t] # j
      /\ \A q \in Proc : \A i \in 1..Len(pool[q]) : pool[q][i] # j
  BY HandledIs
<1>3. OneHandler'
  <2>1. \A t, u \in Thread : job'[t] # NoJob /\ job'[t] = job'[u] => t = u
    BY <1>1, <1>2 DEF OneHandler
  <2>2. \A t \in Thread, p \in Proc : job'[t] # NoJob => job'[t] # held[p]
    BY <1>1, <1>2 DEF OneHandler
  <2>3. \A t \in Thread, p \in Proc : job'[t] \notin Queue(p)
    BY <1>1, <1>2, SMTT(30) DEF OneHandler, Queue
  <2>4. \A q \in Proc : Queue(q)' = Queue(q) /\ pool'[q] = pool[q] /\ held'[q] = held[q]
    BY DEF Queue
  <2>5. /\ \A q, r \in Proc : held'[q] # NoJob /\ held'[q] = held'[r] => q = r
        /\ \A q, r \in Proc : \A i \in 1..Len(pool'[q]), k \in 1..Len(pool'[r]) :
             pool'[q][i] = pool'[r][k] => q = r /\ i = k
        /\ \A q, r \in Proc : held'[q] \notin Queue(r)'
    BY <2>4 DEF OneHandler
  <2>6. /\ \A t \in Thread, q \in Proc : job'[t] # NoJob => job'[t] # held'[q]
        /\ \A t \in Thread, q \in Proc : job'[t] \notin Queue(q)'
    BY <2>2, <2>3, <2>4
  <2> HIDE QueueAssumption
  <2> QED BY <2>1, <2>5, <2>6 DEF OneHandler
<1>4. Handled' = Handled \cup {j}
  BY <1>1, <1>2 DEF Handled, Queue
<1> QED BY <1>3, <1>4

(* The worker hands over the job it holds, or drops it.                    *)
LEMMA HandsSubmit ==
  ASSUME TypeOK, OneHandler, NEW p \in Proc, held[p] \in Job,
         held' = [held EXCEPT ![p] = NoJob],
         \/ pool' = [pool EXCEPT ![p] = Append(@, held[p])]
         \/ UNCHANGED pool,
         UNCHANGED job
  PROVE  /\ OneHandler'
         /\ Handled' \subseteq Handled
         /\ pool' # pool => Handled' = Handled
<1> USE QueueAssumption
<1>1. \A q \in Proc : held'[q] = IF q = p THEN NoJob ELSE held[q]
  BY DEF TypeOK
<1>2. CASE UNCHANGED pool
  <2>1. \A q, r \in Proc : held'[q] # NoJob /\ held'[q] = held'[r] => q = r
    BY <1>1 DEF OneHandler
  <2>2. \A q \in Proc : NoJob \notin Queue(q)
    BY SMTT(30) DEF Queue, TypeOK
  <2>3. \A q, r \in Proc : held'[q] \notin Queue(r)
    BY <1>1, <2>2 DEF OneHandler
  <2>4. \A t \in Thread, q \in Proc : job[t] # NoJob => job[t] # held'[q]
    BY <1>1 DEF OneHandler
  <2>5. OneHandler'
    BY <1>2, <2>1, <2>3, <2>4 DEF OneHandler, Queue
  <2>6. Handled' \subseteq Handled
    BY <1>1, <1>2 DEF Handled, Queue
  <2> QED BY <1>2, <2>5, <2>6
<1>3. CASE pool' = [pool EXCEPT ![p] = Append(@, held[p])]
  <2> DEFINE n == Len(pool[p])
  <2>1. n \in Nat /\ \A q \in Proc : pool[q] \in Seq(Job) /\ Len(pool[q]) \in Nat
    BY DEF TypeOK
  <2>2. /\ Len(pool'[p]) = n + 1
        /\ pool'[p][n + 1] = held[p]
        /\ \A i \in 1..n : pool'[p][i] = pool[p][i]
        /\ \A q \in Proc \ {p} : pool'[q] = pool[q]
    BY <1>3, <2>1 DEF TypeOK
  <2>3. \A i \in 1..(n + 1) : i \in 1..n \/ i = n + 1
    BY <2>1
  <2>4. /\ Queue(p)' = Queue(p) \cup {held[p]}
        /\ \A q \in Proc \ {p} : Queue(q)' = Queue(q)
    <3>1. \A j : j \in Queue(p)' => j \in Queue(p) \cup {held[p]}
      BY <2>2, <2>3 DEF Queue
    <3>2. \A j : j \in Queue(p) => j \in Queue(p)'
      BY <2>1, <2>2, SMTT(30) DEF Queue
    <3>3. held[p] \in Queue(p)'
      BY <2>1, <2>2 DEF Queue
    <3>4. \A q \in Proc \ {p} : Queue(q)' = Queue(q)
      BY <2>2 DEF Queue
    <3> QED BY <3>1, <3>2, <3>3, <3>4
  <2>5. \A q \in Proc : held[p] \notin Queue(q) /\ NoJob \notin Queue(q)
    BY <2>1 DEF OneHandler, Queue
  <2> HIDE DEF n
  <2>6. \A t, u \in Thread : job'[t] # NoJob /\ job'[t] = job'[u] => t = u
    BY DEF OneHandler
  <2>7. \A q, r \in Proc : held'[q] # NoJob /\ held'[q] = held'[r] => q = r
    BY <1>1 DEF OneHandler
  <2>8. \A q, r \in Proc : \A i \in 1..Len(pool'[q]), k \in 1..Len(pool'[r]) :
          pool'[q][i] = pool'[r][k] => q = r /\ i = k
    <3> SUFFICES ASSUME NEW q \in Proc, NEW r \in Proc,
                        NEW i \in 1..Len(pool'[q]), NEW k \in 1..Len(pool'[r]),
                        pool'[q][i] = pool'[r][k]
                 PROVE  q = r /\ i = k
      OBVIOUS
    <3>1. \A a \in Proc : \A b \in 1..Len(pool[a]) : pool[a][b] # held[p]
      BY <2>5 DEF Queue
    <3>2. (q = p /\ i = n + 1) \/ (i \in 1..Len(pool[q]) /\ pool'[q][i] = pool[q][i])
      BY <2>2, <2>3 DEF n
    <3>3. (r = p /\ k = n + 1) \/ (k \in 1..Len(pool[r]) /\ pool'[r][k] = pool[r][k])
      BY <2>2, <2>3 DEF n
    <3> QED BY <2>2, <3>1, <3>2, <3>3 DEF OneHandler
  <2>9. \A q, r \in Proc : held'[q] \notin Queue(r)'
    BY <1>1, <2>4, <2>5 DEF OneHandler
  <2>10. \A t \in Thread, q \in Proc : job'[t] # NoJob => job'[t] # held'[q]
    BY <1>1 DEF OneHandler
  <2>11. \A t \in Thread, q \in Proc : job'[t] \notin Queue(q)'
    BY <2>4 DEF OneHandler
  <2>12. OneHandler'
    BY <2>6, <2>7, <2>8, <2>9, <2>10, <2>11 DEF OneHandler, Queue
  <2>13. Handled' = Handled
    BY <1>1, <2>4 DEF Handled
  <2> QED BY <2>12, <2>13
<1> QED BY <1>2, <1>3

(* An idle thread takes the first job of its pool's queue.                 *)
LEMMA HandsPickUp ==
  ASSUME TypeOK, OneHandler, NEW p \in Proc, NEW t \in Thread,
         job[t] = NoJob, pool[p] # <<>>,
         job' = [job EXCEPT ![t] = Head(pool[p])],
         pool' = [pool EXCEPT ![p] = Tail(@)],
         UNCHANGED held
  PROVE  OneHandler' /\ Handled' = Handled
<1> USE QueueAssumption
<1> DEFINE n == Len(pool[p])
           h == Head(pool[p])
<1>1. /\ n \in Nat \ {0} /\ h = pool[p][1] /\ h \in Job /\ h # NoJob
      /\ \A q \in Proc : pool[q] \in Seq(Job) /\ Len(pool[q]) \in Nat
  BY SMTT(30) DEF TypeOK
<1>2. /\ Len(pool'[p]) = n - 1
      /\ \A i \in 1..(n - 1) : i + 1 \in 1..n /\ pool'[p][i] = pool[p][i + 1]
      /\ \A q \in Proc \ {p} : pool'[q] = pool[q]
  BY <1>1 DEF TypeOK
<1>3. \A u \in Thread : job'[u] = IF u = t THEN h ELSE job[u]
  BY DEF TypeOK
<1>4. h \in Queue(p)
  BY <1>1 DEF Queue
<1>5. /\ \A q \in Proc : held[q] # h
      /\ \A u \in Thread : job[u] # h
      /\ \A q \in Proc : \A i \in 1..Len(pool[q]) : pool[q][i] = h => q = p /\ i = 1
  BY <1>1, <1>4 DEF OneHandler
<1> HIDE DEF n, h
<1>6. \A q \in Proc : \A i \in 1..Len(pool'[q]) :
        \/ q = p /\ i + 1 \in 1..n /\ pool'[q][i] = pool[q][i + 1] /\ i \in Nat
        \/ q # p /\ i \in 1..Len(pool[q]) /\ pool'[q][i] = pool[q][i]
  BY <1>1, <1>2
<1>7. \A q, r \in Proc : \A i \in 1..Len(pool'[q]), k \in 1..Len(pool'[r]) :
        pool'[q][i] = pool'[r][k] => q = r /\ i = k
  <2> SUFFICES ASSUME NEW q \in Proc, NEW r \in Proc,
                      NEW i \in 1..Len(pool'[q]), NEW k \in 1..Len(pool'[r]),
                      pool'[q][i] = pool'[r][k]
               PROVE  q = r /\ i = k
    OBVIOUS
  <2>1. PICK a \in 1..Len(pool[q]) : pool'[q][i] = pool[q][a] /\ a = IF q = p THEN i + 1 ELSE i
    BY <1>6 DEF n
  <2>2. PICK b \in 1..Len(pool[r]) : pool'[r][k] = pool[r][b] /\ b = IF r = p THEN k + 1 ELSE k
    BY <1>6 DEF n
  <2>3. q = r /\ a = b
    BY <2>1, <2>2 DEF OneHandler
  <2> QED BY <1>2, <2>1, <2>2, <2>3
<1>8. \A q \in Proc : h \notin Queue(q)' /\ Queue(q)' \subseteq Queue(q)
  <2> SUFFICES ASSUME NEW q \in Proc, NEW i \in 1..Len(pool'[q])
               PROVE  pool'[q][i] # h /\ pool'[q][i] \in Queue(q)
    BY DEF Queue
  <2>1. CASE q = p /\ i + 1 \in 1..n /\ pool'[q][i] = pool[q][i + 1] /\ i \in Nat
    <3>1. i + 1 # 1
      BY <2>1, <1>2
    <3> QED BY <2>1, <3>1, <1>5 DEF Queue, n
  <2>2. CASE q # p /\ i \in 1..Len(pool[q]) /\ pool'[q][i] = pool[q][i]
    BY <2>2, <1>5 DEF Queue
  <2> QED BY <1>6, <2>1, <2>2
<1>9. \A q \in Proc : Queue(q) \subseteq Queue(q)' \cup {h}
  <2> SUFFICES ASSUME NEW q \in Proc, NEW i \in 1..Len(pool[q]), pool[q][i] # h
               PROVE  pool[q][i] \in Queue(q)'
    BY ZenonT(40) DEF Queue
  <2>1. CASE q = p
    <3>1. i # 1 /\ i - 1 \in 1..(n - 1) /\ (i - 1) + 1 = i
      BY <2>1, <1>1 DEF n, h
    <3>2. pool'[p][i - 1] = pool[p][i] /\ i - 1 \in 1..Len(pool'[p])
      BY <3>1, <1>2
    <3> QED BY <2>1, <3>2 DEF Queue
  <2>2. CASE q # p
    BY <2>2, <1>2 DEF Queue
  <2> QED BY <2>1, <2>2
<1>10. OneHandler'
  <2>1. \A u, v \in Thread : job'[u] # NoJob /\ job'[u] = job'[v] => u = v
    BY <1>3, <1>5 DEF OneHandler
  <2>2. \A q, r \in Proc : held[q] \notin Queue(r)'
    BY <1>8 DEF OneHandler
  <2>3. \A u \in Thread, q \in Proc : job'[u] # NoJob => job'[u] # held[q]
    BY <1>3, <1>5 DEF OneHandler
  <2>4. \A u \in Thread, q \in Proc : job'[u] \notin Queue(q)'
    BY <1>3, <1>8 DEF OneHandler
  <2> QED BY <1>7, <2>1, <2>2, <2>3, <2>4, SMTT(30) DEF OneHandler, Queue
<1>11. Handled' = Handled
  <2>1. {job'[u] : u \in Thread} \subseteq {job[u] : u \in Thread} \cup {h}
    BY <1>3
  <2>2. {job[u] : u \in Thread} \subseteq {job'[u] : u \in Thread} \cup {NoJob}
    BY <1>3
  <2>3. h \in {job'[u] : u \in Thread}
    BY <1>3
  <2> QED BY <2>1, <2>2, <2>3, <1>1, <1>4, <1>8, <1>9 DEF Handled
<1> QED BY <1>10, <1>11

(* A thread lets go of its job.                                            *)
LEMMA HandsLeave ==
  ASSUME TypeOK, OneHandler, NEW t \in Thread,
         job' = [job EXCEPT ![t] = NoJob], UNCHANGED <<held, pool>>
  PROVE  OneHandler' /\ Handled' = Handled \ {job[t]}
<1> USE QueueAssumption
<1>1. \A u \in Thread : job'[u] = IF u = t THEN NoJob ELSE job[u]
  BY DEF TypeOK
<1>2. \A q \in Proc : NoJob \notin Queue(q)
  BY SMTT(30) DEF Queue, TypeOK
<1>3. OneHandler'
  <2>1. \A u, v \in Thread : job'[u] # NoJob /\ job'[u] = job'[v] => u = v
    BY <1>1 DEF OneHandler
  <2>2. \A u \in Thread, q \in Proc : job'[u] # NoJob => job'[u] # held[q]
    BY <1>1 DEF OneHandler
  <2>3. \A u \in Thread, q \in Proc : job'[u] \notin Queue(q)
    BY <1>1, <1>2 DEF OneHandler
  <2> QED BY <2>1, <2>2, <2>3 DEF OneHandler, Queue
<1>4. ASSUME NEW j \in Handled', j = job[t] PROVE FALSE
  BY <1>1, <1>4, <1>2, HandledIs DEF OneHandler, Handled, Queue
<1>5. Handled' \subseteq Handled /\ Handled \subseteq Handled' \cup {job[t]}
  BY <1>1 DEF Handled, Queue
<1> QED BY <1>3, <1>4, <1>5

(* A process loses what its worker, its queue and its threads had.         *)
LEMMA HandsLose ==
  ASSUME TypeOK, OneHandler, NEW p \in Proc, Lose(p)
  PROVE  OneHandler' /\ Handled' \subseteq Handled
<1> USE QueueAssumption
<1>1. /\ \A q \in Proc : held'[q] \in {held[q], NoJob}
      /\ \A t \in Thread : job'[t] \in {job[t], NoJob}
      /\ \A q \in Proc : pool'[q] = pool[q] \/ pool'[q] = <<>>
  BY DEF Lose, TypeOK
<1>2. \A q \in Proc : NoJob \notin Queue(q) /\ Queue(q)' \subseteq Queue(q)
  <2>1. \A q \in Proc : pool'[q] = <<>> => Queue(q)' = {}
    BY DEF Queue
  <2> QED BY <1>1, <2>1, SMTT(30) DEF Queue, TypeOK
<1>3. \A q \in Proc : \A i \in 1..Len(pool'[q]) : i \in 1..Len(pool[q]) /\ pool'[q][i] = pool[q][i]
  BY <1>1
<1>4. OneHandler'
  <2>1. \A t, u \in Thread : job'[t] # NoJob /\ job'[t] = job'[u] => t = u
    BY <1>1 DEF OneHandler
  <2>2. \A q, r \in Proc : held'[q] # NoJob /\ held'[q] = held'[r] => q = r
    BY <1>1 DEF OneHandler
  <2>3. \A q, r \in Proc : \A i \in 1..Len(pool'[q]), k \in 1..Len(pool'[r]) :
          pool'[q][i] = pool'[r][k] => q = r /\ i = k
    BY <1>3 DEF OneHandler
  <2>4. \A q, r \in Proc : held'[q] \notin Queue(r)'
    BY <1>1, <1>2 DEF OneHandler
  <2>5. \A t \in Thread, q \in Proc : job'[t] # NoJob => job'[t] # held'[q]
    BY <1>1 DEF OneHandler
  <2>6. \A t \in Thread, q \in Proc : job'[t] \notin Queue(q)'
    BY <1>1, <1>2 DEF OneHandler
  <2> QED BY <2>1, <2>2, <2>3, <2>4, <2>5, <2>6 DEF OneHandler, Queue
<1>5. Handled' \subseteq Handled
  BY <1>1, <1>2 DEF Handled
<1> QED BY <1>4, <1>5

-----------------------------------------------------------------------------
(* The invariant, and what a step has to respect to preserve it.           *)

Early == {"absent", "pending"}

HandsInv ==
  /\ OneHandler
  /\ PendingUntouched
  /\ WithdrawnNeverRuns
  /\ Recorded
  /\ NoZombie

(* How a step may change the rows: none goes back in the queue, a row that *)
(* is cancelled or deleted stays so unless somebody has the job, and a row *)
(* starts to run from the queue, at its insertion, or by its own thread.   *)
RowsMove ==
  \A j \in Job :
    /\ status'[j] \in Early => status[j] \in Early
    /\ status[j] \in {"cancelled", "deleted"} /\ j \notin Handled
         => status'[j] \in {"cancelled", "deleted"}
    /\ status'[j] = "running" /\ status[j] # "running"
         => \/ status[j] \in Early
            \/ \E t \in Thread : pc[t] = "enter" /\ job[t] = j

(* How a step may change who has a job: only a job that starts to run from *)
(* the queue or at its insertion gets somebody, and while nothing breaks a *)
(* job is only let go when its row has stopped running.                    *)
HandsMove ==
  /\ \A j \in Handled' : j \in Handled \/ (status[j] \in Early /\ status'[j] = "running")
  /\ crashes' = 0 /\ faults' = 0 => crashes = 0 /\ faults = 0
  /\ \A j \in Job : status[j] \in Early /\ status'[j] = "running" => j \in Handled'
  /\ crashes' = 0 /\ faults' = 0 => \A j \in Handled \ Handled' : status'[j] # "running"

OthersMove ==
  /\ \A j \in withdrawn' : j \in withdrawn \/ (status[j] = "pending" /\ status'[j] = "cancelled")
  /\ \A t \in Thread :
       pc'[t] = "table" => \/ pc[t] = "table" /\ job'[t] = job[t]
                          \/ status'[job'[t]] # "running"

LEMMA Preserved ==
  ASSUME TypeInv, TypeInv', HandsInv, OneHandler', RowsMove, HandsMove, OthersMove
  PROVE  HandsInv'
<1> USE QueueAssumption DEF HandsInv
<1>1. /\ withdrawn \subseteq Job /\ withdrawn' \subseteq Job
      /\ Handled \subseteq Job /\ Handled' \subseteq Job
  <2>1. \A p \in Proc : Queue(p) \subseteq Job /\ Queue(p)' \subseteq Job
    <3>1. \A p \in Proc : pool[p] \in Seq(Job) /\ pool'[p] \in Seq(Job)
      BY DEF TypeInv, TypeOK
    <3> QED BY <3>1 DEF Queue
  <2> QED BY <2>1 DEF TypeInv, TypeOK, Handled
<1>2. PendingUntouched'
  BY <1>1 DEF PendingUntouched, RowsMove, HandsMove, Early
<1>3. WithdrawnNeverRuns'
  <2> SUFFICES ASSUME NEW j \in withdrawn'
               PROVE  j \notin Handled' /\ status'[j] \in {"cancelled", "deleted"}
    BY DEF WithdrawnNeverRuns
  <2>1. CASE j \in withdrawn
    BY <1>1, <2>1 DEF WithdrawnNeverRuns, RowsMove, HandsMove, Early
  <2>2. CASE status[j] = "pending" /\ status'[j] = "cancelled"
    <3>1. j \notin Handled
      BY <1>1, <2>2 DEF PendingUntouched
    <3>2. j \notin Handled'
      BY <1>1, <2>2, <3>1, <1>2 DEF HandsMove, Early
    <3> QED BY <2>2, <3>2
  <2> QED BY <2>1, <2>2 DEF OthersMove
<1>4. Recorded'
  <2> SUFFICES ASSUME NEW t \in Thread, pc'[t] = "table", pc[t] = "table", job'[t] = job[t],
                      status'[job[t]] = "running"
               PROVE  FALSE
    BY DEF Recorded, OthersMove
  <2>1. job[t] \in Job /\ status[job[t]] # "running"
    BY ZenonT(40) DEF TypeInv, TypeOK, Control, Recorded
  <2>2. job[t] \in Handled
    BY <2>1, HandledIs
  <2>3. status[job[t]] \notin Early
    BY <2>1, <2>2 DEF PendingUntouched, Early
  <2> QED BY <2>1, <2>3 DEF RowsMove, OneHandler
<1>5. NoZombie'
  <2> SUFFICES ASSUME crashes' = 0, faults' = 0, NEW j \in Job, status'[j] = "running"
               PROVE  j \in Handled'
    BY DEF NoZombie, Running
  <2>1. CASE status[j] \in Early
    BY <2>1 DEF HandsMove
  <2>2. CASE status[j] = "running"
    BY <2>2 DEF HandsMove, NoZombie, Running
  <2>3. CASE \E t \in Thread : pc[t] = "enter" /\ job[t] = j
    <3>1. j \in Handled
      BY <2>3, HandledIs
    <3> QED BY <3>1 DEF HandsMove
  <2> QED BY <2>1, <2>2, <2>3 DEF RowsMove
<1> QED BY <1>2, <1>3, <1>4, <1>5

LEMMA HandsInit == Init => HandsInv
<1> SUFFICES ASSUME Init PROVE HandsInv
  OBVIOUS
<1> USE QueueAssumption
<1>1. /\ \A p \in Proc : held[p] = NoJob /\ pool[p] = <<>>
      /\ \A t \in Thread : job[t] = NoJob /\ pc[t] = "idle"
      /\ \A j \in Job : status[j] = "absent"
  BY DEF Init
<1>2. \A p \in Proc : Queue(p) = {}
  BY <1>1 DEF Queue
<1>3. Handled = {}
  BY <1>1, <1>2 DEF Handled
<1>4. OneHandler
  BY <1>1, <1>2 DEF OneHandler
<1>5. withdrawn = {}
  BY DEF Init
<1> QED
  BY <1>1, <1>3, <1>4, <1>5
     DEF HandsInv, PendingUntouched, WithdrawnNeverRuns, Recorded, NoZombie, Running

(* A step that leaves every job in the hands it is in.                     *)
LEMMA SameHands ==
  ASSUME TypeInv, TypeInv', HandsInv, HandsUnchanged, RowsMove, OthersMove,
         crashes' = 0 /\ faults' = 0 => crashes = 0 /\ faults = 0,
         \A j \in Job : status[j] \in Early => status'[j] # "running"
  PROVE  HandsInv'
<1>1. OneHandler' /\ Handled' = Handled
  BY HandsSame DEF HandsInv
<1>2. HandsMove
  BY <1>1 DEF HandsMove
<1> QED BY <1>1, <1>2, Preserved

LEMMA HandsHandlers ==
  ASSUME TypeInv, TypeInv', HandsInv, NEW p \in Proc, NEW j \in Job,
         \/ \E k \in Kinds : Enqueue(p, j, k)
         \/ RunFile(p, j)
         \/ CancelRead(p, j) \/ CancelWrite(p, j) \/ DeleteJob(p, j)
  PROVE  HandsInv'
<1> USE QueueAssumption
<1> USE DEF HandsUnchanged, workerVars, threadVars, cancelVars, faultVars, rowVars
<1>0. status \in [Job -> Status] /\ job \in [Thread -> Job \cup {NoJob}]
  BY DEF TypeInv, TypeOK
<1>1. CASE \E k \in Kinds : Enqueue(p, j, k)
  <2>1. /\ status[j] = "absent" /\ status' = [status EXCEPT ![j] = "pending"]
        /\ HandsUnchanged /\ UNCHANGED <<pc, withdrawn, crashes, faults>>
    BY <1>1 DEF Enqueue, InsertRow
  <2>2. RowsMove /\ \A i \in Job : status[i] \in Early => status'[i] # "running"
    BY <1>0, <2>1 DEF RowsMove, Early
  <2>3. OthersMove
    BY <2>1 DEF OthersMove
  <2> QED BY <2>1, <2>2, <2>3, SameHands
<1>2. CASE RunFile(p, j)
  <2>1. /\ status[j] = "absent" /\ status' = [status EXCEPT ![j] = "running"]
        /\ pc' = [pc EXCEPT ![j] = "enter"] /\ job' = [job EXCEPT ![j] = j]
        /\ UNCHANGED <<held, pool, withdrawn, crashes, faults>>
    BY <1>2 DEF RunFile, InsertRow
  <2>2. j \notin Handled
    BY <2>1 DEF HandsInv, PendingUntouched
  <2>3. j \in Thread /\ job[j] = NoJob
    BY <2>2, HandledIs DEF Thread, TypeInv, Control
  <2>4. OneHandler' /\ Handled' = Handled \cup {j}
    BY <2>1, <2>2, <2>3, HandsRunFile DEF HandsInv, TypeInv
  <2>5. RowsMove
    BY <1>0, <2>1 DEF RowsMove, Early
  <2>6. HandsMove
    BY <1>0, <2>1, <2>4 DEF HandsMove, Early
  <2>7. OthersMove
    BY <1>0, <2>1, <2>3 DEF OthersMove, TypeInv, TypeOK
  <2> QED BY <2>4, <2>5, <2>6, <2>7, Preserved
<1>3. CASE CancelRead(p, j)
  <2>1. HandsUnchanged /\ UNCHANGED <<status, pc, withdrawn, crashes, faults>>
    BY <1>3 DEF CancelRead
  <2>2. RowsMove /\ OthersMove /\ \A i \in Job : status[i] \in Early => status'[i] # "running"
    BY <2>1 DEF RowsMove, OthersMove, HandsUnchanged, Early
  <2> QED BY <2>1, <2>2, SameHands
<1>4. CASE CancelWrite(p, j)
  <2>1. /\ status' = Updated(j, "cancelled")
        /\ withdrawn' = IF status[j] = "pending" THEN withdrawn \cup {j} ELSE withdrawn
        /\ HandsUnchanged /\ UNCHANGED <<pc, crashes, faults>>
    BY <1>4 DEF CancelWrite
  <2>2. \A i \in Job : status'[i] = IF i = j /\ status[i] \notin {"absent", "deleted"}
                                   THEN "cancelled" ELSE status[i]
    BY <1>0, <2>1 DEF Updated
  <2>3. RowsMove /\ \A i \in Job : status[i] \in Early => status'[i] # "running"
    BY <2>2 DEF RowsMove, Early
  <2>4. OthersMove
    BY <2>1, <2>2 DEF OthersMove
  <2> QED BY <2>1, <2>3, <2>4, SameHands
<1>5. CASE DeleteJob(p, j)
  <2>1. /\ status' = [status EXCEPT ![j] = "deleted"]
        /\ HandsUnchanged /\ UNCHANGED <<pc, withdrawn, crashes, faults>>
    BY <1>5 DEF DeleteJob
  <2>2. RowsMove /\ \A i \in Job : status[i] \in Early => status'[i] # "running"
    BY <1>0, <2>1 DEF RowsMove, Early
  <2>3. OthersMove
    BY <2>1 DEF OthersMove
  <2> QED BY <2>1, <2>2, <2>3, SameHands
<1> QED BY <1>1, <1>2, <1>3, <1>4, <1>5

LEMMA HandsWorker ==
  ASSUME TypeInv, TypeInv', HandsInv, NEW p \in Proc, Worker(p) \/ ClaimFails(p)
  PROVE  HandsInv'
<1> USE QueueAssumption
<1> USE DEF HandsUnchanged, threadVars, cancelVars, faultVars, rowVars
<1>0. status \in [Job -> Status] /\ TypeOK
  BY DEF TypeInv, TypeOK
<1>1. ASSUME HandsUnchanged, UNCHANGED <<status, pc, withdrawn>>,
             crashes' = 0 /\ faults' = 0 => crashes = 0 /\ faults = 0
      PROVE  HandsInv'
  <2>1. RowsMove /\ OthersMove /\ \A i \in Job : status[i] \in Early => status'[i] # "running"
    BY <1>1 DEF RowsMove, OthersMove, Early
  <2> QED BY <1>1, <2>1, SameHands
<1>2. CASE CountRunning(p)
  BY <1>1, <1>2 DEF CountRunning
<1>3. CASE Claim(p)
  <2>1. CASE UNCHANGED <<status, held>>
    BY <1>1, <1>3, <2>1 DEF Claim
  <2>2. ASSUME NEW j \in Pending, status' = [status EXCEPT ![j] = "running"],
               held' = [held EXCEPT ![p] = j]
        PROVE  HandsInv'
    <3>1. j \in Job /\ status[j] = "pending"
      BY <2>2 DEF Pending
    <3>2. j \notin Handled /\ held[p] = NoJob /\ UNCHANGED <<pool, job, pc, withdrawn, crashes, faults>>
      BY <1>3, <3>1 DEF Claim, HandsInv, PendingUntouched, TypeInv, Control
    <3>3. OneHandler' /\ Handled' = Handled \cup {j}
      BY <1>0, <2>2, <3>1, <3>2, HandsClaim DEF HandsInv
    <3>4. RowsMove
      BY <1>0, <2>2, <3>1 DEF RowsMove, Early
    <3>5. HandsMove
      BY <1>0, <2>2, <3>1, <3>2, <3>3 DEF HandsMove, Early
    <3>6. OthersMove
      BY <3>2 DEF OthersMove
    <3> QED BY <3>3, <3>4, <3>5, <3>6, Preserved
  <2> QED BY <1>3, <2>1, <2>2 DEF Claim, Oldest
<1>4. CASE Submit(p)
  <2>1. held[p] \in Job /\ held' = [held EXCEPT ![p] = NoJob]
        /\ UNCHANGED <<job, status, pc, withdrawn, crashes, faults>>
    BY <1>4 DEF Submit, TypeInv, TypeOK, Control
  <2>2. \/ pool' = [pool EXCEPT ![p] = Append(@, held[p])]
        \/ UNCHANGED pool /\ crashes > 0
    BY <1>4 DEF Submit, TypeInv, TypeOK, Control
  <2>3. OneHandler' /\ Handled' \subseteq Handled /\ (pool' # pool => Handled' = Handled)
    BY <1>0, <2>1, <2>2, HandsSubmit DEF HandsInv
  <2>4. CASE UNCHANGED pool /\ crashes > 0
    <3>1. RowsMove /\ HandsMove /\ OthersMove
      BY <2>1, <2>3, <2>4 DEF RowsMove, HandsMove, OthersMove, Early
    <3> QED BY <2>3, <3>1, Preserved
  <2>5. CASE pool' = [pool EXCEPT ![p] = Append(@, held[p])]
    <3>1. pool' # pool
      <4>1. pool[p] \in Seq(Job) /\ pool'[p] = Append(pool[p], held[p])
        BY <1>0, <2>5 DEF TypeOK
      <4>2. Len(pool'[p]) # Len(pool[p])
        BY <4>1, <2>1
      <4> QED BY <4>2
    <3>2. RowsMove /\ HandsMove /\ OthersMove
      BY <2>1, <2>3, <3>1 DEF RowsMove, HandsMove, OthersMove, Early
    <3> QED BY <2>3, <3>2, Preserved
  <2> QED BY <2>2, <2>4, <2>5
<1>5. CASE ClaimFails(p)
  <2>1. HandsUnchanged /\ UNCHANGED <<status, pc, withdrawn>> /\ faults' = faults + 1
        /\ faults \in 0..MaxFault
    BY <1>5 DEF ClaimFails, TypeInv, TypeOK
  <2> QED BY <1>1, <2>1
<1> QED BY <1>2, <1>3, <1>4, <1>5 DEF Worker

LEMMA HandsThread ==
  ASSUME TypeInv, TypeInv', HandsInv, NEW t \in Thread, ThreadStep(t) \/ QueryFails(t)
  PROVE  HandsInv'
<1> USE QueueAssumption
<1> USE DEF HandsUnchanged, workerVars, cancelVars, faultVars, rowVars
<1>0. status \in [Job -> Status] /\ pc \in [Thread -> ThreadPc] /\ TypeOK
  BY DEF TypeInv, TypeOK
<1>1. ASSUME NEW l \in ThreadPc \ {"table"}, pc' = [pc EXCEPT ![t] = l],
             HandsUnchanged, UNCHANGED <<status, withdrawn>>,
             crashes' = 0 /\ faults' = 0 => crashes = 0 /\ faults = 0
      PROVE  HandsInv'
  <2>1. RowsMove /\ \A i \in Job : status[i] \in Early => status'[i] # "running"
    BY <1>1 DEF RowsMove, Early
  <2>2. OthersMove
    BY <1>0, <1>1 DEF OthersMove
  <2> QED BY <1>1, <2>1, <2>2, SameHands
<1>2. CASE PickUp(t)
  <2>1. /\ t \in Thread /\ home[t] \in Proc /\ job[t] = NoJob /\ pool[home[t]] # <<>>
        /\ job' = [job EXCEPT ![t] = Head(pool[home[t]])]
        /\ pool' = [pool EXCEPT ![home[t]] = Tail(@)]
        /\ pc' = [pc EXCEPT ![t] = "dispatch"] /\ pc[t] = "idle"
        /\ UNCHANGED <<held, status, withdrawn, crashes, faults>>
    BY <1>2 DEF PickUp, TypeInv, TypeOK, Control
  <2>2. OneHandler' /\ Handled' = Handled
    BY <1>0, <2>1, HandsPickUp DEF HandsInv
  <2>3. RowsMove /\ HandsMove
    BY <2>1, <2>2 DEF RowsMove, HandsMove, Early
  <2>4. OthersMove
    BY <1>0, <2>1 DEF OthersMove, TypeOK
  <2> QED BY <2>2, <2>3, <2>4, Preserved
<1>3. CASE Dispatch(t)
  BY <1>1, <1>3 DEF Dispatch, Goto, Conclude, ThreadPc
<1>4. CASE Enter(t)
  <2>1. HandsUnchanged /\ pc[t] = "enter" /\ UNCHANGED <<withdrawn, crashes, faults>>
    BY <1>4 DEF Enter
  <2>2. CASE Conclude(t, "failed") /\ UNCHANGED status
    BY <1>1, <2>1, <2>2 DEF Conclude, Goto, ThreadPc
  <2>3. CASE status' = Updated(job[t], "running") /\ Goto(t, "load")
    <3>1. job[t] \in Job /\ job[t] \in Handled
      BY <2>1, HandledIs, SMTT(30) DEF TypeInv, TypeOK, Control
    <3>2. \A i \in Job : status'[i] = IF i = job[t] /\ status[i] \notin {"absent", "deleted"}
                                     THEN "running" ELSE status[i]
      BY <1>0, <2>3, <3>1 DEF Updated
    <3>3. status[job[t]] \notin Early
      BY <3>1 DEF HandsInv, PendingUntouched, Early
    <3>4. RowsMove
      BY <2>1, <3>1, <3>2, <3>3 DEF RowsMove, Early
    <3>5. \A i \in Job : status[i] \in Early => status'[i] # "running"
      BY <3>2, <3>3 DEF Early
    <3>6. OthersMove
      BY <1>0, <2>1, <2>3 DEF OthersMove, Goto
    <3> QED BY <2>1, <3>4, <3>5, <3>6, SameHands
  <2> QED BY <1>4, <2>2, <2>3 DEF Enter
<1>5. CASE LoadBatch(t)
  <2>1. HandsUnchanged /\ UNCHANGED <<status, pc, withdrawn, crashes, faults>>
    BY <1>5 DEF LoadBatch
  <2>2. RowsMove /\ OthersMove /\ \A i \in Job : status[i] \in Early => status'[i] # "running"
    BY <2>1 DEF RowsMove, OthersMove, Early
  <2> QED BY <2>1, <2>2, SameHands
<1>6. CASE StopOnCancel(t)
  BY <1>1, <1>6 DEF StopOnCancel, Goto, Conclude, ThreadPc
<1>7. CASE EndLoad(t)
  BY <1>1, <1>7 DEF EndLoad, Goto, Conclude, ThreadPc
<1>8. CASE Record(t)
  <2>1. /\ HandsUnchanged /\ pc[t] = "record" /\ UNCHANGED <<withdrawn, crashes, faults>>
        /\ status' = Updated(job[t], res[t]) /\ pc' = [pc EXCEPT ![t] = "table"]
    BY <1>8 DEF Record, Goto
  <2>2. job[t] \in Job /\ job[t] \in Handled /\ res[t] \in Finished
    BY <2>1, HandledIs, SMTT(30) DEF TypeInv, TypeOK, Control
  <2>3. \A i \in Job : status'[i] = IF i = job[t] /\ status[i] \notin {"absent", "deleted"}
                                   THEN res[t] ELSE status[i]
    BY <1>0, <2>1, <2>2 DEF Updated
  <2>4. RowsMove /\ \A i \in Job : status[i] \in Early => status'[i] # "running"
    BY <2>2, <2>3 DEF RowsMove, Early, Finished
  <2>5. status'[job[t]] # "running"
    BY <2>2, <2>3 DEF Finished
  <2>6. OthersMove
    BY <1>0, <2>1, <2>5 DEF OthersMove
  <2> QED BY <2>1, <2>4, <2>6, SameHands
<1>9. ASSUME Leave(t), UNCHANGED <<held, pool, status, withdrawn>>,
             crashes' = 0 /\ faults' = 0 => /\ crashes = 0 /\ faults = 0
                                           /\ status[job[t]] # "running"
      PROVE  HandsInv'
  <2>1. OneHandler' /\ Handled' = Handled \ {job[t]}
    BY <1>0, <1>9, HandsLeave DEF HandsInv, Leave
  <2>2. RowsMove
    BY <1>9 DEF RowsMove, Early
  <2>3. HandsMove
    BY <1>9, <2>1 DEF HandsMove, Early
  <2>4. OthersMove
    BY <1>0, <1>9 DEF OthersMove, Leave, Goto, TypeOK
  <2> QED BY <2>1, <2>2, <2>3, <2>4, Preserved
<1>10. CASE RecordTable(t)
  BY <1>9, <1>10 DEF RecordTable, HandsInv, Recorded
<1>11. CASE QueryFails(t)
  <2>1. faults' = faults + 1 /\ faults \in 0..MaxFault /\ UNCHANGED <<held, pool, status, withdrawn>>
    BY <1>11 DEF QueryFails, TypeInv, TypeOK
  <2>2. faults' # 0
    BY <2>1
  <2>3. CASE Conclude(t, "failed") /\ UNCHANGED job
    BY <1>1, <2>1, <2>2, <2>3 DEF Conclude, Goto, ThreadPc
  <2>4. CASE Leave(t)
    BY <1>9, <2>1, <2>2, <2>4
  <2> QED BY <1>11, <2>3, <2>4 DEF QueryFails
<1> QED BY <1>2, <1>3, <1>4, <1>5, <1>6, <1>7, <1>8, <1>10, <1>11 DEF ThreadStep

LEMMA HandsProcess ==
  ASSUME TypeInv, TypeInv', HandsInv, NEW p \in Proc,
         Crash(p) \/ Shutdown(p) \/ Exit(p) \/ Restart(p)
  PROVE  HandsInv'
<1> USE QueueAssumption
<1>0. TypeOK /\ crashes \in Nat
  <2>1. TypeOK /\ crashes \in 0..MaxCrash
    BY DEF TypeInv, TypeOK
  <2> QED BY <2>1
<1>1. ASSUME Lose(p), crashes' # 0
      PROVE  HandsInv'
  <2>1. OneHandler' /\ Handled' \subseteq Handled
    BY <1>0, <1>1, HandsLose DEF HandsInv
  <2>2. UNCHANGED <<status, withdrawn>>
    BY <1>1 DEF Lose, rowVars
  <2>3. RowsMove /\ HandsMove
    BY <1>1, <2>1, <2>2 DEF RowsMove, HandsMove, Early
  <2>4. \A t \in Thread : pc'[t] = "table" => pc[t] = "table" /\ job'[t] = job[t]
    BY <1>1 DEF Lose
  <2>5. OthersMove
    BY <2>2, <2>4 DEF OthersMove
  <2> QED BY <2>1, <2>3, <2>5, Preserved
<1>2. CASE Crash(p)
  BY <1>0, <1>1, <1>2 DEF Crash
<1>3. CASE Exit(p)
  BY <1>0, <1>1, <1>3 DEF Exit, TypeInv, Control
<1>4. CASE Shutdown(p) \/ Restart(p)
  <2>1. HandsUnchanged /\ UNCHANGED <<status, pc, withdrawn, faults>>
        /\ (crashes' = 0 => crashes = 0)
    BY <1>0, <1>4 DEF Shutdown, Restart, HandsUnchanged, rowVars, workerVars, threadVars, cancelVars
  <2>2. RowsMove /\ OthersMove /\ \A i \in Job : status[i] \in Early => status'[i] # "running"
    BY <2>1 DEF RowsMove, OthersMove, HandsUnchanged, Early
  <2> QED BY <2>1, <2>2, SameHands
<1> QED BY <1>2, <1>3, <1>4

LEMMA HandsStep == TypeInv /\ HandsInv /\ [Next]_vars => HandsInv'
<1> SUFFICES ASSUME TypeInv, HandsInv, [Next]_vars PROVE HandsInv'
  OBVIOUS
<1>1. TypeInv'
  BY TypeStep
<1>2. CASE UNCHANGED vars
  BY <1>2 DEF HandsInv, OneHandler, PendingUntouched, WithdrawnNeverRuns, Recorded, NoZombie,
              Handled, Queue, Running, vars, rowVars, workerVars, threadVars, cancelVars, faultVars
<1>3. CASE Next
  BY <1>1, <1>3, HandsHandlers, HandsWorker, HandsThread, HandsProcess DEF Next
<1> QED BY <1>2, <1>3

THEOREM Invariance == Spec => [](TypeInv /\ HandsInv)
<1>1. Init => TypeInv /\ HandsInv
  BY TypeInit, HandsInit
<1>2. TypeInv /\ HandsInv /\ [Next]_vars => (TypeInv /\ HandsInv)'
  BY TypeStep, HandsStep
<1> QED BY <1>1, <1>2, PTL DEF Spec

(* A job is never in two hands at once.                                    *)
THEOREM JobsRunOnce == Spec => []OneHandler
  BY Invariance, PTL DEF HandsInv

(* A job whose row is still pending is in nobody's hands.                  *)
THEOREM PendingIsUntouched == Spec => []PendingUntouched
  BY Invariance, PTL DEF HandsInv

(* A job that was cancelled while it was pending is never run.             *)
THEOREM WithdrawnStaysWithdrawn == Spec => []WithdrawnNeverRuns
  BY Invariance, PTL DEF HandsInv

(* Without crashes and failing queries, a running row has a runner.        *)
THEOREM RunningHasARunner == Spec => []NoZombie
  BY Invariance, PTL DEF HandsInv

-----------------------------------------------------------------------------
(* The refinement of JobExecution.                                         *)

(* A step starts, withdraws or takes one job that had nobody, ...          *)
FirstMove(j) ==
  /\ <<status[j], status'[j]>> \in
       {<<"absent", "pending">>, <<"absent", "running">>, <<"pending", "running">>,
        <<"pending", "cancelled">>, <<"pending", "deleted">>}
  /\ \A i \in Job \ {j} : status'[i] = status[i]
  /\ Handled' = IF status'[j] = "running" THEN Handled \cup {j} ELSE Handled

(* ... or it only concerns jobs that were taken before.                    *)
LaterMove ==
  /\ \A j \in Job : status[j] \in Early \/ status'[j] \in Early => status'[j] = status[j]
  /\ Handled' \subseteq Handled

Move == LaterMove \/ \E j \in Job : FirstMove(j)

LEMMA PhaseIs ==
  ASSUME NEW j \in Job
  PROVE  phaseBar[j] = IF status[j] = "absent" THEN "new"
                       ELSE IF status[j] = "pending" THEN "waiting"
                       ELSE IF j \in Handled THEN "taken" ELSE "over"
  BY DEF phaseBar

LEMMA PhaseIsNext ==
  ASSUME NEW j \in Job
  PROVE  phaseBar'[j] = IF status'[j] = "absent" THEN "new"
                        ELSE IF status'[j] = "pending" THEN "waiting"
                        ELSE IF j \in Handled' THEN "taken" ELSE "over"
  BY DEF phaseBar

LEMMA PhaseFunction == phaseBar = [j \in Job |-> phaseBar[j]] /\ phaseBar' = [j \in Job |-> phaseBar'[j]]
  BY DEF phaseBar

LEMMA MoveRefines ==
  ASSUME HandsInv, Move
  PROVE  [Execution!Next]_phaseBar
<1>1. ASSUME LaterMove PROVE Execution!Next
  <2> DEFINE S == {j \in Job : phaseBar[j] = "taken" /\ phaseBar'[j] = "over"}
  <2>1. \A j \in Job : phaseBar'[j] = IF j \in S THEN "over" ELSE phaseBar[j]
    <3> SUFFICES ASSUME NEW j \in Job
                 PROVE  phaseBar'[j] = IF j \in S THEN "over" ELSE phaseBar[j]
      OBVIOUS
    <3>1. CASE status[j] \in Early \/ status'[j] \in Early
      BY <1>1, <3>1, PhaseIs, PhaseIsNext DEF LaterMove, Early
    <3>2. CASE status[j] \notin Early /\ status'[j] \notin Early
      BY <1>1, <3>2, PhaseIs, PhaseIsNext DEF LaterMove, Early
    <3> QED BY <3>1, <3>2
  <2>2. phaseBar' = [j \in Job |-> IF j \in S THEN "over" ELSE phaseBar[j]]
    BY <2>1, PhaseFunction
  <2>3. Execution!End(S)
    BY <2>2 DEF Execution!End
  <2>4. S \in SUBSET Job
    OBVIOUS
  <2> HIDE DEF S
  <2> QED BY <2>3, <2>4 DEF Execution!Next
<1>2. ASSUME NEW j \in Job, FirstMove(j) PROVE Execution!Next
  <2>1. j \notin Handled
    BY <1>2 DEF FirstMove, HandsInv, PendingUntouched
  <2>2. \A i \in Job \ {j} : phaseBar'[i] = phaseBar[i]
    BY <1>2, PhaseIs, PhaseIsNext DEF FirstMove
  <2>3. phaseBar' = [phaseBar EXCEPT ![j] = phaseBar'[j]]
    BY <2>2, PhaseFunction
  <2>4. <<phaseBar[j], phaseBar'[j]>> \in
          {<<"new", "waiting">>, <<"new", "taken">>, <<"waiting", "taken">>, <<"waiting", "over">>}
    BY <1>2, <2>1, PhaseIs, PhaseIsNext DEF FirstMove
  <2> HIDE DEF phaseBar
  <2>5. Execution!Submit(j) \/ Execution!Take(j) \/ Execution!Withdraw(j)
    BY <2>3, <2>4 DEF Execution!Submit, Execution!Take, Execution!Withdraw
  <2> QED BY <2>5 DEF Execution!Next
<1> QED BY <1>1, <1>2 DEF Move

LEMMA MoveHandlers ==
  ASSUME TypeInv, HandsInv, NEW p \in Proc, NEW j \in Job,
         \/ \E k \in Kinds : Enqueue(p, j, k)
         \/ RunFile(p, j)
         \/ CancelRead(p, j) \/ CancelWrite(p, j) \/ DeleteJob(p, j)
  PROVE  Move
<1> USE DEF HandsUnchanged, workerVars, threadVars, cancelVars, faultVars, rowVars
<1>0. status \in [Job -> Status]
  BY DEF TypeInv, TypeOK
<1>1. CASE \E k \in Kinds : Enqueue(p, j, k)
  <2>1. HandsUnchanged /\ status[j] = "absent" /\ status' = [status EXCEPT ![j] = "pending"]
    BY <1>1 DEF Enqueue, InsertRow
  <2> QED BY <1>0, <2>1, HandsSame DEF Move, FirstMove, HandsInv
<1>2. CASE RunFile(p, j)
  <2>1. /\ status[j] = "absent" /\ status' = [status EXCEPT ![j] = "running"]
        /\ job' = [job EXCEPT ![j] = j] /\ UNCHANGED <<held, pool>>
    BY <1>2 DEF RunFile, InsertRow
  <2>2. j \notin Handled
    BY <2>1 DEF HandsInv, PendingUntouched
  <2>3. j \in Thread /\ job[j] = NoJob
    BY <2>2, HandledIs DEF Thread, TypeInv, Control
  <2>4. Handled' = Handled \cup {j}
    BY <2>1, <2>2, <2>3, HandsRunFile DEF HandsInv, TypeInv
  <2> QED BY <1>0, <2>1, <2>4 DEF Move, FirstMove
<1>3. CASE CancelRead(p, j)
  <2>1. HandsUnchanged /\ UNCHANGED status
    BY <1>3 DEF CancelRead
  <2> QED BY <2>1, HandsSame DEF Move, LaterMove, HandsInv
<1>4. CASE CancelWrite(p, j)
  <2>1. HandsUnchanged /\ status' = Updated(j, "cancelled")
    BY <1>4 DEF CancelWrite
  <2>2. \A i \in Job : status'[i] = IF i = j /\ status[i] \notin {"absent", "deleted"}
                                   THEN "cancelled" ELSE status[i]
    BY <1>0, <2>1 DEF Updated
  <2>3. Handled' = Handled
    BY <2>1, HandsSame DEF HandsInv
  <2>4. CASE status[j] = "pending"
    BY <2>2, <2>3, <2>4 DEF Move, FirstMove
  <2>5. CASE status[j] # "pending"
    BY <2>2, <2>3, <2>5 DEF Move, LaterMove, Early
  <2> QED BY <2>4, <2>5
<1>5. CASE DeleteJob(p, j)
  <2>1. /\ HandsUnchanged /\ status' = [status EXCEPT ![j] = "deleted"]
        /\ status[j] \notin {"absent", "deleted"}
    BY <1>5 DEF DeleteJob
  <2>2. Handled' = Handled
    BY <2>1, HandsSame DEF HandsInv
  <2>3. CASE status[j] = "pending"
    BY <1>0, <2>1, <2>2, <2>3 DEF Move, FirstMove
  <2>4. CASE status[j] # "pending"
    BY <1>0, <2>1, <2>2, <2>4 DEF Move, LaterMove, Early
  <2> QED BY <2>3, <2>4
<1> QED BY <1>1, <1>2, <1>3, <1>4, <1>5

LEMMA MoveWorker ==
  ASSUME TypeInv, HandsInv, NEW p \in Proc, Worker(p) \/ ClaimFails(p)
  PROVE  Move
<1> USE DEF HandsUnchanged, threadVars, cancelVars, faultVars, rowVars
<1>0. status \in [Job -> Status] /\ TypeOK
  BY DEF TypeInv, TypeOK
<1>1. ASSUME HandsUnchanged, UNCHANGED status PROVE Move
  BY <1>1, HandsSame DEF Move, LaterMove, HandsInv
<1>2. CASE CountRunning(p) \/ ClaimFails(p)
  BY <1>1, <1>2 DEF CountRunning, ClaimFails
<1>3. CASE Claim(p)
  <2>1. CASE UNCHANGED <<status, held>>
    BY <1>1, <1>3, <2>1 DEF Claim
  <2>2. ASSUME NEW j \in Pending, status' = [status EXCEPT ![j] = "running"],
               held' = [held EXCEPT ![p] = j]
        PROVE  Move
    <3>1. j \in Job /\ status[j] = "pending"
      BY <2>2 DEF Pending
    <3>2. j \notin Handled /\ held[p] = NoJob /\ UNCHANGED <<pool, job>>
      BY <1>3, <3>1 DEF Claim, HandsInv, PendingUntouched, TypeInv, Control
    <3>3. Handled' = Handled \cup {j}
      BY <1>0, <2>2, <3>1, <3>2, HandsClaim DEF HandsInv
    <3> QED BY <1>0, <2>2, <3>1, <3>3 DEF Move, FirstMove
  <2> QED BY <1>3, <2>1, <2>2 DEF Claim, Oldest
<1>4. CASE Submit(p)
  <2>1. /\ held[p] \in Job /\ held' = [held EXCEPT ![p] = NoJob] /\ UNCHANGED <<job, status>>
        /\ \/ pool' = [pool EXCEPT ![p] = Append(@, held[p])]
           \/ UNCHANGED pool
    BY <1>4 DEF Submit, Idle, TypeInv, TypeOK, Control
  <2>2. Handled' \subseteq Handled
    BY <1>0, <2>1, HandsSubmit DEF HandsInv
  <2> QED BY <2>1, <2>2 DEF Move, LaterMove
<1> QED BY <1>2, <1>3, <1>4 DEF Worker

LEMMA MoveThread ==
  ASSUME TypeInv, HandsInv, NEW t \in Thread, ThreadStep(t) \/ QueryFails(t)
  PROVE  Move
<1> USE DEF HandsUnchanged, workerVars, threadVars, cancelVars, faultVars, rowVars
<1>0. status \in [Job -> Status] /\ TypeOK
  BY DEF TypeInv, TypeOK
<1>1. ASSUME HandsUnchanged, UNCHANGED status PROVE Move
  BY <1>1, HandsSame DEF Move, LaterMove, HandsInv
<1>2. ASSUME HandsUnchanged, pc[t] # "idle", NEW s, status' = Updated(job[t], s), s \notin Early
      PROVE  Move
  <2>1. job[t] \in Job /\ job[t] \in Handled
    BY <1>2, HandledIs DEF TypeInv, TypeOK, Control
  <2>2. \A i \in Job : status'[i] = IF i = job[t] /\ status[i] \notin {"absent", "deleted"}
                                   THEN s ELSE status[i]
    BY <1>0, <1>2, <2>1 DEF Updated
  <2>3. status[job[t]] \notin Early
    BY <2>1 DEF HandsInv, PendingUntouched, Early
  <2> QED BY <1>2, <2>2, <2>3, HandsSame DEF Move, LaterMove, HandsInv, Early
<1>3. ASSUME Leave(t), UNCHANGED <<held, pool, status>> PROVE Move
  BY <1>0, <1>3, HandsLeave DEF Leave, Move, LaterMove, HandsInv
<1>4. CASE PickUp(t)
  <2>1. /\ home[t] \in Proc /\ job[t] = NoJob /\ pool[home[t]] # <<>>
        /\ job' = [job EXCEPT ![t] = Head(pool[home[t]])]
        /\ pool' = [pool EXCEPT ![home[t]] = Tail(@)]
        /\ UNCHANGED <<held, status>>
    BY <1>4 DEF PickUp, TypeInv, TypeOK, Control
  <2>2. Handled' = Handled
    BY <1>0, <2>1, HandsPickUp DEF HandsInv
  <2> QED BY <2>1, <2>2 DEF Move, LaterMove
<1>5. CASE Dispatch(t) \/ LoadBatch(t) \/ StopOnCancel(t) \/ EndLoad(t)
  BY <1>1, <1>5 DEF Dispatch, LoadBatch, StopOnCancel, EndLoad
<1>6. CASE Enter(t)
  BY <1>1, <1>2, <1>6 DEF Enter, Early
<1>7. CASE Record(t)
  <2>1. res[t] \notin Early
    BY DEF TypeInv, TypeOK, Finished, Early
  <2> QED BY <1>2, <1>7, <2>1 DEF Record
<1>8. CASE RecordTable(t)
  BY <1>3, <1>8 DEF RecordTable
<1>9. CASE QueryFails(t)
  BY <1>1, <1>3, <1>9 DEF QueryFails
<1> QED BY <1>4, <1>5, <1>6, <1>7, <1>8, <1>9 DEF ThreadStep

LEMMA MoveProcess ==
  ASSUME TypeInv, HandsInv, NEW p \in Proc, Crash(p) \/ Shutdown(p) \/ Exit(p) \/ Restart(p)
  PROVE  Move
<1> USE DEF HandsUnchanged, workerVars, threadVars, rowVars
<1>1. CASE Lose(p)
  BY <1>1, HandsLose DEF Lose, Move, LaterMove, HandsInv, TypeInv
<1>2. CASE Shutdown(p) \/ Restart(p)
  <2>1. HandsUnchanged /\ UNCHANGED status
    BY <1>2 DEF Shutdown, Restart
  <2> QED BY <2>1, HandsSame DEF Move, LaterMove, HandsInv
<1> QED BY <1>1, <1>2 DEF Crash, Exit

(* The queue implements JobExecution: whatever is cancelled, deleted,      *)
(* crashes or fails, a job is executed at most once.                       *)
THEOREM Refinement == Spec => ExecutedAtMostOnce
<1>1. Init => Execution!Init
  <2> SUFFICES ASSUME Init PROVE Execution!Init
    OBVIOUS
  <2>1. \A j \in Job : phaseBar[j] = "new"
    BY PhaseIs DEF Init
  <2> QED BY <2>1, PhaseFunction DEF Execution!Init
<1>2. TypeInv /\ HandsInv /\ [Next]_vars => [Execution!Next]_phaseBar
  <2> SUFFICES ASSUME TypeInv, HandsInv, [Next]_vars PROVE [Execution!Next]_phaseBar
    OBVIOUS
  <2>1. CASE UNCHANGED vars
    BY <2>1 DEF phaseBar, Handled, Queue, vars, rowVars, workerVars, threadVars
  <2>2. CASE Next
    <3>1. Move
      BY <2>2, MoveHandlers, MoveWorker, MoveThread, MoveProcess DEF Next
    <3> QED BY <3>1, MoveRefines
  <2> QED BY <2>1, <2>2
<1> QED BY <1>1, <1>2, Invariance, PTL DEF Spec, ExecutedAtMostOnce, Execution!Spec
=============================================================================
