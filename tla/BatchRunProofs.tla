---------------------------- MODULE BatchRunProofs ----------------------------
(***************************************************************************)
(* Proofs about the batch job: types, the exclusion of its executors and   *)
(* the return of its claim, for any number of executors, administrators    *)
(* and runs.                                                               *)
(***************************************************************************)
EXTENDS BatchRun, TLAPS

(* What each program counter says about the run and the request in hand.   *)
Control ==
  /\ \A e \in Executor :
       /\ pc[e] \in {"idle", "list", "claim", "create"} => rid[e] = NoRun
       /\ pc[e] \in {"work", "finish", "status", "recover"} => rid[e] \in RunId
  /\ \A a \in Admin :
       /\ apc[a] \in {"flag", "force"} => arun[a] \in RunId
       /\ apc[a] = "patch" /\ aclear[a] => aset[a]

(* While nobody took a claim from outside, the one who holds it is alone   *)
(* and the row says 'running', so that no other can claim it.              *)
Claimed ==
  /\ ~released => /\ SoleExecutor
                  /\ exists /\ Holder # {} => lastStatus = "running"
  /\ ~exists => lastStatus = "null"

(* Without failures, what says 'running' has an executor on its way to     *)
(* finish_run and update_job_status, and none is in its exception handler. *)
Returned ==
  crashes = 0 /\ faults = 0 =>
    /\ lastStatus = "running" => Holder # {}
    /\ \A r \in RunId : run[r] = "running" =>
         \E e \in Executor : rid[e] = r /\ pc[e] \in {"work", "finish"}
    /\ \A e \in Executor : pc[e] # "recover"

(* As long as no two writers of is_active overlap, none fails half way and *)
(* the row does not go behind the scheduler's back, at most one has yet to *)
(* call the scheduler, and its call will bring the scheduler to what the   *)
(* row says.                                                               *)
InSync == {"mark", "resched", "reread", "add", "remove", "delete"}
Synced ==
  /\ ~exists => ~active
  /\ ~raced /\ ~forgotten =>
       /\ \A a, b \in Admin : apc[a] \in InSync /\ apc[b] \in InSync => a = b
       /\ \A e, f \in Executor : pc[e] = "remove" /\ pc[f] = "remove" => e = f
       /\ \A a \in Admin, e \in Executor : ~(apc[a] \in InSync /\ pc[e] = "remove")
       /\ \A a \in Admin :
            /\ apc[a] \in {"mark", "remove"} => ~active
            /\ apc[a] = "add" => active
            /\ apc[a] \in {"resched", "reread"} => IF exists THEN active ELSE ~scheduled
            /\ apc[a] = "delete" => ~scheduled
       /\ \A e \in Executor : pc[e] = "remove" => ~active
       /\ Syncing = {} => (scheduled <=> exists /\ active)

(* Inductive, and checked step by step below.                              *)
IInv == TypeOK /\ Control /\ Claimed /\ Returned /\ Synced

-----------------------------------------------------------------------------
(* The bounds are natural numbers, and no run has the number NoRun.        *)
LEMMA Bounds ==
  /\ MaxRuns \in Nat /\ MaxNow \in Nat /\ MaxFault \in Nat
  /\ NoRun \notin RunId
  /\ RunId \subseteq Nat
BY BatchAssumption DEF RunId, NoRun

(* The initial states have the types.                                      *)
LEMMA InitType == Init => TypeOK
<1> SUFFICES ASSUME Init PROVE TypeOK
  OBVIOUS
<1> USE Bounds
<1>1. /\ pc \in [Executor -> ExecPc] /\ source \in [Executor -> {"interval", "once"}]
      /\ rid \in [Executor -> {NoRun} \cup RunId] /\ saw \in [Executor -> SUBSET FileResult]
      /\ res \in [Executor -> Outcome]
  BY DEF Init, ExecPc, Outcome
<1>2. /\ apc \in [Admin -> AdminPc] /\ aset \in [Admin -> BOOLEAN]
      /\ aclear \in [Admin -> BOOLEAN] /\ arun \in [Admin -> {NoRun} \cup RunId]
  BY DEF Init, AdminPc
<1>3. run \in [RunId -> {"none", "running"} \cup Outcome] /\ flagged \subseteq RunId
  BY DEF Init
<1>4. /\ lastStatus \in {"null", "running"} \cup (Outcome \ {"cancelled"})
      /\ created \in 0..MaxRuns /\ oneShots \in 0..MaxNow
      /\ crashes \in 0..MaxFault /\ faults \in 0..MaxFault
      /\ jobType \in JobTypes /\ policy \in Policies
  BY DEF Init
<1>5. /\ exists \in BOOLEAN /\ active \in BOOLEAN /\ scheduled \in BOOLEAN
      /\ released \in BOOLEAN /\ raced \in BOOLEAN /\ forgotten \in BOOLEAN
  BY DEF Init
<1> QED
  BY <1>1, <1>2, <1>3, <1>4, <1>5 DEF TypeOK

(* Every step keeps the types.                                             *)
LEMMA StepType == TypeOK /\ Control /\ [Next]_vars => TypeOK'
<1> SUFFICES ASSUME TypeOK /\ Control, [Next]_vars PROVE TypeOK'
  OBVIOUS
<1> USE Bounds
<1> USE DEF jobVars, runVars, schedVars, execVars, adminVars, faultVars, histVars
<1>1. ASSUME NEW e \in Executor, FireInterval(e) PROVE TypeOK'
  BY <1>1 DEF TypeOK, ExecPc, Outcome, FireInterval, Begin, Goto
<1>2. ASSUME NEW e \in Executor, FireOnce(e) PROVE TypeOK'
  BY <1>2 DEF TypeOK, ExecPc, Outcome, FireOnce, Begin, Goto
<1>3. ASSUME NEW e \in Executor, NothingPending(e) PROVE TypeOK'
  BY <1>3 DEF TypeOK, ExecPc, Outcome, NothingPending, SetStatus, Releasing,
    Return, Goto
<1>4. ASSUME NEW e \in Executor, SomePending(e) PROVE TypeOK'
  BY <1>4 DEF TypeOK, ExecPc, Outcome, SomePending, Goto
<1>5. ASSUME NEW e \in Executor, TryClaim(e) PROVE TypeOK'
  BY <1>5 DEF TypeOK, ExecPc, Outcome, TryClaim, SetStatus, Goto, Return
<1>6. ASSUME NEW e \in Executor, CreateRun(e) PROVE TypeOK'
  <2>1. created' \in 0..MaxRuns
    <3>1. created \in 0..MaxRuns /\ (created' = created \/ (created < MaxRuns /\ created' = created + 1))
      BY <1>6 DEF CreateRun, TypeOK
    <3> QED BY <3>1
  <2>2. rid' \in [Executor -> {NoRun} \cup RunId]
    <3>1. CASE exists
      <4>1. created \in 0..MaxRuns /\ created < MaxRuns /\ rid' = [rid EXCEPT ![e] = created + 1]
        BY <1>6, <3>1 DEF CreateRun, TypeOK
      <4>2. created + 1 \in RunId
        BY <4>1 DEF RunId
      <4> QED BY <4>1, <4>2 DEF TypeOK
    <3>2. CASE ~exists
      BY <1>6, <3>2 DEF CreateRun, TypeOK
    <3> QED BY <3>1, <3>2
  <2>3. pc' \in [Executor -> ExecPc] /\ run' \in [RunId -> {"none", "running"} \cup Outcome]
    BY <1>6 DEF CreateRun, TypeOK, ExecPc, Goto
  <2> QED
    BY <1>6, <2>1, <2>2, <2>3 DEF CreateRun, TypeOK
<1>7. ASSUME NEW e \in Executor, Load(e) PROVE TypeOK'
  BY <1>7 DEF TypeOK, ExecPc, Outcome, FileResult, Load, Conclude, Goto
<1>8. ASSUME NEW e \in Executor, SeeCancel(e) PROVE TypeOK'
  BY <1>8 DEF TypeOK, ExecPc, Outcome, FileResult, SeeCancel, Conclude, Goto
<1>9. ASSUME NEW e \in Executor, EndOfWork(e) PROVE TypeOK'
  BY <1>9 DEF TypeOK, ExecPc, Outcome, FileResult, EndOfWork, Conclude, Goto
<1>10. ASSUME NEW e \in Executor, FinishRun(e) PROVE TypeOK'
  BY <1>10 DEF TypeOK, ExecPc, Outcome, FinishRun, Goto
<1>11. ASSUME NEW e \in Executor, RecordStatus(e) PROVE TypeOK'
  BY <1>11 DEF TypeOK, ExecPc, Outcome, RecordStatus, SetStatus, Releasing,
    Return, Goto
<1>12. ASSUME NEW e \in Executor, CheckFailures(e) PROVE TypeOK'
  BY <1>12, ZenonT(40) DEF TypeOK, ExecPc, Outcome, CheckFailures, WriteActive, Return,
    Goto
<1>13. ASSUME NEW e \in Executor, RemoveDisabled(e) PROVE TypeOK'
  BY <1>13 DEF TypeOK, ExecPc, Outcome, RemoveDisabled, Return, Goto
<1>14. ASSUME NEW e \in Executor, Recover(e) PROVE TypeOK'
  BY <1>14 DEF TypeOK, ExecPc, Outcome, Recover, Goto
<1>15. ASSUME NEW e \in Executor, GiveBack(e) PROVE TypeOK'
  BY <1>15 DEF TypeOK, ExecPc, Outcome, GiveBack, SetStatus, Releasing,
    Return, Goto
<1>16. ASSUME NEW e \in Executor, ExecutorFails(e) PROVE TypeOK'
  BY <1>16 DEF TypeOK, ExecPc, Outcome, FileResult, ExecutorFails, Return,
    Goto
<1>17. ASSUME RunNow PROVE TypeOK'
  BY <1>17 DEF TypeOK, RunNow
<1>18. ASSUME NEW a \in Admin, ToggleRead(a) PROVE TypeOK'
  BY <1>18 DEF TypeOK, AdminPc, ToggleRead, Ask
<1>19. ASSUME NEW a \in Admin, ToggleWrite(a) PROVE TypeOK'
  BY <1>19 DEF TypeOK, AdminPc, ToggleWrite, Ask, WriteActive, SetStatus,
    Releasing
<1>20. ASSUME NEW a \in Admin, ToggleMark(a) PROVE TypeOK'
  BY <1>20 DEF TypeOK, AdminPc, Outcome, ToggleMark, Ask
<1>22. ASSUME NEW a \in Admin, ReadAgain(a) PROVE TypeOK'
  BY <1>22 DEF TypeOK, AdminPc, ReadAgain, Ask, Answer
<1>23. ASSUME NEW a \in Admin, AddToScheduler(a) PROVE TypeOK'
  BY <1>23 DEF TypeOK, AdminPc, AddToScheduler, Answer, Ask
<1>24. ASSUME NEW a \in Admin, RemoveFromScheduler(a) PROVE TypeOK'
  BY <1>24 DEF TypeOK, AdminPc, RemoveFromScheduler, Answer, Ask
<1>25. ASSUME NEW a \in Admin, CancelRead(a) PROVE TypeOK'
  BY <1>25 DEF TypeOK, AdminPc, CancelRead, Ask
<1>26. ASSUME NEW a \in Admin, CancelFlag(a) PROVE TypeOK'
  <2>1. arun[a] \in RunId
    BY <1>26 DEF CancelFlag, Control
  <2> QED
    BY <1>26, <2>1 DEF CancelFlag, Ask, TypeOK, AdminPc
<1>27. ASSUME NEW a \in Admin, CancelForce(a) PROVE TypeOK'
  BY <1>27 DEF TypeOK, AdminPc, Outcome, CancelForce, Answer, Ask,
    SetStatus, Releasing
<1>21. ASSUME NEW a \in Admin, PatchRead(a) PROVE TypeOK'
  BY <1>21 DEF TypeOK, AdminPc, Outcome, PatchRead, Ask
<1>28. ASSUME NEW a \in Admin, DeleteUnschedule(a) PROVE TypeOK'
  <2>1. created \in {NoRun} \cup RunId
    BY DEF TypeOK, RunId, NoRun
  <2> QED
    BY <1>28, <2>1 DEF TypeOK, AdminPc, DeleteUnschedule, Ask
<1>29. ASSUME NEW a \in Admin, DeleteRows(a) PROVE TypeOK'
  <2>1. CASE NoRows
    BY <1>29, <2>1 DEF TypeOK, AdminPc, Outcome, DeleteRows, NoRows, Answer, Ask
  <2>2. CASE UNCHANGED <<jobVars, runVars>>
    BY <1>29, <2>2 DEF TypeOK, AdminPc, DeleteRows, Answer, Ask
  <2> QED
    BY <1>29, <2>1, <2>2 DEF DeleteRows
<1>31. ASSUME NEW a \in Admin, PatchWrite(a) PROVE TypeOK'
  BY <1>31 DEF TypeOK, AdminPc, Outcome, PatchWrite, WriteActive, Ask
<1>32. ASSUME NEW a \in Admin, Reschedule(a) PROVE TypeOK'
  <2>1. CASE scheduled
    BY <1>32, <2>1 DEF TypeOK, AdminPc, Reschedule, Ask
  <2>2. CASE ~scheduled
    BY <1>32, <2>2 DEF TypeOK, AdminPc, Reschedule, Answer, Ask
  <2> QED
    BY <2>1, <2>2
<1>33. ASSUME NEW a \in Admin, RequestFails(a) PROVE TypeOK'
  BY <1>33 DEF TypeOK, AdminPc, Outcome, RequestFails, Answer, Ask
<1>34. ASSUME DeleteWithRegistration PROVE TypeOK'
  BY <1>34 DEF TypeOK, AdminPc, Outcome, DeleteWithRegistration, NoRows
<1>30. ASSUME CrashRestart PROVE TypeOK'
  <2>1. /\ pc' \in [Executor -> ExecPc] /\ source' \in [Executor -> {"interval", "once"}]
        /\ rid' \in [Executor -> {NoRun} \cup RunId] /\ saw' \in [Executor -> SUBSET FileResult]
        /\ res' \in [Executor -> Outcome]
    BY <1>30 DEF CrashRestart, ExecPc, Outcome
  <2>2. /\ apc' \in [Admin -> AdminPc] /\ aset' \in [Admin -> BOOLEAN]
        /\ aclear' \in [Admin -> BOOLEAN] /\ arun' \in [Admin -> {NoRun} \cup RunId]
    BY <1>30 DEF CrashRestart, AdminPc
  <2>3. crashes' \in 0..MaxFault /\ oneShots' \in 0..MaxNow
    BY <1>30 DEF CrashRestart, TypeOK
  <2>4. scheduled' \in BOOLEAN /\ raced' \in BOOLEAN /\ forgotten' \in BOOLEAN
    BY <1>30 DEF CrashRestart
  <2>5. UNCHANGED <<jobVars, runVars, faults, released>>
    BY <1>30 DEF CrashRestart
  <2>6. /\ jobType' \in JobTypes /\ policy' \in Policies /\ exists' \in BOOLEAN /\ active' \in BOOLEAN
        /\ lastStatus' \in {"null", "running"} \cup (Outcome \ {"cancelled"})
        /\ run' \in [RunId -> {"none", "running"} \cup Outcome]
        /\ created' \in 0..MaxRuns /\ flagged' \subseteq RunId
        /\ faults' \in 0..MaxFault /\ released' \in BOOLEAN
    BY <2>5 DEF TypeOK, jobVars, runVars
  <2> QED
    BY <2>1, <2>2, <2>3, <2>4, <2>6 DEF TypeOK
<1>u. CASE UNCHANGED vars
  BY <1>u DEF vars, TypeOK
<1> QED
  BY <1>1, <1>2, <1>3, <1>4, <1>5, <1>6, <1>7, <1>8, <1>9, <1>10, <1>11,
    <1>12, <1>13, <1>14, <1>15, <1>16, <1>17, <1>18, <1>19, <1>20, <1>21,
    <1>22, <1>23, <1>24, <1>25, <1>26, <1>27, <1>28, <1>29, <1>30,
    <1>31, <1>32, <1>33, <1>34, <1>u DEF
    Next, ExecutorStep, AdminStep

(* Every step keeps the program counters and their data in agreement.      *)
LEMMA StepControl == TypeOK /\ Control /\ [Next]_vars => Control'
<1> SUFFICES ASSUME TypeOK /\ Control, [Next]_vars PROVE Control'
  OBVIOUS
<1> USE Bounds
<1> USE DEF jobVars, runVars, schedVars, execVars, adminVars, faultVars, histVars
<1>1. ASSUME NEW e \in Executor, FireInterval(e) PROVE Control'
  BY <1>1 DEF TypeOK, Control, FireInterval, Begin, Goto
<1>2. ASSUME NEW e \in Executor, FireOnce(e) PROVE Control'
  BY <1>2 DEF TypeOK, Control, FireOnce, Begin, Goto
<1>3. ASSUME NEW e \in Executor, NothingPending(e) PROVE Control'
  BY <1>3 DEF TypeOK, Control, NothingPending, SetStatus, Releasing, Return,
    Goto
<1>4. ASSUME NEW e \in Executor, SomePending(e) PROVE Control'
  BY <1>4 DEF TypeOK, Control, SomePending, Goto
<1>5. ASSUME NEW e \in Executor, TryClaim(e) PROVE Control'
  BY <1>5 DEF TypeOK, Control, TryClaim, SetStatus, Goto, Return
<1>6. ASSUME NEW e \in Executor, CreateRun(e) PROVE Control'
  <2>1. exists => created + 1 \in RunId
    BY <1>6 DEF CreateRun, TypeOK, RunId
  <2> QED
    BY <1>6, <2>1 DEF CreateRun, Goto, TypeOK, Control
<1>7. ASSUME NEW e \in Executor, Load(e) PROVE Control'
  BY <1>7 DEF TypeOK, Control, Load, Conclude, Goto
<1>8. ASSUME NEW e \in Executor, SeeCancel(e) PROVE Control'
  BY <1>8 DEF TypeOK, Control, SeeCancel, Conclude, Goto
<1>9. ASSUME NEW e \in Executor, EndOfWork(e) PROVE Control'
  BY <1>9 DEF TypeOK, Control, EndOfWork, Conclude, Goto
<1>10. ASSUME NEW e \in Executor, FinishRun(e) PROVE Control'
  BY <1>10 DEF TypeOK, Control, FinishRun, Goto
<1>11. ASSUME NEW e \in Executor, RecordStatus(e) PROVE Control'
  BY <1>11 DEF TypeOK, Control, RecordStatus, SetStatus, Releasing, Return,
    Goto
<1>12. ASSUME NEW e \in Executor, CheckFailures(e) PROVE Control'
  BY <1>12, ZenonT(40) DEF TypeOK, Control, CheckFailures, WriteActive, Return, Goto
<1>13. ASSUME NEW e \in Executor, RemoveDisabled(e) PROVE Control'
  BY <1>13 DEF TypeOK, Control, RemoveDisabled, Return, Goto
<1>14. ASSUME NEW e \in Executor, Recover(e) PROVE Control'
  BY <1>14 DEF TypeOK, Control, Recover, Goto
<1>15. ASSUME NEW e \in Executor, GiveBack(e) PROVE Control'
  BY <1>15 DEF TypeOK, Control, GiveBack, SetStatus, Releasing, Return, Goto
<1>16. ASSUME NEW e \in Executor, ExecutorFails(e) PROVE Control'
  BY <1>16 DEF TypeOK, Control, ExecutorFails, Return, Goto
<1>17. ASSUME RunNow PROVE Control'
  BY <1>17 DEF TypeOK, Control, RunNow
<1>18. ASSUME NEW a \in Admin, ToggleRead(a) PROVE Control'
  BY <1>18 DEF TypeOK, Control, ToggleRead, Ask
<1>19. ASSUME NEW a \in Admin, ToggleWrite(a) PROVE Control'
  BY <1>19 DEF TypeOK, Control, ToggleWrite, Ask, WriteActive, SetStatus,
    Releasing
<1>20. ASSUME NEW a \in Admin, ToggleMark(a) PROVE Control'
  BY <1>20 DEF TypeOK, Control, ToggleMark, Ask
<1>22. ASSUME NEW a \in Admin, ReadAgain(a) PROVE Control'
  BY <1>22 DEF TypeOK, Control, ReadAgain, Ask, Answer
<1>23. ASSUME NEW a \in Admin, AddToScheduler(a) PROVE Control'
  BY <1>23 DEF TypeOK, Control, AddToScheduler, Answer, Ask
<1>24. ASSUME NEW a \in Admin, RemoveFromScheduler(a) PROVE Control'
  BY <1>24 DEF TypeOK, Control, RemoveFromScheduler, Answer, Ask
<1>25. ASSUME NEW a \in Admin, CancelRead(a) PROVE Control'
  BY <1>25 DEF TypeOK, Control, CancelRead, Ask
<1>26. ASSUME NEW a \in Admin, CancelFlag(a) PROVE Control'
  BY <1>26 DEF TypeOK, Control, CancelFlag, Ask
<1>27. ASSUME NEW a \in Admin, CancelForce(a) PROVE Control'
  BY <1>27 DEF TypeOK, Control, CancelForce, Answer, Ask, SetStatus,
    Releasing
<1>21. ASSUME NEW a \in Admin, PatchRead(a) PROVE Control'
  BY <1>21 DEF TypeOK, Control, PatchRead, Ask
<1>28. ASSUME NEW a \in Admin, DeleteUnschedule(a) PROVE Control'
  BY <1>28 DEF TypeOK, Control, DeleteUnschedule, Ask
<1>29. ASSUME NEW a \in Admin, DeleteRows(a) PROVE Control'
  BY <1>29 DEF TypeOK, Control, DeleteRows, NoRows, Answer, Ask
<1>31. ASSUME NEW a \in Admin, PatchWrite(a) PROVE Control'
  BY <1>31 DEF TypeOK, Control, PatchWrite, WriteActive, Ask
<1>32. ASSUME NEW a \in Admin, Reschedule(a) PROVE Control'
  BY <1>32 DEF TypeOK, Control, Reschedule, Answer, Ask
<1>33. ASSUME NEW a \in Admin, RequestFails(a) PROVE Control'
  BY <1>33 DEF TypeOK, Control, RequestFails, Answer, Ask
<1>34. ASSUME DeleteWithRegistration PROVE Control'
  BY <1>34 DEF TypeOK, Control, DeleteWithRegistration, NoRows
<1>30. ASSUME CrashRestart PROVE Control'
  BY <1>30 DEF TypeOK, Control, CrashRestart
<1>u. CASE UNCHANGED vars
  BY <1>u DEF vars, TypeOK, Control
<1> QED
  BY <1>1, <1>2, <1>3, <1>4, <1>5, <1>6, <1>7, <1>8, <1>9, <1>10, <1>11,
    <1>12, <1>13, <1>14, <1>15, <1>16, <1>17, <1>18, <1>19, <1>20, <1>21,
    <1>22, <1>23, <1>24, <1>25, <1>26, <1>27, <1>28, <1>29, <1>30,
    <1>31, <1>32, <1>33, <1>34, <1>u DEF
    Next, ExecutorStep, AdminStep

(* Every step keeps the holder of the claim alone.                         *)
LEMMA StepClaimed == TypeOK /\ Control /\ Claimed /\ [Next]_vars => Claimed'
<1> SUFFICES ASSUME TypeOK /\ Control /\ Claimed, [Next]_vars PROVE Claimed'
  OBVIOUS
<1> USE Bounds
<1> USE DEF jobVars, runVars, schedVars, execVars, adminVars, faultVars, histVars
<1>1. ASSUME NEW e \in Executor, FireInterval(e) PROVE Claimed'
  BY <1>1 DEF TypeOK, Control, Claimed, SoleExecutor, Holder, InRun,
    FireInterval, Begin, Goto
<1>2. ASSUME NEW e \in Executor, FireOnce(e) PROVE Claimed'
  BY <1>2 DEF TypeOK, Control, Claimed, SoleExecutor, Holder, InRun,
    FireOnce, Begin, Goto
<1>3. ASSUME NEW e \in Executor, NothingPending(e) PROVE Claimed'
  BY <1>3 DEF TypeOK, Control, Claimed, SoleExecutor, Holder, InRun,
    NothingPending, SetStatus, Releasing, Return, Goto
<1>4. ASSUME NEW e \in Executor, SomePending(e) PROVE Claimed'
  BY <1>4 DEF TypeOK, Control, Claimed, SoleExecutor, Holder, InRun,
    SomePending, Goto
<1>5. ASSUME NEW e \in Executor, TryClaim(e) PROVE Claimed'
  BY <1>5 DEF TypeOK, Control, Claimed, SoleExecutor, Holder, InRun,
    TryClaim, SetStatus, Goto, Return
<1>6. ASSUME NEW e \in Executor, CreateRun(e) PROVE Claimed'
  BY <1>6 DEF TypeOK, Control, Claimed, SoleExecutor, Holder, InRun,
    CreateRun, Goto
<1>7. ASSUME NEW e \in Executor, Load(e) PROVE Claimed'
  BY <1>7 DEF TypeOK, Control, Claimed, SoleExecutor, Holder, InRun, Load,
    Conclude, Goto
<1>8. ASSUME NEW e \in Executor, SeeCancel(e) PROVE Claimed'
  BY <1>8 DEF TypeOK, Control, Claimed, SoleExecutor, Holder, InRun,
    SeeCancel, Conclude, Goto
<1>9. ASSUME NEW e \in Executor, EndOfWork(e) PROVE Claimed'
  BY <1>9 DEF TypeOK, Control, Claimed, SoleExecutor, Holder, InRun,
    EndOfWork, Conclude, Goto
<1>10. ASSUME NEW e \in Executor, FinishRun(e) PROVE Claimed'
  BY <1>10 DEF TypeOK, Control, Claimed, SoleExecutor, Holder, InRun,
    FinishRun, Goto
<1>11. ASSUME NEW e \in Executor, RecordStatus(e) PROVE Claimed'
  BY <1>11 DEF TypeOK, Control, Claimed, SoleExecutor, Holder, InRun,
    RecordStatus, SetStatus, Releasing, Return, Goto
<1>12. ASSUME NEW e \in Executor, CheckFailures(e) PROVE Claimed'
  <2>1. Holder' = Holder
    BY <1>12 DEF CheckFailures, Return, Goto, TypeOK, Control, Holder, InRun
  <2> QED
    BY <1>12, <2>1 DEF CheckFailures, WriteActive, Claimed, SoleExecutor
<1>13. ASSUME NEW e \in Executor, RemoveDisabled(e) PROVE Claimed'
  BY <1>13 DEF TypeOK, Control, Claimed, SoleExecutor, Holder, InRun,
    RemoveDisabled, Return, Goto
<1>14. ASSUME NEW e \in Executor, Recover(e) PROVE Claimed'
  BY <1>14 DEF TypeOK, Control, Claimed, SoleExecutor, Holder, InRun,
    Recover, Goto
<1>15. ASSUME NEW e \in Executor, GiveBack(e) PROVE Claimed'
  BY <1>15 DEF TypeOK, Control, Claimed, SoleExecutor, Holder, InRun,
    GiveBack, SetStatus, Releasing, Return, Goto
<1>16. ASSUME NEW e \in Executor, ExecutorFails(e) PROVE Claimed'
  BY <1>16 DEF TypeOK, Control, Claimed, SoleExecutor, Holder, InRun,
    ExecutorFails, Return, Goto
<1>17. ASSUME RunNow PROVE Claimed'
  BY <1>17 DEF TypeOK, Control, Claimed, SoleExecutor, Holder, InRun, RunNow
<1>18. ASSUME NEW a \in Admin, ToggleRead(a) PROVE Claimed'
  BY <1>18 DEF TypeOK, Control, Claimed, SoleExecutor, Holder, InRun,
    ToggleRead, Ask
<1>19. ASSUME NEW a \in Admin, ToggleWrite(a) PROVE Claimed'
  BY <1>19 DEF TypeOK, Control, Claimed, SoleExecutor, Holder, InRun,
    ToggleWrite, Ask, WriteActive, SetStatus, Releasing
<1>20. ASSUME NEW a \in Admin, ToggleMark(a) PROVE Claimed'
  BY <1>20 DEF TypeOK, Control, Claimed, SoleExecutor, Holder, InRun,
    ToggleMark, Ask
<1>22. ASSUME NEW a \in Admin, ReadAgain(a) PROVE Claimed'
  BY <1>22 DEF TypeOK, Control, Claimed, SoleExecutor, Holder, InRun,
    ReadAgain, Ask, Answer
<1>23. ASSUME NEW a \in Admin, AddToScheduler(a) PROVE Claimed'
  BY <1>23 DEF TypeOK, Control, Claimed, SoleExecutor, Holder, InRun,
    AddToScheduler, Answer, Ask
<1>24. ASSUME NEW a \in Admin, RemoveFromScheduler(a) PROVE Claimed'
  BY <1>24 DEF TypeOK, Control, Claimed, SoleExecutor, Holder, InRun,
    RemoveFromScheduler, Answer, Ask
<1>25. ASSUME NEW a \in Admin, CancelRead(a) PROVE Claimed'
  BY <1>25 DEF TypeOK, Control, Claimed, SoleExecutor, Holder, InRun,
    CancelRead, Ask
<1>26. ASSUME NEW a \in Admin, CancelFlag(a) PROVE Claimed'
  BY <1>26 DEF TypeOK, Control, Claimed, SoleExecutor, Holder, InRun,
    CancelFlag, Ask
<1>27. ASSUME NEW a \in Admin, CancelForce(a) PROVE Claimed'
  BY <1>27 DEF TypeOK, Control, Claimed, SoleExecutor, Holder, InRun,
    CancelForce, Answer, Ask, SetStatus, Releasing
<1>21. ASSUME NEW a \in Admin, PatchRead(a) PROVE Claimed'
  BY <1>21 DEF TypeOK, Control, Claimed, SoleExecutor, Holder, InRun, PatchRead, Ask
<1>28. ASSUME NEW a \in Admin, DeleteUnschedule(a) PROVE Claimed'
  BY <1>28 DEF TypeOK, Control, Claimed, SoleExecutor, Holder, InRun, DeleteUnschedule, Ask
<1>29. ASSUME NEW a \in Admin, DeleteRows(a) PROVE Claimed'
  BY <1>29 DEF TypeOK, Control, Claimed, SoleExecutor, Holder, InRun, DeleteRows, NoRows, Answer, Ask
<1>31. ASSUME NEW a \in Admin, PatchWrite(a) PROVE Claimed'
  BY <1>31 DEF TypeOK, Control, Claimed, SoleExecutor, Holder, InRun, PatchWrite, WriteActive, Ask
<1>32. ASSUME NEW a \in Admin, Reschedule(a) PROVE Claimed'
  BY <1>32 DEF TypeOK, Control, Claimed, SoleExecutor, Holder, InRun, Reschedule, Answer, Ask
<1>33. ASSUME NEW a \in Admin, RequestFails(a) PROVE Claimed'
  BY <1>33 DEF TypeOK, Control, Claimed, SoleExecutor, Holder, InRun, RequestFails, Answer, Ask
<1>34. ASSUME DeleteWithRegistration PROVE Claimed'
  BY <1>34 DEF TypeOK, Control, Claimed, SoleExecutor, Holder, InRun, DeleteWithRegistration, NoRows
<1>30. ASSUME CrashRestart PROVE Claimed'
  BY <1>30 DEF TypeOK, Control, Claimed, SoleExecutor, Holder, InRun,
    CrashRestart
<1>u. CASE UNCHANGED vars
  BY <1>u DEF vars, TypeOK, Control, Claimed, SoleExecutor, Holder, InRun
<1> QED
  BY <1>1, <1>2, <1>3, <1>4, <1>5, <1>6, <1>7, <1>8, <1>9, <1>10, <1>11,
    <1>12, <1>13, <1>14, <1>15, <1>16, <1>17, <1>18, <1>19, <1>20, <1>21,
    <1>22, <1>23, <1>24, <1>25, <1>26, <1>27, <1>28, <1>29, <1>30,
    <1>31, <1>32, <1>33, <1>34, <1>u DEF
    Next, ExecutorStep, AdminStep

(* Without failures every step keeps an owner for what says 'running'.     *)
LEMMA StepReturned == TypeOK /\ Control /\ Claimed /\ Returned /\ [Next]_vars => Returned'
<1> SUFFICES ASSUME TypeOK /\ Control /\ Claimed /\ Returned, [Next]_vars PROVE Returned'
  OBVIOUS
<1> USE Bounds
<1> USE DEF jobVars, runVars, schedVars, execVars, adminVars, faultVars, histVars
<1>1. ASSUME NEW e \in Executor, FireInterval(e) PROVE Returned'
  BY <1>1 DEF TypeOK, Control, Claimed, Returned, Holder, InRun,
    FireInterval, Begin, Goto
<1>2. ASSUME NEW e \in Executor, FireOnce(e) PROVE Returned'
  BY <1>2 DEF TypeOK, Control, Claimed, Returned, Holder, InRun, FireOnce,
    Begin, Goto
<1>3. ASSUME NEW e \in Executor, NothingPending(e) PROVE Returned'
  BY <1>3 DEF TypeOK, Control, Claimed, Returned, Holder, InRun,
    NothingPending, SetStatus, Releasing, Return, Goto
<1>4. ASSUME NEW e \in Executor, SomePending(e) PROVE Returned'
  BY <1>4 DEF TypeOK, Control, Claimed, Returned, Holder, InRun,
    SomePending, Goto
<1>5. ASSUME NEW e \in Executor, TryClaim(e) PROVE Returned'
  BY <1>5 DEF TypeOK, Control, Claimed, Returned, Holder, InRun, TryClaim,
    SetStatus, Goto, Return
<1>6. ASSUME NEW e \in Executor, CreateRun(e) PROVE Returned'
  <2>1. CASE exists
    <3>1. created + 1 \in RunId
      BY <1>6, <2>1 DEF CreateRun, TypeOK, RunId
    <3> QED
      BY <1>6, <2>1, <3>1 DEF CreateRun, Goto, TypeOK, Control, Returned, Holder, InRun
  <2>2. CASE ~exists
    BY <1>6, <2>2 DEF CreateRun, Goto, TypeOK, Control, Claimed, Returned, Holder, InRun
  <2> QED
    BY <2>1, <2>2
<1>7. ASSUME NEW e \in Executor, Load(e) PROVE Returned'
  BY <1>7 DEF TypeOK, Control, Claimed, Returned, Holder, InRun, Load,
    Conclude, Goto
<1>8. ASSUME NEW e \in Executor, SeeCancel(e) PROVE Returned'
  BY <1>8 DEF TypeOK, Control, Claimed, Returned, Holder, InRun, SeeCancel,
    Conclude, Goto
<1>9. ASSUME NEW e \in Executor, EndOfWork(e) PROVE Returned'
  BY <1>9 DEF TypeOK, Control, Claimed, Returned, Holder, InRun, EndOfWork,
    Conclude, Goto
<1>10. ASSUME NEW e \in Executor, FinishRun(e) PROVE Returned'
  BY <1>10 DEF Outcome, TypeOK, Control, Claimed, Returned, Holder, InRun,
    FinishRun, Goto
<1>11. ASSUME NEW e \in Executor, RecordStatus(e) PROVE Returned'
  BY <1>11 DEF Outcome, TypeOK, Control, Claimed, Returned, Holder, InRun,
    RecordStatus, SetStatus, Releasing, Return, Goto
<1>12. ASSUME NEW e \in Executor, CheckFailures(e) PROVE Returned'
  <2>1. Holder' = Holder
    BY <1>12 DEF CheckFailures, Return, Goto, TypeOK, Control, Holder, InRun
  <2>2. \A x \in Executor : pc[x] \in {"work", "finish"} => pc'[x] = pc[x] /\ rid'[x] = rid[x]
    BY <1>12 DEF CheckFailures, Return, Goto, TypeOK
  <2>3. \A x \in Executor : pc'[x] = "recover" => pc[x] = "recover"
    BY <1>12 DEF CheckFailures, Return, Goto, TypeOK
  <2> QED
    BY <1>12, <2>1, <2>2, <2>3 DEF CheckFailures, Returned
<1>13. ASSUME NEW e \in Executor, RemoveDisabled(e) PROVE Returned'
  BY <1>13 DEF TypeOK, Control, Claimed, Returned, Holder, InRun,
    RemoveDisabled, Return, Goto
<1>14. ASSUME NEW e \in Executor, Recover(e) PROVE Returned'
  BY <1>14 DEF TypeOK, Control, Claimed, Returned, Holder, InRun, Recover,
    Goto
<1>15. ASSUME NEW e \in Executor, GiveBack(e) PROVE Returned'
  BY <1>15 DEF TypeOK, Control, Claimed, Returned, Holder, InRun, GiveBack,
    SetStatus, Releasing, Return, Goto
<1>16. ASSUME NEW e \in Executor, ExecutorFails(e) PROVE Returned'
  BY <1>16 DEF TypeOK, Control, Claimed, Returned, Holder, InRun,
    ExecutorFails, Return, Goto
<1>17. ASSUME RunNow PROVE Returned'
  BY <1>17 DEF TypeOK, Control, Claimed, Returned, Holder, InRun, RunNow
<1>18. ASSUME NEW a \in Admin, ToggleRead(a) PROVE Returned'
  BY <1>18 DEF TypeOK, Control, Claimed, Returned, Holder, InRun,
    ToggleRead, Ask
<1>19. ASSUME NEW a \in Admin, ToggleWrite(a) PROVE Returned'
  BY <1>19 DEF TypeOK, Control, Claimed, Returned, Holder, InRun,
    ToggleWrite, Ask, WriteActive, SetStatus, Releasing
<1>20. ASSUME NEW a \in Admin, ToggleMark(a) PROVE Returned'
  BY <1>20 DEF TypeOK, Control, Claimed, Returned, Holder, InRun,
    ToggleMark, Ask
<1>22. ASSUME NEW a \in Admin, ReadAgain(a) PROVE Returned'
  BY <1>22 DEF TypeOK, Control, Claimed, Returned, Holder, InRun, ReadAgain,
    Ask, Answer
<1>23. ASSUME NEW a \in Admin, AddToScheduler(a) PROVE Returned'
  BY <1>23 DEF TypeOK, Control, Claimed, Returned, Holder, InRun,
    AddToScheduler, Answer, Ask
<1>24. ASSUME NEW a \in Admin, RemoveFromScheduler(a) PROVE Returned'
  BY <1>24 DEF TypeOK, Control, Claimed, Returned, Holder, InRun,
    RemoveFromScheduler, Answer, Ask
<1>25. ASSUME NEW a \in Admin, CancelRead(a) PROVE Returned'
  BY <1>25 DEF TypeOK, Control, Claimed, Returned, Holder, InRun,
    CancelRead, Ask
<1>26. ASSUME NEW a \in Admin, CancelFlag(a) PROVE Returned'
  BY <1>26 DEF TypeOK, Control, Claimed, Returned, Holder, InRun,
    CancelFlag, Ask
<1>27. ASSUME NEW a \in Admin, CancelForce(a) PROVE Returned'
  BY <1>27 DEF TypeOK, Control, Claimed, Returned, Holder, InRun,
    CancelForce, Answer, Ask, SetStatus, Releasing
<1>21. ASSUME NEW a \in Admin, PatchRead(a) PROVE Returned'
  BY <1>21 DEF TypeOK, Control, Claimed, Returned, Holder, InRun, PatchRead, Ask
<1>28. ASSUME NEW a \in Admin, DeleteUnschedule(a) PROVE Returned'
  BY <1>28 DEF TypeOK, Control, Claimed, Returned, Holder, InRun, DeleteUnschedule, Ask
<1>29. ASSUME NEW a \in Admin, DeleteRows(a) PROVE Returned'
  BY <1>29 DEF TypeOK, Control, Claimed, Returned, Holder, InRun, DeleteRows, NoRows, Answer, Ask
<1>31. ASSUME NEW a \in Admin, PatchWrite(a) PROVE Returned'
  BY <1>31 DEF TypeOK, Control, Claimed, Returned, Holder, InRun, PatchWrite, WriteActive, Ask
<1>32. ASSUME NEW a \in Admin, Reschedule(a) PROVE Returned'
  BY <1>32 DEF TypeOK, Control, Claimed, Returned, Holder, InRun, Reschedule, Answer, Ask
<1>33. ASSUME NEW a \in Admin, RequestFails(a) PROVE Returned'
  BY <1>33 DEF TypeOK, Control, Claimed, Returned, Holder, InRun, RequestFails, Answer, Ask
<1>34. ASSUME DeleteWithRegistration PROVE Returned'
  BY <1>34 DEF TypeOK, Control, Claimed, Returned, Holder, InRun, DeleteWithRegistration, NoRows
<1>30. ASSUME CrashRestart PROVE Returned'
  BY <1>30 DEF TypeOK, Control, Claimed, Returned, Holder, InRun,
    CrashRestart
<1>u. CASE UNCHANGED vars
  BY <1>u DEF vars, TypeOK, Control, Claimed, Returned, Holder, InRun
<1> QED
  BY <1>1, <1>2, <1>3, <1>4, <1>5, <1>6, <1>7, <1>8, <1>9, <1>10, <1>11,
    <1>12, <1>13, <1>14, <1>15, <1>16, <1>17, <1>18, <1>19, <1>20, <1>21,
    <1>22, <1>23, <1>24, <1>25, <1>26, <1>27, <1>28, <1>29, <1>30,
    <1>31, <1>32, <1>33, <1>34, <1>u DEF
    Next, ExecutorStep, AdminStep

(* Every step that writes is_active is followed by its call of the         *)
(* scheduler before another one writes it, or the two have raced.          *)
LEMMA StepSynced == TypeOK /\ Control /\ Synced /\ [Next]_vars => Synced'
<1> SUFFICES ASSUME TypeOK /\ Control /\ Synced, [Next]_vars PROVE Synced'
  OBVIOUS
<1> USE Bounds
<1> USE DEF jobVars, runVars, schedVars, execVars, adminVars, faultVars, histVars
<1>1. ASSUME NEW e \in Executor, FireInterval(e) PROVE Synced'
  BY <1>1 DEF TypeOK, Synced, InSync, Syncing, FireInterval, Begin, Goto
<1>2. ASSUME NEW e \in Executor, FireOnce(e) PROVE Synced'
  BY <1>2 DEF TypeOK, Synced, InSync, Syncing, FireOnce, Begin, Goto
<1>3. ASSUME NEW e \in Executor, NothingPending(e) PROVE Synced'
  BY <1>3 DEF TypeOK, Synced, InSync, Syncing, NothingPending, SetStatus,
    Releasing, Return, Goto
<1>4. ASSUME NEW e \in Executor, SomePending(e) PROVE Synced'
  BY <1>4 DEF TypeOK, Synced, InSync, Syncing, SomePending, Goto
<1>5. ASSUME NEW e \in Executor, TryClaim(e) PROVE Synced'
  BY <1>5 DEF TypeOK, Synced, InSync, Syncing, TryClaim, SetStatus, Goto,
    Return
<1>6. ASSUME NEW e \in Executor, CreateRun(e) PROVE Synced'
  BY <1>6 DEF TypeOK, Synced, InSync, Syncing, CreateRun, Goto
<1>7. ASSUME NEW e \in Executor, Load(e) PROVE Synced'
  BY <1>7 DEF TypeOK, Synced, InSync, Syncing, Load, Conclude, Goto
<1>8. ASSUME NEW e \in Executor, SeeCancel(e) PROVE Synced'
  BY <1>8 DEF TypeOK, Synced, InSync, Syncing, SeeCancel, Conclude, Goto
<1>9. ASSUME NEW e \in Executor, EndOfWork(e) PROVE Synced'
  BY <1>9 DEF TypeOK, Synced, InSync, Syncing, EndOfWork, Conclude, Goto
<1>10. ASSUME NEW e \in Executor, FinishRun(e) PROVE Synced'
  BY <1>10 DEF TypeOK, Synced, InSync, Syncing, FinishRun, Goto
<1>11. ASSUME NEW e \in Executor, RecordStatus(e) PROVE Synced'
  BY <1>11 DEF TypeOK, Synced, InSync, Syncing, RecordStatus, SetStatus,
    Releasing, Return, Goto
<1>12. ASSUME NEW e \in Executor, CheckFailures(e) PROVE Synced'
  <2>1. CASE FailureStreak
    <3>1. /\ pc' = [pc EXCEPT ![e] = "remove"] /\ ~active'
          /\ raced' = (raced \/ Syncing # {})
          /\ UNCHANGED <<exists, scheduled, apc, forgotten>>
      BY <1>12, <2>1 DEF CheckFailures, WriteActive, Goto, Synced
    <3>2. CASE Syncing # {}
      BY <3>1, <3>2 DEF Synced
    <3>3. CASE Syncing = {}
      <4>1. /\ \A a \in Admin : apc'[a] \notin InSync
            /\ \A f \in Executor : pc'[f] = "remove" => f = e
            /\ e \in Syncing'
        BY <3>1, <3>3 DEF Syncing, InSync, TypeOK
      <4> QED BY <3>1, <4>1 DEF Synced, InSync
    <3> QED BY <3>2, <3>3
  <2>2. CASE ~FailureStreak
    <3>1. /\ pc[e] = "check" /\ pc' = [pc EXCEPT ![e] = "idle"]
          /\ UNCHANGED <<exists, active, scheduled, apc, raced, forgotten>>
      BY <1>12, <2>2 DEF CheckFailures, Return, Goto
    <3>2. Syncing' = Syncing /\ \A f \in Executor : pc'[f] = "remove" <=> pc[f] = "remove"
      BY <3>1 DEF Syncing, TypeOK
    <3> QED BY <3>1, <3>2 DEF Synced
  <2> QED BY <2>1, <2>2
<1>13. ASSUME NEW e \in Executor, RemoveDisabled(e) PROVE Synced'
  BY <1>13 DEF TypeOK, Synced, InSync, Syncing, RemoveDisabled, Return, Goto
<1>14. ASSUME NEW e \in Executor, Recover(e) PROVE Synced'
  BY <1>14 DEF TypeOK, Synced, InSync, Syncing, Recover, Goto
<1>15. ASSUME NEW e \in Executor, GiveBack(e) PROVE Synced'
  BY <1>15 DEF TypeOK, Synced, InSync, Syncing, GiveBack, SetStatus,
    Releasing, Return, Goto
<1>16. ASSUME NEW e \in Executor, ExecutorFails(e) PROVE Synced'
  BY <1>16 DEF TypeOK, Synced, InSync, Syncing, ExecutorFails, Return, Goto
<1>17. ASSUME RunNow PROVE Synced'
  BY <1>17 DEF TypeOK, Synced, InSync, Syncing, RunNow
<1>18. ASSUME NEW a \in Admin, ToggleRead(a) PROVE Synced'
  BY <1>18 DEF TypeOK, Synced, InSync, Syncing, ToggleRead, Ask
<1>19. ASSUME NEW a \in Admin, ToggleWrite(a) PROVE Synced'
  BY <1>19, ZenonT(40) DEF TypeOK, Synced, InSync, Syncing, ToggleWrite, Ask,
    WriteActive, SetStatus, Releasing
<1>20. ASSUME NEW a \in Admin, ToggleMark(a) PROVE Synced'
  BY <1>20 DEF TypeOK, Synced, InSync, Syncing, ToggleMark, Ask
<1>22. ASSUME NEW a \in Admin, ReadAgain(a) PROVE Synced'
  BY <1>22 DEF TypeOK, Synced, InSync, Syncing, ReadAgain, Ask, Answer
<1>23. ASSUME NEW a \in Admin, AddToScheduler(a) PROVE Synced'
  BY <1>23 DEF TypeOK, Synced, InSync, Syncing, AddToScheduler, Answer, Ask
<1>24. ASSUME NEW a \in Admin, RemoveFromScheduler(a) PROVE Synced'
  BY <1>24 DEF TypeOK, Synced, InSync, Syncing, RemoveFromScheduler, Answer,
    Ask
<1>25. ASSUME NEW a \in Admin, CancelRead(a) PROVE Synced'
  BY <1>25 DEF TypeOK, Synced, InSync, Syncing, CancelRead, Ask
<1>26. ASSUME NEW a \in Admin, CancelFlag(a) PROVE Synced'
  BY <1>26 DEF TypeOK, Synced, InSync, Syncing, CancelFlag, Ask
<1>27. ASSUME NEW a \in Admin, CancelForce(a) PROVE Synced'
  BY <1>27 DEF TypeOK, Synced, InSync, Syncing, CancelForce, Answer, Ask,
    SetStatus, Releasing
<1>21. ASSUME NEW a \in Admin, PatchRead(a) PROVE Synced'
  BY <1>21 DEF TypeOK, Synced, InSync, Syncing, PatchRead, Ask
<1>28. ASSUME NEW a \in Admin, DeleteUnschedule(a) PROVE Synced'
  BY <1>28 DEF TypeOK, Synced, InSync, Syncing, DeleteUnschedule, Ask
<1>29. ASSUME NEW a \in Admin, DeleteRows(a) PROVE Synced'
  BY <1>29 DEF TypeOK, Synced, InSync, Syncing, DeleteRows, NoRows, Answer, Ask
<1>31. ASSUME NEW a \in Admin, PatchWrite(a) PROVE Synced'
  <2>1. /\ apc' = [apc EXCEPT ![a] = IF aclear[a] THEN "resched" ELSE IF aset[a] THEN "reread" ELSE "remove"]
        /\ active' = IF exists THEN aset[a] ELSE active
        /\ raced' = (raced \/ Syncing # {})
        /\ UNCHANGED <<exists, scheduled, pc, forgotten>>
    BY <1>31 DEF PatchWrite, WriteActive, Ask
  <2>2. a \in Syncing'
    BY <2>1 DEF Syncing, TypeOK
  <2>3. CASE Syncing # {}
    BY <2>1, <2>2, <2>3 DEF Synced
  <2>4. CASE Syncing = {}
    <3>1. /\ \A b \in Admin : apc'[b] \in InSync => b = a
          /\ \A e \in Executor : pc'[e] # "remove"
      BY <2>1, <2>4 DEF Syncing, InSync, TypeOK
    <3>2. /\ apc'[a] = "resched" => aset[a]
          /\ apc'[a] = "reread" => aset[a]
          /\ apc'[a] = "remove" => ~aset[a]
          /\ apc'[a] \in {"resched", "reread", "remove"}
      BY <1>31, <2>1 DEF PatchWrite, TypeOK, Control
    <3> QED BY <2>1, <2>2, <2>4, <3>1, <3>2 DEF Synced, InSync
  <2> QED BY <2>3, <2>4
<1>32. ASSUME NEW a \in Admin, Reschedule(a) PROVE Synced'
  BY <1>32 DEF TypeOK, Synced, InSync, Syncing, Reschedule, Answer, Ask
<1>33. ASSUME NEW a \in Admin, RequestFails(a) PROVE Synced'
  BY <1>33 DEF TypeOK, Synced, InSync, Syncing, RequestFails, Answer, Ask
<1>34. ASSUME DeleteWithRegistration PROVE Synced'
  BY <1>34 DEF TypeOK, Synced, InSync, Syncing, DeleteWithRegistration, NoRows
<1>30. ASSUME CrashRestart PROVE Synced'
  BY <1>30 DEF TypeOK, Synced, InSync, Syncing, CrashRestart
<1>u. CASE UNCHANGED vars
  BY <1>u DEF vars, TypeOK, Synced, InSync, Syncing
<1> QED
  BY <1>1, <1>2, <1>3, <1>4, <1>5, <1>6, <1>7, <1>8, <1>9, <1>10, <1>11,
    <1>12, <1>13, <1>14, <1>15, <1>16, <1>17, <1>18, <1>19, <1>20, <1>21,
    <1>22, <1>23, <1>24, <1>25, <1>26, <1>27, <1>28, <1>29, <1>30,
    <1>31, <1>32, <1>33, <1>34, <1>u DEF
    Next, ExecutorStep, AdminStep

(* Nobody has the claim and nothing runs in the initial states.            *)
LEMMA InitRest == Init => Control /\ Claimed /\ Returned /\ Synced
<1> SUFFICES ASSUME Init PROVE Control /\ Claimed /\ Returned /\ Synced
  OBVIOUS
<1>1. Holder = {}
  BY DEF Init, Holder, InRun
<1>2. Control
  BY DEF Init, Control
<1>3. Claimed
  BY <1>1 DEF Init, Claimed, SoleExecutor
<1>4. Returned
  BY DEF Init, Returned
<1>5. Synced
  BY DEF Init, Synced, InSync
<1> QED BY <1>2, <1>3, <1>4, <1>5

(* The inductive invariant of the batch job holds in every execution.      *)
THEOREM Invariance == Spec => []IInv
<1>1. Init => IInv
  BY InitType, InitRest DEF IInv
<1>2. IInv /\ [Next]_vars => IInv'
  BY StepType, StepControl, StepClaimed, StepReturned, StepSynced DEF IInv
<1> QED BY <1>1, <1>2, PTL DEF Spec

(* The rows and the variables of every handler keep their types, however   *)
(* the executors and the administrators interleave, crash and fail.        *)
THEOREM TypeCorrect == Spec => []TypeOK
<1>1. IInv => TypeOK
  BY DEF IInv
<1> QED BY <1>1, Invariance, PTL

(* try_claim_batch_job_for_run excludes: as long as nobody releases the    *)
(* claim from outside, one executor at most is inside a run of the job.    *)
THEOREM ClaimExcludes == Spec => []SoleExecutor
<1>1. IInv => SoleExecutor
  BY DEF IInv, Claimed, SoleExecutor
<1> QED BY <1>1, Invariance, PTL

(* In a process that neither dies nor fails the claim and the run come     *)
(* back: whoever finds them 'running' finds an executor that will end it.  *)
THEOREM ClaimComesBack == Spec => []NothingLeftRunning
<1>1. IInv => NothingLeftRunning
  BY DEF IInv, Returned, NothingLeftRunning
<1> QED BY <1>1, Invariance, PTL

(* The scheduler agrees with is_active: no toggle, patch, deletion or      *)
(* automatic disabling that ran alone leaves an active job unscheduled or  *)
(* an inactive one scheduled.                                              *)
THEOREM SchedulerAgrees == Spec => []ScheduledIffActive
<1>1. IInv => ScheduledIffActive
  BY DEF IInv, Synced, ScheduledIffActive
<1> QED BY <1>1, Invariance, PTL
=============================================================================
