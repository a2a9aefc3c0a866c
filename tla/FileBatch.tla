------------------------------ MODULE FileBatch ------------------------------
(***************************************************************************)
(* The data side of one folder batch job (run_batch_job): which files of   *)
(* the folder a run takes, what it does with each, what the history and    *)
(* the checkpoint last_processed_ts say afterwards, and the roll back of   *)
(* a single file.  The claim of the job is here as far as it decides who   *)
(* works; its life is the subject of BatchRun.                             *)
(*                                                                         *)
(* A file is listed from the moment at which its stamp is not in the       *)
(* future any more, so that Arrive stands for the upload and the clock.    *)
(***************************************************************************)
EXTENDS Naturals, FiniteSets

CONSTANTS
  Executor,    \* threads of the scheduler that execute this job
  File,        \* names of files that match the job's pattern and extensions
  Key,         \* primary keys of the target table
  Ts,          \* the time stamp in each name
  Early,       \* the files that are there from the beginning
  Content,     \* what a file may hold, equal for equal checksums
  Holding,     \* the contents that each file may have
  KindsOf,     \* the kinds that each content may be of
  KeysIn,      \* the keys of the rows in each content
  NoFile,      \* no file
  MaxRuns,     \* bound: rows of batch_run_history
  MaxFaults,   \* bound: failing statements and deaths of the process
  MaxActs      \* bound: requests of administrators

Kind == {"data",    \* rows
         "empty",   \* no row
         "large",   \* more than max_file_mb
         "bad"}     \* cannot be read

Run == 1..MaxRuns

ASSUME FileBatchAssumption ==
  /\ IsFiniteSet(Executor) /\ IsFiniteSet(File) /\ NoFile \notin File /\ Early \subseteq File
  /\ Ts \in [File -> Nat \ {0}]
  /\ Holding \in [File -> SUBSET Content]
  /\ KindsOf \in [Content -> SUBSET Kind]
  /\ KeysIn \in [Content -> SUBSET Key]
  /\ {MaxRuns, MaxFaults, MaxActs} \subseteq Nat

VARIABLES
  folder,      \* files in the remote folder
  content,     \* what each file holds
  kind,        \* the kind of each content
  stops,       \* on_file_error is 'stop'
  checkpoint,  \* last_processed_ts, 0 for NULL
  claimed,     \* last_run_status is 'running'
  runs,        \* rows of batch_run_history so far
  history,     \* those rows
  target,      \* the run and the file that wrote the row of each key
  loadedKeys,  \* batch_loaded_keys
  ex,          \* the variables of each executor
  undo,        \* a rollback_file request
  faults, acts,
  commits,     \* history: how often each content was committed
  excused,     \* history: files that the checkpoint passes for a reason named below
  loose,       \* history: contents whose commit is not in batch_run_history, by a fault
  unkeyed      \* history: loads whose keys are not in batch_loaded_keys, by a fault

vars == <<folder, content, kind, stops, checkpoint, claimed, runs, history, target,
          loadedKeys, ex, undo, faults, acts, commits, excused, loose, unkeyed>>
fixed == <<content, kind, stops>>
rows == <<target, commits, unkeyed>>
admin == <<undo, acts>>

Result == {"ok", "skipped", "error"}
Entry == File \X Result
NoRun == 0
NoRow == <<NoRun, NoFile>>

Pc == {"idle", "quit", "claim", "create", "next", "write", "advance",
       "progress", "finish", "status", "recover", "giveback"}
Verdict == {"success", "partial_error", "skipped", "cancelled", "error"}

RunRow == [status : Verdict \cup {"none", "running"}, list : SUBSET Entry,
           cancel : {"no", "asked", "forced"}]

(* run_batch_job between two steps.  `inner`: an exception would reach the  *)
(* handler of the file; `fresh`: no other executor was at work when this   *)
(* one listed the folder, and none has claimed the job since.              *)
Work == [pc : Pc, run : Run \cup {NoRun}, pending : SUBSET File,
         file : File \cup {NoFile}, res : Result, results : SUBSET Entry,
         inner : BOOLEAN, ends : BOOLEAN, verdict : Verdict,
         completed : BOOLEAN, fresh : BOOLEAN]

Idle == [pc |-> "idle", run |-> NoRun, pending |-> {}, file |-> NoFile,
         res |-> "ok", results |-> {}, inner |-> FALSE, ends |-> FALSE,
         verdict |-> "success", completed |-> FALSE, fresh |-> FALSE]

NoUndo == [at |-> "none", run |-> NoRun, file |-> NoFile, keys |-> {}]

TypeOK ==
  /\ folder \subseteq File
  /\ content \in [File -> Content]
  /\ kind \in [Content -> Kind]
  /\ stops \in BOOLEAN
  /\ checkpoint \in Nat
  /\ claimed \in BOOLEAN
  /\ runs \in 0..MaxRuns
  /\ history \in [Run -> RunRow]
  /\ target \in [Key -> (Run \X File) \cup {NoRow}]
  /\ loadedKeys \subseteq Run \X File \X Key
  /\ ex \in [Executor -> Work]
  /\ undo \in [at : {"none", "rows", "keys"}, run : Run \cup {NoRun},
               file : File \cup {NoFile}, keys : SUBSET Key]
  /\ faults \in 0..MaxFaults /\ acts \in 0..MaxActs
  /\ commits \in [Content -> Nat]
  /\ excused \subseteq File
  /\ loose \subseteq Content
  /\ unkeyed \subseteq Run \X File

Init ==
  /\ folder = Early
  /\ content \in {c \in [File -> Content] : \A f \in File : c[f] \in Holding[f]}
  /\ kind \in {k \in [Content -> Kind] : \A c \in Content : k[c] \in KindsOf[c]}
  /\ stops \in BOOLEAN
  /\ checkpoint = 0 /\ claimed = FALSE
  /\ runs = 0
  /\ history = [r \in Run |-> [status |-> "none", list |-> {}, cancel |-> "no"]]
  /\ target = [k \in Key |-> NoRow] /\ loadedKeys = {}
  /\ ex = [e \in Executor |-> Idle]
  /\ undo = NoUndo
  /\ faults = 0 /\ acts = 0
  /\ commits = [c \in Content |-> 0]
  /\ excused = {} /\ loose = {} /\ unkeyed = {}

-----------------------------------------------------------------------------
Set(e, rec) == ex' = [ex EXCEPT ![e] = rec]
Goto(e, pc) == Set(e, [ex[e] EXCEPT !.pc = pc])
At(e, pc) == ex[e].pc = pc
Others(e) == {o \in Executor \ {e} : ex[o].pc \notin {"idle", "quit", "claim"}}

Files(entries) == {x[1] : x \in entries}
With(entries, res) == {x \in entries : x[2] = res}
Listed == UNION {history[r].list : r \in Run}

(* get_skipped_filenames_set and is_duplicate_checksum: a checksum is kept  *)
(* with the files that were loaded, or were empty, only.                    *)
Excluded == Files(Listed \ With(Listed, "ok"))
NoDuplicate(f) == f \in Excluded
Duplicate(f) == \E g \in Files(With(Listed, "ok")) : content[g] = content[f]

(* get_pending_files, minus the files of the history.                       *)
Pending == {f \in folder : Ts[f] > checkpoint} \ Excluded
AnyOf(S) == S
Oldest(S) == {f \in S : \A g \in S : Ts[f] <= Ts[g]}

(* What an executor knows and nobody else does when it disappears, and what *)
(* it still had to do.  Files at the checkpoint are not listed again; nor   *)
(* are those that somebody else passes who listed the folder without them,  *)
(* even if the checkpoint is moved back meanwhile.                          *)
Unwritten(e) == ex[e].results \ Listed
ToCome(e) ==
  ex[e].pending \cup (IF At(e, "write") THEN {ex[e].file} ELSE {})
Ahead(e) == (ToCome(e) \cup {ex[e].file}) \cap File
Overtaken(f, S) ==
  \E o \in Executor \ S : f \notin ToCome(o) /\ \E g \in Ahead(o) : Ts[f] <= Ts[g]
PassedBy(S) ==
  UNION {{f \in ToCome(e) : \/ Ts[f] = checkpoint \/ (Ts[f] < checkpoint /\ ~ex[e].fresh)
                            \/ Overtaken(f, S)} : e \in S}
Forgotten(S) ==
  /\ excused' = excused \cup PassedBy(S)
       \cup (UNION {Files(Unwritten(e) \ With(Unwritten(e), "ok")) : e \in S})
  /\ loose' = loose
       \cup (UNION {{content[f] : f \in Files(With(Unwritten(e), "ok"))} : e \in S})

-----------------------------------------------------------------------------
(* The folder.                                                              *)

(* A file that comes when its stamp is behind the checkpoint, or behind     *)
(* what a run under way will reach, is passed by for good.                  *)
Arrive(f) ==
  /\ f \notin folder
  /\ folder' = folder \cup {f}
  /\ excused' = excused \cup
       (IF Ts[f] <= checkpoint
           \/ \E e \in Executor : \E g \in Ahead(e) : Ts[f] <= Ts[g]
        THEN {f} ELSE {})
  /\ UNCHANGED <<fixed, checkpoint, claimed, runs, history, loadedKeys, ex,
                 loose, rows, admin, faults>>

-----------------------------------------------------------------------------
(* run_batch_job up to the first file.                                      *)

Look(e) ==
  /\ At(e, "idle") /\ ~claimed
  /\ runs + Cardinality({o \in Executor : ex[o].pc \in {"claim", "create"}}) < MaxRuns
  /\ Set(e, [Idle EXCEPT !.pc = IF Pending = {} THEN "quit" ELSE "claim",
                         !.pending = Pending, !.fresh = Others(e) = {}])
  /\ UNCHANGED <<folder, fixed, checkpoint, claimed, runs, history, loadedKeys,
                 excused, loose, rows, admin, faults>>

(* Nothing to do: the job becomes 'success', whoever holds it by now.       *)
Quit(e) ==
  /\ At(e, "quit")
  /\ claimed' = FALSE
  /\ Set(e, Idle)
  /\ UNCHANGED <<folder, fixed, checkpoint, runs, history, loadedKeys,
                 excused, loose, rows, admin, faults>>

(* try_claim_batch_job_for_run, under the lock of the row.                  *)
Claim(e) ==
  /\ At(e, "claim")
  /\ \/ /\ claimed
        /\ Set(e, Idle)
        /\ UNCHANGED claimed
     \/ /\ ~claimed
        /\ claimed' = TRUE
        /\ ex' = [o \in Executor |->
                    IF o = e THEN [ex[e] EXCEPT !.pc = "create", !.fresh = @ /\ Others(e) = {}]
                    ELSE [ex[o] EXCEPT !.fresh = FALSE]]
  /\ UNCHANGED <<folder, fixed, checkpoint, runs, history, loadedKeys,
                 excused, loose, rows, admin, faults>>

CreateRun(e) ==
  /\ At(e, "create")
  /\ runs' = runs + 1
  /\ history' = [history EXCEPT ![runs'].status = "running"]
  /\ Set(e, [ex[e] EXCEPT !.pc = "next", !.run = runs'])
  /\ UNCHANGED <<folder, fixed, checkpoint, claimed, loadedKeys,
                 excused, loose, rows, admin, faults>>

-----------------------------------------------------------------------------
(* One file.                                                                *)

(* The tests before a file is loaded, in their order: download, size,       *)
(* checksum, reading.                                                       *)
Outcome(f) ==
  IF f \notin folder THEN "error"
  ELSE IF kind[content[f]] = "large" \/ Duplicate(f) THEN "skipped"
  ELSE IF kind[content[f]] = "bad" THEN "error" ELSE "ok"

(* A result is appended to file_results; the checkpoint comes next, for     *)
(* failed files as well.  `inner`: the statements that follow are still     *)
(* inside the try of the file.                                              *)
Append(e, f, res, inner) ==
  Set(e, [ex[e] EXCEPT !.pc = "advance", !.file = f, !.res = res,
                       !.pending = @ \ {f}, !.results = @ \cup {<<f, res>>},
                       !.inner = inner, !.ends = res = "error" /\ stops])

MayGoOn(e) == At(e, "next") /\ history[ex[e].run].cancel = "no"

(* A file that is not loaded.                                               *)
Settle(e) ==
  /\ MayGoOn(e)
  /\ \E f \in Oldest(ex[e].pending) :
       /\ Outcome(f) # "ok" \/ kind[content[f]] = "empty"
       /\ Append(e, f, Outcome(f), Outcome(f) # "error")
  /\ UNCHANGED <<folder, fixed, checkpoint, claimed, runs, history, loadedKeys,
                 excused, loose, rows, admin, faults>>

(* Another executor loads the same content, and its checksum is not in the  *)
(* history yet.                                                             *)
AlsoLoading(e, f) ==
  \E o \in Executor \ {e} :
    \/ At(o, "write") /\ content[ex[o].file] = content[f]
    \/ \E g \in Files(With(Unwritten(o), "ok")) : content[g] = content[f]

(* load_dataframe: the upsert, in a transaction of the target, and then its *)
(* keys, which batch_loaded_keys has at once.                               *)
WriteNewKeys(e) ==
  /\ MayGoOn(e)
  /\ \E f \in Oldest(ex[e].pending) :
       /\ Outcome(f) = "ok" /\ kind[content[f]] = "data"
       /\ Set(e, [ex[e] EXCEPT !.pc = "write", !.file = f, !.pending = @ \ {f}])
       /\ loadedKeys' = loadedKeys \cup
            {<<ex[e].run, f, k>> : k \in KeysIn[content[f]] \ {x[3] : x \in loadedKeys}}
       /\ loose' = loose \cup (IF AlsoLoading(e, f) THEN {content[f]} ELSE {})
  /\ UNCHANGED <<folder, fixed, checkpoint, claimed, runs, history,
                 excused, rows, admin, faults>>
Write(e) ==
  /\ MayGoOn(e)
  /\ \E f \in Oldest(ex[e].pending) :
       /\ Outcome(f) = "ok" /\ kind[content[f]] = "data"
       /\ Set(e, [ex[e] EXCEPT !.pc = "write", !.file = f, !.pending = @ \ {f}])
       /\ loadedKeys' = loadedKeys \cup {<<ex[e].run, f, k>> : k \in KeysIn[content[f]]}
       /\ loose' = loose \cup (IF AlsoLoading(e, f) THEN {content[f]} ELSE {})
  /\ UNCHANGED <<folder, fixed, checkpoint, claimed, runs, history,
                 excused, rows, admin, faults>>

(* A failure to record the keys is logged, and the load goes on.            *)
WriteUnrecorded(e) ==
  /\ MayGoOn(e) /\ faults < MaxFaults
  /\ \E f \in Oldest(ex[e].pending) :
       /\ Outcome(f) = "ok" /\ kind[content[f]] = "data"
       /\ Set(e, [ex[e] EXCEPT !.pc = "write", !.file = f, !.pending = @ \ {f}])
       /\ unkeyed' = unkeyed \cup {<<ex[e].run, f>>}
       /\ loose' = loose \cup (IF AlsoLoading(e, f) THEN {content[f]} ELSE {})
  /\ faults' = faults + 1
  /\ UNCHANGED <<folder, fixed, checkpoint, claimed, runs, history, loadedKeys,
                 target, commits, excused, admin>>

CommitUnnamed(e) ==
  /\ At(e, "write")
  /\ LET f == ex[e].file
     IN /\ target' = [k \in Key |-> IF k \in KeysIn[content[f]] THEN <<ex[e].run, NoFile>> ELSE target[k]]
        /\ commits' = [commits EXCEPT ![content[f]] = @ + 1]
        /\ Append(e, f, "ok", TRUE)
  /\ UNCHANGED <<folder, fixed, checkpoint, claimed, runs, history, loadedKeys,
                 unkeyed, excused, loose, admin, faults>>
Commit(e) ==
  /\ At(e, "write")
  /\ LET f == ex[e].file
     IN /\ target' = [k \in Key |-> IF k \in KeysIn[content[f]] THEN <<ex[e].run, f>> ELSE target[k]]
        /\ commits' = [commits EXCEPT ![content[f]] = @ + 1]
        /\ Append(e, f, "ok", TRUE)
  /\ UNCHANGED <<folder, fixed, checkpoint, claimed, runs, history, loadedKeys,
                 unkeyed, excused, loose, admin, faults>>

(* The commit fails, or the load before it: rolled back, an error.          *)
LoadFails(e) ==
  /\ At(e, "write") /\ faults < MaxFaults
  /\ faults' = faults + 1
  /\ \E inCommit \in BOOLEAN : Append(e, ex[e].file, "error", inCommit)
  /\ UNCHANGED <<folder, fixed, checkpoint, claimed, runs, history, loadedKeys,
                 excused, loose, rows, admin>>

(* update_last_processed_ts.  After a load that succeeded the try of the    *)
(* file ends here.                                                          *)
Loaded(e) == ex[e].res = "ok" /\ kind[content[ex[e].file]] = "data"
Advance(e) ==
  /\ At(e, "advance")
  /\ checkpoint' = Ts[ex[e].file]
  /\ Set(e, [ex[e] EXCEPT !.pc = IF ex[e].ends THEN "finish" ELSE "progress",
                          !.verdict = "error", !.inner = @ /\ ~Loaded(e)])
  /\ UNCHANGED <<folder, fixed, claimed, runs, history, loadedKeys,
                 excused, loose, rows, admin, faults>>

(* update_run_progress, for a run that is still running.                    *)
Progress(e) ==
  /\ At(e, "progress")
  /\ history' = [history EXCEPT ![ex[e].run].list =
                   IF history[ex[e].run].status = "running" THEN ex[e].results ELSE @]
  /\ Goto(e, "next")
  /\ UNCHANGED <<folder, fixed, checkpoint, claimed, runs, loadedKeys,
                 excused, loose, rows, admin, faults>>

-----------------------------------------------------------------------------
(* The end of a run.                                                        *)

RunVerdictUnlessAll(results) ==
  IF results # {} /\ With(results, "skipped") = results THEN "skipped"
  ELSE IF results # {} /\ With(results, "error") = results THEN "partial_error" ELSE "success"
RunVerdict(results) ==
  IF results # {} /\ With(results, "skipped") = results THEN "skipped"
  ELSE IF With(results, "error") # {} THEN "partial_error" ELSE "success"

Conclude(e) ==
  /\ At(e, "next")
  /\ \/ /\ history[ex[e].run].cancel # "no"
        /\ Set(e, [ex[e] EXCEPT !.pc = "finish", !.verdict = "cancelled", !.inner = FALSE])
     \/ /\ history[ex[e].run].cancel = "no" /\ ex[e].pending = {}
        /\ Set(e, [ex[e] EXCEPT !.pc = "finish", !.inner = FALSE,
                                !.verdict = RunVerdict(ex[e].results)])
  /\ UNCHANGED <<folder, fixed, checkpoint, claimed, runs, history, loadedKeys,
                 excused, loose, rows, admin, faults>>

(* finish_run, whatever the row says by now.  Files of the stamp that was   *)
(* reached last and that are still to come are not listed again, nor are    *)
(* those that another executor has passed meanwhile, or will.               *)
Finish(e) ==
  /\ At(e, "finish")
  /\ history' = [history EXCEPT ![ex[e].run].status = ex[e].verdict,
                                ![ex[e].run].list = ex[e].results]
  /\ Set(e, [ex[e] EXCEPT !.pc = "status", !.completed = ex[e].verdict # "error"])
  /\ excused' = excused \cup PassedBy({e})
  /\ UNCHANGED <<folder, fixed, checkpoint, claimed, runs, loadedKeys,
                 loose, rows, admin, faults>>

(* update_job_status gives the claim back.                                  *)
Status(e) ==
  /\ At(e, "status")
  /\ claimed' = FALSE
  /\ Set(e, Idle)
  /\ UNCHANGED <<folder, fixed, checkpoint, runs, history, loadedKeys,
                 excused, loose, rows, admin, faults>>

(* A statement of the system database fails: the handler of the file, which *)
(* appends an error for it, or the handler of the run.                      *)
Raise(e) ==
  /\ ex[e].pc \in {"claim", "create", "advance", "progress", "finish", "status"}
  /\ faults < MaxFaults
  /\ faults' = faults + 1
  /\ IF ex[e].inner THEN Append(e, ex[e].file, "error", FALSE)
     ELSE Goto(e, IF ex[e].run = NoRun THEN "giveback" ELSE "recover")
  /\ UNCHANGED <<folder, fixed, checkpoint, claimed, runs, history, loadedKeys,
                 excused, loose, rows, admin>>

(* The handler of the run: finish_run without a file list, which empties    *)
(* the one that was there.  A failure of its own is logged.                 *)
Recover(e) ==
  /\ At(e, "recover")
  /\ LET r == ex[e].run
         gone == history[r].list \cup ex[e].results
     IN \/ /\ history' = [history EXCEPT ![r].status = "error", ![r].list = {}]
           /\ excused' = excused \cup Files(gone \ With(gone, "ok"))
                           \cup PassedBy({e})
           /\ loose' = loose \cup {content[f] : f \in Files(With(gone, "ok"))}
           /\ UNCHANGED faults
        \/ /\ faults < MaxFaults
           /\ faults' = faults + 1
           /\ Forgotten({e})
           /\ UNCHANGED history
  /\ Set(e, IF ex[e].completed THEN Idle
            ELSE [ex[e] EXCEPT !.pc = "giveback", !.results = {}, !.pending = {}])
  /\ UNCHANGED <<folder, fixed, checkpoint, claimed, runs, loadedKeys, rows, admin>>

GiveBack(e) ==
  /\ At(e, "giveback")
  /\ \/ claimed' = FALSE /\ UNCHANGED faults
     \/ faults < MaxFaults /\ faults' = faults + 1 /\ UNCHANGED claimed
  /\ Set(e, Idle)
  /\ UNCHANGED <<folder, fixed, checkpoint, runs, history, loadedKeys,
                 excused, loose, rows, admin>>

(* The process dies.  What it had written stays, the claim included.        *)
Crash ==
  /\ faults < MaxFaults
  /\ faults' = faults + 1
  /\ Forgotten(Executor)
  /\ ex' = [e \in Executor |-> Idle]
  /\ undo' = NoUndo
  /\ UNCHANGED <<folder, fixed, checkpoint, claimed, runs, history, loadedKeys,
                 rows, acts>>

-----------------------------------------------------------------------------
(* Administrators.                                                          *)

Act == acts < MaxActs /\ acts' = acts + 1

(* cancel_batch_run: the request, then the row and the claim.               *)
RequestCancel(r) ==
  /\ Act /\ history[r].status = "running" /\ history[r].cancel = "no"
  /\ history' = [history EXCEPT ![r].cancel = "asked"]
  /\ UNCHANGED <<folder, fixed, checkpoint, claimed, runs, loadedKeys, ex, undo,
                 excused, loose, rows, faults>>

ForceFinish(r) ==
  /\ history[r].cancel = "asked"
  /\ history' = [history EXCEPT ![r].cancel = "forced",
                                ![r].status = IF @ = "running" THEN "cancelled" ELSE @]
  /\ claimed' = (claimed /\ history[r].status # "running")
  /\ UNCHANGED <<folder, fixed, checkpoint, runs, loadedKeys, ex,
                 excused, loose, rows, admin, faults>>

(* reset_last_processed_ts: any stamp, or NULL.                             *)
ResetTs(t) ==
  /\ Act
  /\ checkpoint' = t
  /\ excused' = excused \cup {f \in File : Ts[f] <= t}
  /\ ex' = [e \in Executor |-> [ex[e] EXCEPT !.fresh = FALSE]]
  /\ UNCHANGED <<folder, fixed, claimed, runs, history, loadedKeys, undo,
                 loose, rows, faults>>

(* delete_skipped_files, for the files that the history lists.              *)
DeleteRemote(f) ==
  /\ Act /\ f \in folder \cap Excluded
  /\ folder' = folder \ {f}
  /\ UNCHANGED <<fixed, checkpoint, claimed, runs, history, loadedKeys, ex, undo,
                 excused, loose, rows, faults>>

(* rollback_file_from_target: the keys are read, their rows deleted, and    *)
(* then the keys, in three transactions.                                    *)
RollbackRead(r, f) ==
  LET keys == {k \in Key : <<r, f, k>> \in loadedKeys}
  IN /\ undo.at = "none" /\ Act /\ keys # {}
     /\ undo' = [at |-> "rows", run |-> r, file |-> f, keys |-> keys]
     /\ UNCHANGED <<folder, fixed, checkpoint, claimed, runs, history, loadedKeys, ex,
                    excused, loose, rows, faults>>

RollbackRows ==
  /\ undo.at = "rows"
  /\ target' = [k \in Key |-> IF k \in undo.keys THEN NoRow ELSE target[k]]
  /\ undo' = [undo EXCEPT !.at = "keys"]
  /\ unkeyed' = unkeyed \cup
       (IF \E e \in Executor : At(e, "write") /\ ex[e].run = undo.run /\ ex[e].file = undo.file
        THEN {<<undo.run, undo.file>>} ELSE {})
  /\ UNCHANGED <<folder, fixed, checkpoint, claimed, runs, history, loadedKeys, ex, acts,
                 commits, excused, loose, faults>>

RollbackKeys ==
  /\ undo.at = "keys"
  /\ loadedKeys' = {x \in loadedKeys : x[1] # undo.run \/ x[2] # undo.file}
  /\ undo' = NoUndo
  /\ UNCHANGED <<folder, fixed, checkpoint, claimed, runs, history, ex, acts,
                 excused, loose, rows, faults>>

-----------------------------------------------------------------------------
Execute(e) ==
  \/ Look(e) \/ Quit(e) \/ Claim(e) \/ CreateRun(e)
  \/ Settle(e) \/ Write(e) \/ WriteUnrecorded(e) \/ Commit(e) \/ LoadFails(e)
  \/ Advance(e) \/ Progress(e) \/ Conclude(e) \/ Finish(e) \/ Status(e)
  \/ Raise(e) \/ Recover(e) \/ GiveBack(e)

Administer ==
  \/ \E r \in Run : RequestCancel(r) \/ ForceFinish(r)
  \/ \E t \in 0..Cardinality(File) : ResetTs(t)
  \/ \E f \in File : DeleteRemote(f)
  \/ \E r \in Run, f \in File : RollbackRead(r, f)
  \/ RollbackRows \/ RollbackKeys

Next ==
  \/ \E f \in File : Arrive(f)
  \/ \E e \in Executor : Execute(e)
  \/ Administer
  \/ Crash

Spec == Init /\ [][Next]_vars

-----------------------------------------------------------------------------
(* Properties.                                                              *)

(* A file behind the checkpoint is never listed again (get_pending_files),  *)
(* so it was loaded, or an equal one was, or had no row, or the history     *)
(* names it, or an executor is about to; the exceptions are those in `excused`.  *)
Accounted(f) ==
  \/ commits[content[f]] > 0 \/ kind[content[f]] = "empty" \/ f \in Files(Listed)
  \/ \E e \in Executor : f \in Files(ex[e].results) \/ f \in ToCome(e)
PassedIsAccounted ==
  \A f \in folder : Ts[f] <= checkpoint => Accounted(f) \/ f \in excused

(* A content is committed once, for the history keeps its checksum; a table *)
(* without a key would hold its rows twice.                                 *)
LoadedOnce == \A c \in Content : commits[c] <= 1 \/ c \in loose

(* Whatever a file wrote, rollback_file_from_target can find: a row in the  *)
(* target has its key in batch_loaded_keys under the run and file that      *)
(* wrote it last.                                                           *)
RowsCanBeRolledBack ==
  \A k \in Key : target[k] # NoRow =>
    <<target[k][1], target[k][2], k>> \in loadedKeys \/ target[k] \in unkeyed

(* What the history says of a run is so: a success has no failed file, and  *)
(* a file that is noted as loaded was committed.                            *)
HistoryIsTrue ==
  \A r \in Run :
    /\ history[r].status = "success" => With(history[r].list, "error") = {}
    /\ history[r].status = "skipped" => With(history[r].list, "ok") = {}
    /\ \A f \in Files(With(history[r].list, "ok")) :
         kind[content[f]] = "data" => commits[content[f]] > 0

(* An executor whose listing is not stale never moves the checkpoint back.  *)
CheckpointAdvances ==
  [][\A e \in Executor :
       At(e, "advance") /\ ex[e].fresh /\ ex'[e].pc \in {"progress", "finish"}
         => checkpoint' >= checkpoint]_vars

=============================================================================
