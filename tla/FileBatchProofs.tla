--------------------------- MODULE FileBatchProofs ---------------------------
(***************************************************************************)
(* Proofs about the folder batch, for any number of executors, files, runs *)
(* and requests: what is accounted for, loaded once, and can be rolled     *)
(* back, and that the history tells the truth.                             *)
(***************************************************************************)
EXTENDS FileBatch, TLAPS, FiniteSetTheorems

(* What the program counter of run_batch_job says about its variables.      *)
Before == {"idle", "quit", "claim", "create"}
Working == {"next", "write", "advance", "progress", "finish", "status", "recover"}
Control(w) ==
  /\ w.pc \in Before => w.run = NoRun /\ w.results = {} /\ w.file = NoFile /\ ~w.inner
  /\ w.pc \in {"idle", "quit"} => w.pending = {}
  /\ w.pc \in Working => w.run \in 1..runs
  /\ w.pc \in {"write", "advance", "progress"} => w.file \in File
  /\ w.pc = "giveback" => w.results = {} /\ ~w.inner /\ w.run \in 0..runs
                          /\ (w.run # NoRun => w.pending = {})
  /\ w.pc = "recover" => ~w.inner
  /\ w.inner => w.file \in File
  /\ w.ends => stops
  /\ w.inner /\ w.pc \in {"finish", "status"} => stops

(* A run belongs to one execution, and those about to create one have room. *)
OwnRuns == \A e, o \in Executor : ex[e].run = ex[o].run /\ ex[e].run # NoRun => e = o
Awaited == {o \in Executor : ex[o].pc \in {"claim", "create"}}
Room == runs + Cardinality(Awaited) <= MaxRuns

TypeInv == TypeOK /\ (\A e \in Executor : Control(ex[e])) /\ OwnRuns /\ Room

-----------------------------------------------------------------------------
LEMMA Bounds ==
  /\ MaxRuns \in Nat /\ MaxFaults \in Nat /\ MaxActs \in Nat
  /\ IsFiniteSet(Executor) /\ IsFiniteSet(File) /\ NoFile \notin File
  /\ Ts \in [File -> Nat \ {0}] /\ Holding \in [File -> SUBSET Content]
  /\ KindsOf \in [Content -> SUBSET Kind] /\ KeysIn \in [Content -> SUBSET Key]
  /\ Cardinality(File) \in Nat
BY FileBatchAssumption, FS_CardinalityType

LEMMA IdleType == Idle \in Work /\ Idle.pc = "idle" /\ Idle.run = NoRun
                  /\ Idle.results = {} /\ Idle.file = NoFile /\ Idle.inner = FALSE
                  /\ Idle.ends = FALSE /\ Idle.pending = {}
BY DEF Idle, Work, Pc, Result, Verdict

(* The initial states have the types.                                       *)
LEMMA InitTypes == Init => TypeInv
<1> SUFFICES ASSUME Init PROVE TypeInv
  OBVIOUS
<1> USE Bounds, IdleType
<1>1. folder \subseteq File /\ checkpoint \in Nat /\ claimed \in BOOLEAN /\ stops \in BOOLEAN
  BY FileBatchAssumption DEF Init
<1>2. content \in [File -> Content] /\ kind \in [Content -> Kind]
  BY DEF Init
<1>3. runs \in 0..MaxRuns /\ faults \in 0..MaxFaults /\ acts \in 0..MaxActs
  BY DEF Init
<1>4. history \in [Run -> RunRow]
  BY DEF Init, RunRow
<1>5. /\ target \in [Key -> (Run \X File) \cup {NoRow}] /\ loadedKeys \subseteq Run \X File \X Key
      /\ commits \in [Content -> Nat] /\ excused \subseteq File /\ loose \subseteq Content
      /\ unkeyed \subseteq Run \X File
  BY DEF Init
<1>6. undo \in [at : {"none", "rows", "keys"}, run : Run \cup {NoRun},
               file : File \cup {NoFile}, keys : SUBSET Key]
  BY DEF Init, NoUndo
<1>7. ex \in [Executor -> Work] /\ \A e \in Executor : ex[e] = Idle
  BY DEF Init
<1>8. (\A e \in Executor : Control(ex[e])) /\ OwnRuns
  BY <1>7 DEF Control, OwnRuns, Working
<1>9. Room
  <2>1. Awaited = {}
    BY <1>7 DEF Awaited
  <2> QED BY <2>1, FS_EmptySet DEF Room, Init
<1> QED BY <1>1, <1>2, <1>3, <1>4, <1>5, <1>6, <1>7, <1>8, <1>9 DEF TypeInv, TypeOK

-----------------------------------------------------------------------------
(* One execution goes from one record to another; the others keep theirs.   *)
LEMMA Moved ==
  ASSUME TypeInv, NEW e \in Executor, ex' \in [Executor -> Work],
         \A o \in Executor \ {e} : ex'[o] = ex[o],
         runs' \in Nat, runs' >= runs, stops' = stops, Control(ex[e])',
         ex'[e].run \in {NoRun, ex[e].run} \/ (ex'[e].run = runs' /\ runs' > runs)
  PROVE  (\A o \in Executor : Control(ex[o]))' /\ OwnRuns'
<1>1. /\ ex \in [Executor -> Work] /\ (\A o \in Executor : Control(ex[o])) /\ OwnRuns
      /\ runs \in Nat
  BY Bounds DEF TypeInv, TypeOK
<1>2. \A o \in Executor : Control(ex[o])'
  <2> SUFFICES ASSUME NEW o \in Executor, o # e PROVE Control(ex[o])'
    OBVIOUS
  <2>1. Control(ex[o]) /\ ex'[o] = ex[o]
    BY <1>1
  <2> QED BY <2>1, <1>1 DEF Control, NoRun
<1>3. OwnRuns'
  <2>1. \A o \in Executor : ex[o].run \in 0..runs
    BY <1>1 DEF Control, NoRun, Before, Working, Work, Pc
  <2> QED BY <1>1, <2>1 DEF OwnRuns, NoRun
<1> QED BY <1>2, <1>3

LEMMA RoomKept ==
  ASSUME TypeInv, runs' = runs, Awaited' \subseteq Awaited
  PROVE  Room'
<1>1. IsFiniteSet(Awaited)
  BY Bounds, FS_Subset DEF Awaited
<1>2. Cardinality(Awaited') <= Cardinality(Awaited) /\ Cardinality(Awaited') \in Nat
      /\ Cardinality(Awaited) \in Nat
  BY <1>1, FS_Subset, FS_CardinalityType
<1> QED BY <1>2, Bounds DEF Room, TypeInv, TypeOK

(* A step of one execution that is not a listing leaves no less room.       *)
LEMMA RoomAfter ==
  ASSUME TypeInv, NEW e \in Executor, \A o \in Executor \ {e} : ex'[o] = ex[o], runs' = runs,
         ex'[e].pc \notin {"claim", "create"} \/ ex[e].pc \in {"claim", "create"}
  PROVE  Room'
<1>1. Awaited' \subseteq Awaited
  BY DEF Awaited
<1> QED BY <1>1, RoomKept

-----------------------------------------------------------------------------
(* The steps up to the first file.                                          *)
Executing(e) ==
  /\ ex' \in [Executor -> Work]
  /\ \A o \in Executor \ {e} : ex'[o] = ex[o]
  /\ (\A o \in Executor : Control(ex[o]))' /\ OwnRuns' /\ Room'

LEMMA LookTypes == ASSUME TypeInv, NEW e \in Executor, Look(e) PROVE Executing(e)
<1> USE Bounds, IdleType
<1> DEFINE w == [Idle EXCEPT !.pc = IF Pending = {} THEN "quit" ELSE "claim",
                             !.pending = Pending, !.fresh = Others(e) = {}]
<1>1. w \in Work /\ w.pc = (IF Pending = {} THEN "quit" ELSE "claim") /\ w.pending = Pending
      /\ w.run = NoRun /\ w.results = {} /\ w.file = NoFile /\ w.inner = FALSE /\ w.ends = FALSE
  <2>1. Pending \subseteq File /\ Others(e) \subseteq Executor
    BY DEF TypeInv, TypeOK, Pending, Others
  <2>2. (Others(e) = {}) \in BOOLEAN
    OBVIOUS
  <2> QED BY <2>1, <2>2 DEF Idle, Work, Pc, Verdict, Result
<1>2. Set(e, w) /\ runs' = runs /\ stops' = stops /\ runs \in Nat /\ ex[e].pc = "idle"
  BY DEF Look, TypeInv, TypeOK, fixed, At
<1> HIDE DEF w
<1>3. /\ ex' \in [Executor -> Work] /\ ex'[e] = w
      /\ (\A o \in Executor \ {e} : ex'[o] = ex[o]) /\ Control(ex[e])'
  <2>1. ex' \in [Executor -> Work] /\ ex'[e] = w /\ \A o \in Executor \ {e} : ex'[o] = ex[o]
    BY <1>1, <1>2 DEF Set, TypeInv, TypeOK
  <2> QED BY <1>1, <2>1 DEF Control, Before, Working
<1>4. (\A o \in Executor : Control(ex[o]))' /\ OwnRuns'
  BY <1>1, <1>2, <1>3, Moved
<1>5. Room'
  <2>1. Awaited' \subseteq Awaited \cup {e} /\ IsFiniteSet(Awaited) /\ e \notin Awaited
    BY <1>1, <1>2, <1>3, FS_Subset DEF Awaited
  <2>2. IsFiniteSet(Awaited \cup {e}) /\ Cardinality(Awaited \cup {e}) = Cardinality(Awaited) + 1
        /\ Cardinality(Awaited) \in Nat
    BY <2>1, FS_AddElement, FS_CardinalityType
  <2>3. Cardinality(Awaited') <= Cardinality(Awaited) + 1 /\ Cardinality(Awaited') \in Nat
    BY <2>1, <2>2, FS_Subset, FS_CardinalityType
  <2>4. runs + Cardinality(Awaited) < MaxRuns
    BY DEF Look, Awaited
  <2> QED BY <1>2, <2>2, <2>3, <2>4 DEF Room
<1> QED BY <1>3, <1>4, <1>5 DEF Executing

(* An execution without a run ends.                                         *)
LEMMA IdleTypes ==
  ASSUME TypeInv, NEW e \in Executor, Set(e, Idle), runs' = runs, stops' = stops
  PROVE  Executing(e)
<1>1. ex' \in [Executor -> Work] /\ ex'[e] = Idle /\ \A o \in Executor \ {e} : ex'[o] = ex[o]
  BY IdleType DEF Set, TypeInv, TypeOK
<1>2. Control(ex[e])' /\ runs \in Nat
  BY <1>1, IdleType DEF Control, Before, Working, TypeInv, TypeOK
<1>3. Room'
  BY <1>1, IdleType, RoomAfter
<1> QED BY <1>1, <1>2, <1>3, IdleType, Moved DEF Executing

LEMMA ClaimTypes ==
  ASSUME TypeInv, NEW e \in Executor, Claim(e)
  PROVE  /\ ex' \in [Executor -> Work]
         /\ (\A o \in Executor : Control(ex[o]))' /\ OwnRuns' /\ Room'
<1>1. runs' = runs /\ stops' = stops
  BY DEF Claim, fixed
<1>2. CASE Set(e, Idle)
  BY <1>1, <1>2, IdleTypes DEF Executing
<1>3. CASE ex' = [o \in Executor |->
                    IF o = e THEN [ex[e] EXCEPT !.pc = "create", !.fresh = @ /\ Others(e) = {}]
                    ELSE [ex[o] EXCEPT !.fresh = FALSE]]
  <2>1. ex \in [Executor -> Work] /\ ex[e].pc = "claim"
    BY DEF TypeInv, TypeOK, Claim, At
  <2>2. (Others(e) = {}) \in BOOLEAN /\ ex[e].fresh \in BOOLEAN
    BY <2>1 DEF Work
  <2>3. [ex[e] EXCEPT !.pc = "create", !.fresh = @ /\ Others(e) = {}] \in Work
    BY <2>1, <2>2, ZenonT(40) DEF Work, Pc
  <2>4. \A o \in Executor : [ex[o] EXCEPT !.fresh = FALSE] \in Work
    BY <2>1 DEF Work
  <2>5. ex' \in [Executor -> Work]
    BY <1>3, <2>3, <2>4
  <2>6. \A o \in Executor :
          /\ ex'[o].pc = IF o = e THEN "create" ELSE ex[o].pc
          /\ ex'[o].run = ex[o].run /\ ex'[o].results = ex[o].results /\ ex'[o].file = ex[o].file
          /\ ex'[o].inner = ex[o].inner /\ ex'[o].ends = ex[o].ends /\ ex'[o].pending = ex[o].pending
    BY <1>3, <2>1, ZenonT(40) DEF Work
  <2>7. \A o \in Executor : Control(ex[o])'
    BY <1>1, <2>1, <2>6 DEF TypeInv, Control, Before, Working
  <2>8. OwnRuns'
    BY <2>6 DEF OwnRuns, TypeInv
  <2>9. Awaited' \subseteq Awaited
    BY <2>1, <2>6 DEF Awaited
  <2> QED BY <1>1, <2>5, <2>7, <2>8, <2>9, RoomKept
<1> QED BY <1>2, <1>3 DEF Claim

LEMMA CreateTypes == ASSUME TypeInv, NEW e \in Executor, CreateRun(e) PROVE Executing(e) /\ runs' \in 0..MaxRuns
<1> USE Bounds
<1> DEFINE w == [ex[e] EXCEPT !.pc = "next", !.run = runs + 1]
<1>1. ex \in [Executor -> Work] /\ ex[e].pc = "create" /\ Control(ex[e]) /\ runs \in Nat
  BY DEF TypeInv, TypeOK, CreateRun, At
<1>2. /\ runs' = runs + 1 /\ stops' = stops /\ Set(e, w)
  BY DEF CreateRun, fixed
<1>3. IsFiniteSet(Awaited) /\ e \in Awaited
  BY <1>1, FS_Subset DEF Awaited
<1>4. Cardinality(Awaited \ {e}) = Cardinality(Awaited) - 1 /\ Cardinality(Awaited) \in Nat
      /\ Cardinality(Awaited \ {e}) \in Nat /\ IsFiniteSet(Awaited \ {e})
  BY <1>3, FS_RemoveElement, FS_CardinalityType
<1>5. runs' \in 0..MaxRuns /\ runs' \in Run
  BY <1>1, <1>2, <1>4 DEF TypeInv, Room, Run
<1>6. w \in Work /\ w.pc = "next" /\ w.run = runs' /\ w.inner = ex[e].inner
      /\ w.file = ex[e].file /\ w.ends = ex[e].ends
  <2>1. ex[e] \in Work /\ runs + 1 \in Run /\ runs' = runs + 1
    BY <1>1, <1>2, <1>5
  <2>2. w \in Work
    BY <2>1 DEF Work, Pc
  <2> QED BY <2>1, <2>2 DEF Work
<1> HIDE DEF w
<1>7. /\ ex' \in [Executor -> Work] /\ ex'[e] = w
      /\ (\A o \in Executor \ {e} : ex'[o] = ex[o]) /\ Control(ex[e])'
  <2>1. ex' \in [Executor -> Work] /\ ex'[e] = w /\ \A o \in Executor \ {e} : ex'[o] = ex[o]
    BY <1>1, <1>2, <1>6 DEF Set
  <2> QED BY <1>1, <1>2, <1>6, <2>1 DEF Control, Before, Working
<1>8. (\A o \in Executor : Control(ex[o]))' /\ OwnRuns'
  BY <1>1, <1>2, <1>6, <1>7, Moved
<1>9. Awaited' \subseteq Awaited \ {e}
  BY <1>6, <1>7 DEF Awaited
<1>10. Cardinality(Awaited') <= Cardinality(Awaited) - 1 /\ Cardinality(Awaited') \in Nat
  BY <1>4, <1>9, FS_Subset, FS_CardinalityType
<1>11. Room'
  BY <1>1, <1>2, <1>4, <1>10 DEF TypeInv, Room
<1> QED BY <1>5, <1>7, <1>8, <1>11 DEF Executing

-----------------------------------------------------------------------------
(* The steps of a run.  None creates a run, and none waits for one.         *)
LEMMA WorkTypes ==
  ASSUME TypeInv, NEW e \in Executor, ex' \in [Executor -> Work],
         \A o \in Executor \ {e} : ex'[o] = ex[o], runs' = runs, stops' = stops,
         Control(ex[e])', ex'[e].run \in {NoRun, ex[e].run},
         ex'[e].pc \notin {"claim", "create"}
  PROVE  Executing(e)
<1>1. runs \in Nat
  BY DEF TypeInv, TypeOK
<1> QED BY <1>1, Moved, RoomAfter DEF Executing

LEMMA AppendTypes ==
  ASSUME TypeInv, NEW e \in Executor, NEW f \in File, NEW res \in Result, NEW inner \in BOOLEAN,
         Append(e, f, res, inner), ex[e].run \in 1..runs, runs' = runs, stops' = stops
  PROVE  /\ Executing(e)
         /\ ex'[e] = [ex[e] EXCEPT !.pc = "advance", !.file = f, !.res = res,
                       !.pending = @ \ {f}, !.results = @ \cup {<<f, res>>},
                       !.inner = inner, !.ends = res = "error" /\ stops]
<1>1. ex \in [Executor -> Work] /\ stops \in BOOLEAN
  BY DEF TypeInv, TypeOK
<1>2. /\ ex[e] \in Work /\ <<f, res>> \in Entry
      /\ ex[e].results \cup {<<f, res>>} \subseteq Entry /\ ex[e].pending \ {f} \subseteq File
  BY <1>1 DEF Entry, Work
<1> DEFINE b == res = "error" /\ stops
           w == [ex[e] EXCEPT !.pc = "advance", !.file = f, !.res = res,
                       !.pending = @ \ {f}, !.results = @ \cup {<<f, res>>},
                       !.inner = inner, !.ends = b]
<1>3. w \in Work /\ w.pc = "advance" /\ w.file = f /\ w.run = ex[e].run /\ w.ends = b
  <2>1. b \in BOOLEAN /\ (b => stops)
    BY <1>1
  <2> HIDE DEF b
  <2> QED BY <1>2, <2>1 DEF Work, Pc
<1>4. ex' = [ex EXCEPT ![e] = w] /\ (b => stops)
  BY DEF Append, Set
<1> HIDE DEF b
<1> HIDE DEF w
<1>5. ex' \in [Executor -> Work] /\ ex'[e] = w /\ \A o \in Executor \ {e} : ex'[o] = ex[o]
  BY <1>1, <1>3, <1>4
<1>6. Control(ex[e])'
  BY <1>3, <1>4, <1>5 DEF Control, Before, Working
<1>7. Executing(e)
  BY <1>3, <1>5, <1>6, WorkTypes
<1> QED BY <1>5, <1>7 DEF w, b

LEMMA FileTypes ==
  ASSUME TypeInv, NEW e \in Executor,
         Settle(e) \/ Write(e) \/ WriteUnrecorded(e) \/ Commit(e) \/ LoadFails(e)
  PROVE  Executing(e)
<1>1. /\ ex \in [Executor -> Work] /\ Control(ex[e]) /\ runs' = runs /\ stops' = stops
  BY DEF TypeInv, TypeOK, Settle, Write, WriteUnrecorded, Commit, LoadFails, fixed
<1>2. CASE Settle(e)
  <2>1. PICK f \in Oldest(ex[e].pending) : Append(e, f, Outcome(f), Outcome(f) # "error")
    BY <1>2 DEF Settle
  <2>2. f \in File /\ Outcome(f) \in Result /\ (Outcome(f) # "error") \in BOOLEAN
    BY <1>1 DEF Oldest, Work, Outcome, Result
  <2>3. ex[e].run \in 1..runs
    BY <1>1, <1>2 DEF Settle, MayGoOn, At, Control, Working
  <2> QED BY <1>1, <2>1, <2>2, <2>3, AppendTypes
<1>3. CASE Write(e) \/ WriteUnrecorded(e)
  <2>1. PICK f \in Oldest(ex[e].pending) :
          Set(e, [ex[e] EXCEPT !.pc = "write", !.file = f, !.pending = @ \ {f}])
    BY <1>3 DEF Write, WriteUnrecorded
  <2>2. f \in File /\ ex[e].run \in 1..runs
    BY <1>1, <1>3 DEF Oldest, Work, Write, WriteUnrecorded, MayGoOn, At, Control, Working
  <2> DEFINE w == [ex[e] EXCEPT !.pc = "write", !.file = f, !.pending = @ \ {f}]
  <2>3. w \in Work /\ w.pc = "write" /\ w.file = f /\ w.run = ex[e].run /\ w.inner = ex[e].inner
        /\ w.ends = ex[e].ends
    BY <1>1, <2>2, ZenonT(40) DEF Work, Pc
  <2>4. ex' = [ex EXCEPT ![e] = w]
    BY <2>1 DEF Set
  <2> HIDE DEF w
  <2>5. ex' \in [Executor -> Work] /\ ex'[e] = w /\ \A o \in Executor \ {e} : ex'[o] = ex[o]
    BY <1>1, <2>3, <2>4
  <2>6. Control(ex[e])'
    BY <1>1, <2>2, <2>3, <2>5 DEF Control, Before, Working
  <2> QED BY <1>1, <2>3, <2>5, <2>6, WorkTypes
<1>4. CASE Commit(e)
  <2>1. ex[e].file \in File /\ ex[e].run \in 1..runs /\ "ok" \in Result
    BY <1>1, <1>4 DEF Commit, At, Control, Working, Result
  <2> QED BY <1>1, <1>4, <2>1, AppendTypes DEF Commit
<1>5. CASE LoadFails(e)
  <2>1. ex[e].file \in File /\ ex[e].run \in 1..runs /\ "error" \in Result
    BY <1>1, <1>5 DEF LoadFails, At, Control, Working, Result
  <2>2. PICK inCommit \in BOOLEAN : Append(e, ex[e].file, "error", inCommit)
    BY <1>5 DEF LoadFails
  <2>3. inCommit \in BOOLEAN /\ e \in Executor /\ TypeInv
    OBVIOUS
  <2>4. CASE inCommit
    <3>1. Append(e, ex[e].file, "error", TRUE)
      BY <2>2, <2>4
    <3> QED BY <1>1, <2>1, <3>1, AppendTypes
  <2>5. CASE ~inCommit
    <3>1. Append(e, ex[e].file, "error", FALSE)
      BY <2>2, <2>5
    <3> QED BY <1>1, <2>1, <3>1, AppendTypes
  <2> QED BY <2>4, <2>5
<1> QED BY <1>2, <1>3, <1>4, <1>5

LEMMA RunTypes ==
  ASSUME TypeInv, NEW e \in Executor,
         Advance(e) \/ Progress(e) \/ Conclude(e) \/ Finish(e)
  PROVE  Executing(e)
<1>1. /\ ex \in [Executor -> Work] /\ Control(ex[e]) /\ runs' = runs /\ stops' = stops
      /\ runs \in Nat /\ ex[e].run \in 1..runs
  BY DEF TypeInv, TypeOK, Advance, Progress, Conclude, Finish, fixed, Control, At, Working
<1>2. CASE Advance(e)
  <2> DEFINE b == ex[e].inner /\ ~Loaded(e)
             p == IF ex[e].ends THEN "finish" ELSE "progress"
             w == [ex[e] EXCEPT !.pc = p, !.verdict = "error", !.inner = b]
  <2>1. b \in BOOLEAN /\ ex[e].file \in File /\ ex[e] \in Work /\ (b => ex[e].inner)
    BY <1>1, <1>2 DEF Control, Advance, At
  <2>0. ex' = [ex EXCEPT ![e] = w]
    BY <1>2 DEF Advance, Set
  <2> HIDE DEF b
  <2>2. w \in Work /\ w.pc = (IF ex[e].ends THEN "finish" ELSE "progress") /\ w.run = ex[e].run
        /\ (w.inner => ex[e].inner) /\ w.file = ex[e].file /\ w.ends = ex[e].ends
    BY <1>1, <2>1 DEF Work, Pc, Verdict
  <2> HIDE DEF w
  <2>4. ex' \in [Executor -> Work] /\ ex'[e] = w /\ \A o \in Executor \ {e} : ex'[o] = ex[o]
    BY <1>1, <2>2, <2>0
  <2>5. Control(ex[e])'
    BY <1>1, <2>1, <2>2, <2>4 DEF Control, Before, Working
  <2> QED BY <1>1, <2>2, <2>4, <2>5, WorkTypes
<1>3. CASE Progress(e)
  <2> DEFINE w == [ex[e] EXCEPT !.pc = "next"]
  <2>1. w \in Work /\ w.pc = "next" /\ w.run = ex[e].run /\ w.inner = ex[e].inner
        /\ w.file = ex[e].file /\ w.ends = ex[e].ends
    BY <1>1 DEF Work, Pc
  <2>2. ex' = [ex EXCEPT ![e] = w]
    BY <1>3 DEF Progress, Goto, Set
  <2> HIDE DEF w
  <2>3. ex' \in [Executor -> Work] /\ ex'[e] = w /\ \A o \in Executor \ {e} : ex'[o] = ex[o]
    BY <1>1, <2>1, <2>2
  <2>4. Control(ex[e])'
    BY <1>1, <2>1, <2>3 DEF Control, Before, Working
  <2> QED BY <1>1, <2>1, <2>3, <2>4, WorkTypes
<1>4. CASE Conclude(e)
  <2>1. PICK v \in Verdict : ex' = [ex EXCEPT ![e] =
                               [ex[e] EXCEPT !.pc = "finish", !.verdict = v, !.inner = FALSE]]
    <3>1. RunVerdict(ex[e].results) \in Verdict /\ "cancelled" \in Verdict
      BY DEF RunVerdict, Verdict
    <3> QED BY <1>4, <3>1 DEF Conclude, Set
  <2> DEFINE w == [ex[e] EXCEPT !.pc = "finish", !.verdict = v, !.inner = FALSE]
  <2>2. w \in Work /\ w.pc = "finish" /\ w.run = ex[e].run /\ w.inner = FALSE /\ w.ends = ex[e].ends
    BY <1>1, ZenonT(40) DEF Work, Pc
  <2>3. ex' = [ex EXCEPT ![e] = w]
    BY <2>1
  <2> HIDE DEF w
  <2>4. ex' \in [Executor -> Work] /\ ex'[e] = w /\ \A o \in Executor \ {e} : ex'[o] = ex[o]
    BY <1>1, <2>2, <2>3
  <2>5. Control(ex[e])'
    BY <1>1, <2>2, <2>4 DEF Control, Before, Working
  <2> QED BY <1>1, <2>2, <2>4, <2>5, WorkTypes
<1>5. CASE Finish(e)
  <2> DEFINE w == [ex[e] EXCEPT !.pc = "status", !.completed = ex[e].verdict # "error"]
  <2>1. (ex[e].verdict # "error") \in BOOLEAN
    OBVIOUS
  <2>2. w \in Work /\ w.pc = "status" /\ w.run = ex[e].run /\ w.inner = ex[e].inner
        /\ w.file = ex[e].file /\ w.ends = ex[e].ends
    BY <1>1, <2>1, ZenonT(40) DEF Work, Pc
  <2>3. ex' = [ex EXCEPT ![e] = w]
    BY <1>5 DEF Finish, Set
  <2> HIDE DEF w
  <2>4. ex' \in [Executor -> Work] /\ ex'[e] = w /\ \A o \in Executor \ {e} : ex'[o] = ex[o]
    BY <1>1, <2>2, <2>3
  <2>5. Control(ex[e])'
    BY <1>1, <1>5, <2>2, <2>4 DEF Control, Before, Working, Finish, At
  <2> QED BY <1>1, <2>2, <2>4, <2>5, WorkTypes
<1> QED BY <1>2, <1>3, <1>4, <1>5

LEMMA EndTypes ==
  ASSUME TypeInv, NEW e \in Executor, Raise(e) \/ Recover(e)
  PROVE  Executing(e)
<1>1. /\ ex \in [Executor -> Work] /\ Control(ex[e]) /\ runs' = runs /\ stops' = stops
      /\ runs \in Nat /\ ex[e] \in Work
  <2>1. ex \in [Executor -> Work] /\ Control(ex[e]) /\ runs \in Nat
    BY DEF TypeInv, TypeOK
  <2>2. Raise(e) => runs' = runs /\ stops' = stops
    BY DEF Raise, fixed
  <2>3. Recover(e) => runs' = runs /\ stops' = stops
    BY DEF Recover, fixed
  <2> QED BY <2>1, <2>2, <2>3
<1>2. CASE Raise(e) /\ ex[e].inner
  <2>1. Append(e, ex[e].file, "error", FALSE)
    BY <1>2 DEF Raise
  <2>2. ex[e].file \in File /\ ex[e].run \in 1..runs /\ "error" \in Result
    BY <1>1, <1>2 DEF Raise, Control, Before, Working, Result
  <2> QED BY <1>1, <2>1, <2>2, AppendTypes
<1>3. CASE Raise(e) /\ ~ex[e].inner
  <2> DEFINE p == IF ex[e].run = NoRun THEN "giveback" ELSE "recover"
             w == [ex[e] EXCEPT !.pc = p]
  <2>1. ex' = [ex EXCEPT ![e] = w]
    BY <1>3 DEF Raise, Goto, Set
  <2>2. w \in Work /\ w.pc = p /\ w.run = ex[e].run /\ w.inner = ex[e].inner
        /\ w.results = ex[e].results /\ w.ends = ex[e].ends
    BY <1>1 DEF Work, Pc
  <2> HIDE DEF w
  <2>3. ex' \in [Executor -> Work] /\ ex'[e] = w /\ \A o \in Executor \ {e} : ex'[o] = ex[o]
    BY <1>1, <2>1, <2>2
  <2>4. IF ex[e].run = NoRun THEN ex[e].results = {} ELSE ex[e].run \in 1..runs
    BY <1>1, <1>3 DEF Raise, Control, Before, Working, NoRun
  <2>5. Control(ex[e])'
    BY <1>1, <1>3, <2>2, <2>3, <2>4 DEF Control, Before, Working, NoRun
  <2> QED BY <1>1, <2>2, <2>3, <2>5, WorkTypes
<1>4. CASE Recover(e)
  <2>1. CASE Set(e, Idle)
    BY <1>1, <2>1, IdleTypes
  <2>2. CASE Set(e, [ex[e] EXCEPT !.pc = "giveback", !.results = {}, !.pending = {}])
    <3> DEFINE w == [ex[e] EXCEPT !.pc = "giveback", !.results = {}, !.pending = {}]
    <3>1. ex' = [ex EXCEPT ![e] = w]
      BY <2>2 DEF Set
    <3>2. w \in Work /\ w.pc = "giveback" /\ w.run = ex[e].run /\ w.inner = ex[e].inner
          /\ w.results = {} /\ w.pending = {} /\ w.ends = ex[e].ends
      BY <1>1 DEF Work, Pc
    <3> HIDE DEF w
    <3>3. ex' \in [Executor -> Work] /\ ex'[e] = w /\ \A o \in Executor \ {e} : ex'[o] = ex[o]
      BY <1>1, <3>1, <3>2
    <3>4. Control(ex[e])'
      BY <1>1, <1>4, <3>2, <3>3 DEF Control, Before, Working, Recover, At
    <3> QED BY <1>1, <3>2, <3>3, <3>4, WorkTypes
  <2> QED BY <1>4, <2>1, <2>2 DEF Recover
<1> QED BY <1>2, <1>3, <1>4

-----------------------------------------------------------------------------
(* Whatever an executor does, it is alone in its record; a claim tells the  *)
(* others that their listings may be stale.                                 *)
LEMMA ExecuteTypes ==
  ASSUME TypeInv, NEW e \in Executor, Execute(e), ~Claim(e)
  PROVE  Executing(e)
<1>1. ASSUME Quit(e) \/ Status(e) \/ GiveBack(e) PROVE Executing(e)
  <2>1. Set(e, Idle) /\ runs' = runs /\ stops' = stops
    BY <1>1 DEF Quit, Status, GiveBack, fixed
  <2> QED BY <2>1, IdleTypes
<1> QED BY <1>1, LookTypes, CreateTypes, FileTypes, RunTypes, EndTypes DEF Execute

LEMMA ExTypes ==
  ASSUME TypeInv, [Next]_vars
  PROVE  /\ ex' \in [Executor -> Work]
         /\ (\A o \in Executor : Control(ex[o]))' /\ OwnRuns' /\ Room' /\ runs' \in 0..MaxRuns
<1> USE Bounds
<1>1. /\ ex \in [Executor -> Work] /\ (\A o \in Executor : Control(ex[o])) /\ OwnRuns
      /\ runs \in 0..MaxRuns
  BY DEF TypeInv, TypeOK
<1>2. CASE \E e \in Executor : Execute(e)
  <2>1. PICK e \in Executor : Execute(e)
    BY <1>2
  <2>2. runs' \in 0..MaxRuns
    <3>1. CASE CreateRun(e)
      BY <3>1, CreateTypes
    <3>2. CASE ~CreateRun(e)
      <4>1. runs' = runs
        BY <2>1, <3>2 DEF Execute, Look, Quit, Claim, Settle, Write, WriteUnrecorded, Commit,
           LoadFails, Advance, Progress, Conclude, Finish, Status, Raise, Recover, GiveBack
      <4> QED BY <1>1, <4>1, SMTT(30)
    <3> QED BY <3>1, <3>2
  <2> QED BY <2>1, <2>2, ClaimTypes, ExecuteTypes DEF Executing
<1>3. CASE Crash
  <2>1. runs' = runs /\ stops' = stops /\ ex' \in [Executor -> Work] /\ \A o \in Executor : ex'[o] = Idle
    BY <1>3, IdleType DEF Crash, fixed
  <2>2. \A o \in Executor : Control(ex[o])'
    BY <2>1, <1>1, IdleType DEF Control, Before, Working
  <2>3. OwnRuns'
    BY <2>1, IdleType DEF OwnRuns
  <2>4. Awaited' \subseteq Awaited
    BY <2>1, IdleType DEF Awaited
  <2>5. Room'
    BY <2>1, <2>4, RoomKept
  <2> QED BY <1>1, <2>1, <2>2, <2>3, <2>5
<1>4. CASE \E t \in 0..Cardinality(File) : ResetTs(t)
  <2>1. /\ runs' = runs /\ stops' = stops
        /\ ex' = [o \in Executor |-> [ex[o] EXCEPT !.fresh = FALSE]]
    BY <1>4 DEF ResetTs, fixed
  <2>2. ASSUME NEW o \in Executor PROVE [ex[o] EXCEPT !.fresh = FALSE] \in Work
    <3>1. ex[o] \in Work
      BY <1>1
    <3> QED BY <3>1 DEF Work
  <2>3. ex' \in [Executor -> Work]
    BY <2>1, <2>2
  <2>4. \A o \in Executor :
          /\ ex'[o].pc = ex[o].pc /\ ex'[o].run = ex[o].run /\ ex'[o].results = ex[o].results
          /\ ex'[o].file = ex[o].file /\ ex'[o].inner = ex[o].inner /\ ex'[o].ends = ex[o].ends
          /\ ex'[o].pending = ex[o].pending
    BY <2>1, <1>1 DEF Work
  <2>5. \A o \in Executor : Control(ex[o])'
    BY <1>1, <2>1, <2>4 DEF Control, Before, Working
  <2>6. OwnRuns'
    BY <1>1, <2>4 DEF OwnRuns
  <2>7. Awaited' \subseteq Awaited
    BY <2>4 DEF Awaited
  <2> QED BY <1>1, <2>1, <2>3, <2>5, <2>6, <2>7, RoomKept
<1>5. ASSUME runs' = runs, stops' = stops, ex' = ex
      PROVE  /\ ex' \in [Executor -> Work]
             /\ (\A o \in Executor : Control(ex[o]))' /\ OwnRuns' /\ Room' /\ runs' \in 0..MaxRuns
  <2>1. \A o \in Executor : Control(ex[o])'
    BY <1>1, <1>5 DEF Control
  <2> QED BY <1>1, <1>5, <2>1 DEF OwnRuns, Room, TypeInv, Awaited
<1>6. CASE UNCHANGED vars
  BY <1>5, <1>6 DEF vars
<1>7. CASE \E f \in File : Arrive(f)
  BY <1>5, <1>7 DEF Arrive, fixed
<1>8. CASE Administer /\ ~\E t \in 0..Cardinality(File) : ResetTs(t)
  BY <1>5, <1>8 DEF Administer, fixed, RequestCancel, ForceFinish, DeleteRemote, RollbackRead,
     RollbackRows, RollbackKeys
<1> QED BY <1>2, <1>3, <1>4, <1>6, <1>7, <1>8 DEF Next, Administer

-----------------------------------------------------------------------------
(* Who writes what.                                                         *)
LEMMA FixedStays == [Next]_vars => content' = content /\ kind' = kind /\ stops' = stops
BY ZenonT(40) DEF vars, fixed, Next, Execute, Administer, Arrive, Crash, Look, Quit, Claim, CreateRun,
   Settle, Write, WriteUnrecorded, Commit, LoadFails, Advance, Progress, Conclude, Finish,
   Status, Raise, Recover, GiveBack, RequestCancel, ForceFinish, ResetTs, DeleteRemote,
   RollbackRead, RollbackRows, RollbackKeys

LEMMA FolderWriters ==
  [Next]_vars => folder' = folder \/ (\E f \in File : Arrive(f)) \/ (\E f \in File : DeleteRemote(f))
BY ZenonT(40) DEF vars, Next, Execute, Administer, Crash, Look, Quit, Claim, CreateRun,
   Settle, Write, WriteUnrecorded, Commit, LoadFails, Advance, Progress, Conclude, Finish,
   Status, Raise, Recover, GiveBack, RequestCancel, ForceFinish, ResetTs,
   RollbackRead, RollbackRows, RollbackKeys

LEMMA CheckpointWriters ==
  [Next]_vars => \/ checkpoint' = checkpoint
                 \/ \E e \in Executor : Advance(e)
                 \/ \E t \in 0..Cardinality(File) : ResetTs(t)
BY ZenonT(40) DEF vars, Next, Execute, Administer, Arrive, Crash, Look, Quit, Claim, CreateRun,
   Settle, Write, WriteUnrecorded, Commit, LoadFails, Progress, Conclude, Finish,
   Status, Raise, Recover, GiveBack, RequestCancel, ForceFinish, DeleteRemote,
   RollbackRead, RollbackRows, RollbackKeys

LEMMA HistoryWriters ==
  [Next]_vars => \/ history' = history
                 \/ \E e \in Executor : CreateRun(e) \/ Progress(e) \/ Finish(e) \/ Recover(e)
                 \/ \E r \in Run : RequestCancel(r) \/ ForceFinish(r)
BY ZenonT(40) DEF vars, Next, Execute, Administer, Arrive, Crash, Look, Quit, Claim,
   Settle, Write, WriteUnrecorded, Commit, LoadFails, Advance, Conclude,
   Status, Raise, GiveBack, ResetTs, DeleteRemote, RollbackRead, RollbackRows, RollbackKeys

LEMMA RowWriters ==
  [Next]_vars => \/ target' = target /\ commits' = commits /\ unkeyed' = unkeyed
                 \/ \E e \in Executor : WriteUnrecorded(e) \/ Commit(e)
                 \/ RollbackRows
BY ZenonT(40) DEF vars, rows, Next, Execute, Administer, Arrive, Crash, Look, Quit, Claim, CreateRun,
   Settle, Write, LoadFails, Advance, Progress, Conclude, Finish,
   Status, Raise, Recover, GiveBack, RequestCancel, ForceFinish, ResetTs, DeleteRemote,
   RollbackRead, RollbackKeys

LEMMA KeyWriters ==
  [Next]_vars => \/ loadedKeys' = loadedKeys
                 \/ \E e \in Executor : Write(e)
                 \/ RollbackKeys
BY ZenonT(40) DEF vars, Next, Execute, Administer, Arrive, Crash, Look, Quit, Claim, CreateRun,
   Settle, WriteUnrecorded, Commit, LoadFails, Advance, Progress, Conclude, Finish,
   Status, Raise, Recover, GiveBack, RequestCancel, ForceFinish, ResetTs, DeleteRemote,
   RollbackRead, RollbackRows

LEMMA ExcusedWriters ==
  [Next]_vars => \/ excused' = excused
                 \/ \E f \in File : Arrive(f)
                 \/ \E e \in Executor : Finish(e) \/ Recover(e)
                 \/ \E t \in 0..Cardinality(File) : ResetTs(t)
                 \/ Crash
BY ZenonT(40) DEF vars, Next, Execute, Administer, Look, Quit, Claim, CreateRun,
   Settle, Write, WriteUnrecorded, Commit, LoadFails, Advance, Progress, Conclude,
   Status, Raise, GiveBack, RequestCancel, ForceFinish, DeleteRemote,
   RollbackRead, RollbackRows, RollbackKeys

LEMMA LooseWriters ==
  [Next]_vars => \/ loose' = loose
                 \/ \E e \in Executor : Write(e) \/ WriteUnrecorded(e) \/ Recover(e)
                 \/ Crash
BY ZenonT(40) DEF vars, Next, Execute, Administer, Arrive, Look, Quit, Claim, CreateRun,
   Settle, Commit, LoadFails, Advance, Progress, Conclude, Finish,
   Status, Raise, GiveBack, RequestCancel, ForceFinish, ResetTs, DeleteRemote,
   RollbackRead, RollbackRows, RollbackKeys

LEMMA UndoWriters ==
  [Next]_vars => \/ undo' = undo
                 \/ \E r \in Run, f \in File : RollbackRead(r, f)
                 \/ RollbackRows \/ RollbackKeys \/ Crash
BY ZenonT(40) DEF vars, admin, Next, Execute, Administer, Arrive, Look, Quit, Claim, CreateRun,
   Settle, Write, WriteUnrecorded, Commit, LoadFails, Advance, Progress, Conclude, Finish,
   Status, Raise, Recover, GiveBack, RequestCancel, ForceFinish, ResetTs, DeleteRemote

LEMMA CounterSteps ==
  [Next]_vars =>
    /\ faults' = faults \/ (faults < MaxFaults /\ faults' = faults + 1)
    /\ acts' = acts \/ (acts < MaxActs /\ acts' = acts + 1)
    /\ claimed' \in BOOLEAN \/ claimed' = claimed
<1> SUFFICES ASSUME [Next]_vars
             PROVE  /\ faults' = faults \/ (faults < MaxFaults /\ faults' = faults + 1)
                    /\ acts' = acts \/ (acts < MaxActs /\ acts' = acts + 1)
                    /\ claimed' \in BOOLEAN \/ claimed' = claimed
  OBVIOUS
<1>1. ASSUME NEW e \in Executor, Execute(e)
      PROVE  /\ faults' = faults \/ (faults < MaxFaults /\ faults' = faults + 1)
             /\ acts' = acts /\ (claimed' \in BOOLEAN \/ claimed' = claimed)
  BY <1>1 DEF admin, Execute, Look, Quit, Claim, CreateRun, Settle, Write, WriteUnrecorded,
     Commit, LoadFails, Advance, Progress, Conclude, Finish, Status, Raise, Recover, GiveBack
<1>2. ASSUME Administer
      PROVE  /\ faults' = faults
             /\ acts' = acts \/ (acts < MaxActs /\ acts' = acts + 1)
             /\ claimed' \in BOOLEAN \/ claimed' = claimed
  BY <1>2 DEF admin, Act, Administer, RequestCancel, ForceFinish, ResetTs, DeleteRemote,
     RollbackRead, RollbackRows, RollbackKeys
<1>3. ASSUME Crash \/ (\E f \in File : Arrive(f)) \/ UNCHANGED vars
      PROVE  /\ faults' = faults \/ (faults < MaxFaults /\ faults' = faults + 1)
             /\ acts' = acts /\ claimed' = claimed
  BY <1>3 DEF admin, vars, Crash, Arrive
<1> QED BY <1>1, <1>2, <1>3 DEF Next

-----------------------------------------------------------------------------
(* Entries of a file list name files; what is passed or forgotten are files *)
(* and contents.                                                            *)
LEMMA FilesAreFiles ==
  ASSUME NEW S, S \subseteq Entry, NEW res
  PROVE  Files(S) \subseteq File /\ Files(With(S, res)) \subseteq Files(S)
         /\ Files(S \ With(S, res)) \subseteq Files(S)
BY DEF Files, Entry, With

LEMMA EntryTypes ==
  ASSUME TypeOK, NEW e \in Executor
  PROVE  /\ ex[e].results \subseteq Entry /\ Unwritten(e) \subseteq Entry /\ ToCome(e) \subseteq File \cup {NoFile}
         /\ \A r \in Run : history[r].list \subseteq Entry
         /\ Listed \subseteq Entry
<1>1. ex[e] \in Work /\ history \in [Run -> RunRow]
  BY DEF TypeOK
<1>2. ex[e].results \subseteq Entry /\ ex[e].pending \subseteq File /\ ex[e].file \in File \cup {NoFile}
  BY <1>1 DEF Work
<1>3. \A r \in Run : history[r].list \subseteq Entry
  BY <1>1 DEF RunRow
<1> QED BY <1>2, <1>3 DEF Unwritten, ToCome, Listed

(* A file that is being written is a file.                                  *)
LEMMA ToComeFiles ==
  ASSUME TypeInv, NEW e \in Executor
  PROVE  ToCome(e) \subseteq File
BY DEF TypeInv, TypeOK, ToCome, At, Control, Work

LEMMA PassedFiles == ASSUME TypeInv, NEW S \in SUBSET Executor PROVE PassedBy(S) \subseteq File
BY ToComeFiles DEF PassedBy

LEMMA ForgottenTypes ==
  ASSUME TypeInv, NEW S \in SUBSET Executor, Forgotten(S)
  PROVE  excused' \subseteq File /\ loose' \subseteq Content
<1>1. \A e \in S : Files(Unwritten(e) \ With(Unwritten(e), "ok")) \subseteq File
                   /\ Files(With(Unwritten(e), "ok")) \subseteq File
  BY EntryTypes, FilesAreFiles DEF TypeInv
<1>2. PassedBy(S) \subseteq File /\ excused \subseteq File /\ loose \subseteq Content
      /\ content \in [File -> Content]
  BY PassedFiles DEF TypeInv, TypeOK
<1>3. ASSUME NEW c \in UNION {{content[f] : f \in Files(With(Unwritten(e), "ok"))} : e \in S}
      PROVE  c \in Content
  <2>1. PICK e \in S : c \in {content[f] : f \in Files(With(Unwritten(e), "ok"))}
    OBVIOUS
  <2>2. PICK f \in Files(With(Unwritten(e), "ok")) : c = content[f]
    BY <2>1
  <2> QED BY <1>1, <1>2, <2>2
<1>4. UNION {Files(Unwritten(e) \ With(Unwritten(e), "ok")) : e \in S} \subseteq File
  BY <1>1
<1>5. excused' \subseteq File
  <2> DEFINE X == UNION {Files(Unwritten(e) \ With(Unwritten(e), "ok")) : e \in S}
  <2>1. excused' = excused \cup PassedBy(S) \cup X
    BY DEF Forgotten
  <2> HIDE DEF X
  <2> QED BY <1>2, <1>4, <2>1 DEF X
<1>6. loose' \subseteq Content
  <2> DEFINE X == UNION {{content[f] : f \in Files(With(Unwritten(e), "ok"))} : e \in S}
  <2>1. loose' = loose \cup X
    BY DEF Forgotten
  <2>2. \A c \in X : c \in Content
    BY <1>3
  <2> HIDE DEF X
  <2> QED BY <1>2, <2>1, <2>2
<1> QED BY <1>5, <1>6

LEMMA HistoryTypes == ASSUME TypeInv, [Next]_vars PROVE history' \in [Run -> RunRow]
<1> USE Bounds
<1>1. history \in [Run -> RunRow] /\ ex \in [Executor -> Work]
  BY DEF TypeInv, TypeOK
<1>2. ASSUME NEW r \in Run, NEW row \in RunRow, history' = [history EXCEPT ![r] = row]
      PROVE  history' \in [Run -> RunRow]
  BY <1>1, <1>2
<1>3. ASSUME NEW e \in Executor, CreateRun(e) PROVE history' \in [Run -> RunRow]
  <2>1. runs' \in Run
    <3>1. runs' \in 0..MaxRuns /\ runs' = runs + 1 /\ runs \in 0..MaxRuns
      BY <1>3, CreateTypes DEF CreateRun, TypeInv, TypeOK
    <3> QED BY <3>1 DEF Run
  <2>2. [history[runs'] EXCEPT !.status = "running"] \in RunRow
    <3>1. history[runs'] \in RunRow
      BY <1>1, <2>1
    <3> QED BY <3>1 DEF RunRow
  <2> QED BY <1>1, <1>3, <2>1, <2>2 DEF CreateRun
<1>4. ASSUME NEW e \in Executor, Progress(e) \/ Finish(e) \/ Recover(e) PROVE history' \in [Run -> RunRow]
  <2>1. ex[e].run \in Run /\ ex[e].results \subseteq Entry /\ ex[e].verdict \in Verdict
    <3>1. ex[e].pc \in Working
      BY <1>4 DEF Progress, Finish, Recover, At, Working
    <3>2. ex[e] \in Work /\ Control(ex[e]) /\ runs \in 0..MaxRuns
      BY DEF TypeInv, TypeOK
    <3>3. ex[e].run \in 1..runs
      BY <3>1, <3>2 DEF Control
    <3>4. ex[e].run \in Run
      BY <3>2, <3>3, FileBatchAssumption DEF Run
    <3> QED BY <3>2, <3>4 DEF Work
  <2>2. history[ex[e].run] \in RunRow
    BY <1>1, <2>1
  <2>3. CASE Progress(e)
    <3> DEFINE l == IF history[ex[e].run].status = "running" THEN ex[e].results ELSE history[ex[e].run].list
    <3>1. history' = [history EXCEPT ![ex[e].run].list = l]
      BY <1>1, <2>1, <2>3 DEF Progress
    <3>2. l \subseteq Entry
      BY <2>1, <2>2 DEF RunRow
    <3> HIDE DEF l
    <3>3. [history[ex[e].run] EXCEPT !.list = l] \in RunRow
      BY <2>2, <3>2 DEF RunRow
    <3> QED BY <1>1, <2>1, <3>1, <3>3
  <2>4. CASE Finish(e)
    <3>1. history' = [history EXCEPT ![ex[e].run] = [history[ex[e].run] EXCEPT
                        !.status = ex[e].verdict, !.list = ex[e].results]]
      BY <1>1, <2>1, <2>2, <2>4 DEF Finish, RunRow
    <3>2. [history[ex[e].run] EXCEPT !.status = ex[e].verdict, !.list = ex[e].results] \in RunRow
      BY <2>1, <2>2 DEF RunRow
    <3> QED BY <1>1, <2>1, <3>1, <3>2
  <2>5. CASE Recover(e)
    <3>1. CASE history' = [history EXCEPT ![ex[e].run].status = "error", ![ex[e].run].list = {}]
      <4>1. [history[ex[e].run] EXCEPT !.status = "error", !.list = {}] \in RunRow
        BY <2>2 DEF RunRow, Verdict
      <4>2. history' = [history EXCEPT ![ex[e].run] = [history[ex[e].run] EXCEPT
                          !.status = "error", !.list = {}]]
        BY <1>1, <2>1, <2>2, <3>1 DEF RunRow
      <4> QED BY <1>1, <2>1, <4>1, <4>2
    <3> QED BY <1>1, <2>5, <3>1 DEF Recover
  <2> QED BY <1>4, <2>3, <2>4, <2>5
<1>5. ASSUME NEW r \in Run, RequestCancel(r) \/ ForceFinish(r) PROVE history' \in [Run -> RunRow]
  <2>1. history[r] \in RunRow
    BY <1>1
  <2>2. CASE RequestCancel(r)
    <3>1. [history[r] EXCEPT !.cancel = "asked"] \in RunRow
      BY <2>1 DEF RunRow
    <3> QED BY <1>1, <2>2, <3>1 DEF RequestCancel
  <2>3. CASE ForceFinish(r)
    <3> DEFINE st == IF history[r].status = "running" THEN "cancelled" ELSE history[r].status
    <3>1. [history[r] EXCEPT !.cancel = "forced", !.status = st] \in RunRow
      BY <2>1 DEF RunRow, Verdict
    <3>2. history' = [history EXCEPT ![r] = [history[r] EXCEPT !.cancel = "forced", !.status = st]]
      BY <1>1, <2>1, <2>3 DEF ForceFinish, RunRow
    <3> QED BY <1>1, <3>1, <3>2
  <2> QED BY <1>5, <2>2, <2>3
<1> QED BY <1>1, <1>3, <1>4, <1>5, HistoryWriters

LEMMA DataTypes ==
  ASSUME TypeInv, [Next]_vars
  PROVE  TypeOK'
<1> USE Bounds
<1>1. /\ folder \subseteq File /\ content \in [File -> Content] /\ kind \in [Content -> Kind]
      /\ stops \in BOOLEAN /\ checkpoint \in Nat /\ claimed \in BOOLEAN
      /\ target \in [Key -> (Run \X File) \cup {NoRow}] /\ loadedKeys \subseteq Run \X File \X Key
      /\ commits \in [Content -> Nat] /\ excused \subseteq File /\ loose \subseteq Content
      /\ unkeyed \subseteq Run \X File /\ ex \in [Executor -> Work]
      /\ faults \in 0..MaxFaults /\ acts \in 0..MaxActs
      /\ undo \in [at : {"none", "rows", "keys"}, run : Run \cup {NoRun},
                   file : File \cup {NoFile}, keys : SUBSET Key]
  BY DEF TypeInv, TypeOK
<1>2. content' \in [File -> Content] /\ kind' \in [Content -> Kind] /\ stops' \in BOOLEAN
  BY <1>1, FixedStays
<1>3. folder' \subseteq File
  BY <1>1, FolderWriters DEF Arrive, DeleteRemote
<1>4. checkpoint' \in Nat
  <2>1. ASSUME NEW e \in Executor, Advance(e) PROVE checkpoint' \in Nat
    <3>1. ex[e].file \in File
      BY <2>1 DEF TypeInv, Control, Advance, At
    <3> QED BY <2>1, <3>1 DEF Advance
  <2> QED BY <1>1, <2>1, CheckpointWriters DEF ResetTs
<1>5. claimed' \in BOOLEAN /\ faults' \in 0..MaxFaults /\ acts' \in 0..MaxActs
  BY <1>1, CounterSteps
<1>6. /\ target' \in [Key -> (Run \X File) \cup {NoRow}] /\ commits' \in [Content -> Nat]
      /\ unkeyed' \subseteq Run \X File
  <2>1. ASSUME NEW e \in Executor, WriteUnrecorded(e) \/ Commit(e)
        PROVE ex[e].run \in Run /\ (Commit(e) => ex[e].file \in File)
    <3>1. Control(ex[e]) /\ runs \in 0..MaxRuns
      BY DEF TypeInv, TypeOK
    <3>2. WriteUnrecorded(e) => ex[e].pc = "next"
      BY DEF WriteUnrecorded, MayGoOn, At
    <3>3. Commit(e) => ex[e].pc = "write"
      BY DEF Commit, At
    <3> QED BY <2>1, <3>1, <3>2, <3>3 DEF Control, Working, Run
  <2>2. ASSUME NEW e \in Executor, WriteUnrecorded(e)
        PROVE  target' = target /\ commits' = commits /\ unkeyed' \subseteq Run \X File
    <3>1. PICK f \in Oldest(ex[e].pending) : unkeyed' = unkeyed \cup {<<ex[e].run, f>>}
      BY <2>2 DEF WriteUnrecorded
    <3>2. f \in File /\ ex[e].run \in Run
      BY <1>1, <2>1, <2>2 DEF Oldest, Work
    <3> QED BY <1>1, <2>2, <3>1, <3>2 DEF WriteUnrecorded
  <2>3. ASSUME NEW e \in Executor, Commit(e)
        PROVE  /\ target' \in [Key -> (Run \X File) \cup {NoRow}] /\ commits' \in [Content -> Nat]
               /\ unkeyed' = unkeyed
    <3>1. ex[e].run \in Run /\ ex[e].file \in File
      BY <2>1, <2>3
    <3> QED BY <1>1, <2>3, <3>1 DEF Commit
  <2>4. ASSUME RollbackRows
        PROVE  /\ target' \in [Key -> (Run \X File) \cup {NoRow}] /\ commits' \in [Content -> Nat]
               /\ unkeyed' \subseteq Run \X File
    <3>1. /\ target' = [k \in Key |-> IF k \in undo.keys THEN NoRow ELSE target[k]] /\ commits' = commits
          /\ \/ unkeyed' = unkeyed
             \/ /\ unkeyed' = unkeyed \cup {<<undo.run, undo.file>>}
                /\ \E e \in Executor : At(e, "write") /\ ex[e].run = undo.run /\ ex[e].file = undo.file
      BY <2>4 DEF RollbackRows
    <3>2. (\E e \in Executor : At(e, "write") /\ ex[e].run = undo.run /\ ex[e].file = undo.file)
            => undo.run \in Run /\ undo.file \in File
      BY DEF TypeInv, Control, At, Working, TypeOK, Run
    <3> QED BY <1>1, <3>1, <3>2
  <2> QED BY <1>1, <2>2, <2>3, <2>4, RowWriters
<1>7. loadedKeys' \subseteq Run \X File \X Key
  <2>1. ASSUME NEW e \in Executor, Write(e) PROVE loadedKeys' \subseteq Run \X File \X Key
    <3>1. ex[e].run \in Run /\ ex[e] \in Work
      BY <1>1, <2>1 DEF TypeInv, Control, Write, MayGoOn, At, Working, TypeOK, Run
    <3>2. PICK f \in Oldest(ex[e].pending) :
            loadedKeys' = loadedKeys \cup {<<ex[e].run, f, k>> : k \in KeysIn[content[f]]}
      BY <2>1 DEF Write
    <3>3. f \in File /\ KeysIn[content[f]] \subseteq Key
      BY <1>1, <3>1 DEF Oldest, Work
    <3> QED BY <1>1, <3>1, <3>2, <3>3
  <2> QED BY <1>1, <2>1, KeyWriters DEF RollbackKeys
<1>8. excused' \subseteq File
  <2>1. ASSUME NEW e \in Executor, Finish(e) PROVE excused' \subseteq File
    BY <1>1, <2>1, PassedFiles DEF Finish
  <2>2. ASSUME NEW e \in Executor, Recover(e) PROVE excused' \subseteq File
    <3>1. ex[e].run \in Run
      BY <2>2 DEF TypeInv, Control, Recover, At, Working, TypeOK, Run
    <3>2. history[ex[e].run].list \cup ex[e].results \subseteq Entry
      BY <3>1, EntryTypes DEF TypeInv
    <3> DEFINE gone == history[ex[e].run].list \cup ex[e].results
    <3>3. Files(gone \ With(gone, "ok")) \subseteq File /\ PassedBy({e}) \subseteq File
      <4> HIDE DEF gone
      <4> QED BY <3>2, FilesAreFiles, PassedFiles DEF gone
    <3>4. \/ excused' = excused \cup Files(gone \ With(gone, "ok")) \cup PassedBy({e})
          \/ Forgotten({e})
      BY <2>2 DEF Recover
    <3> QED BY <1>1, <3>3, <3>4, ForgottenTypes
  <2>3. ASSUME Crash PROVE excused' \subseteq File
    BY <2>3, ForgottenTypes DEF Crash
  <2> QED BY <1>1, <2>1, <2>2, <2>3, ExcusedWriters DEF Arrive, ResetTs
<1>9. loose' \subseteq Content
  <2>1. ASSUME NEW e \in Executor, Write(e) \/ WriteUnrecorded(e) PROVE loose' \subseteq Content
    <3>1. PICK f \in Oldest(ex[e].pending) :
            loose' = loose \cup (IF AlsoLoading(e, f) THEN {content[f]} ELSE {})
      BY <2>1 DEF Write, WriteUnrecorded
    <3>2. f \in File
      BY <1>1 DEF Oldest, Work
    <3> QED BY <1>1, <3>1, <3>2
  <2>2. ASSUME NEW e \in Executor, Recover(e) PROVE loose' \subseteq Content
    <3>1. ex[e].run \in Run
      BY <2>2 DEF TypeInv, Control, Recover, At, Working, TypeOK, Run
    <3>2. history[ex[e].run].list \cup ex[e].results \subseteq Entry
      BY <3>1, EntryTypes DEF TypeInv
    <3> DEFINE gone == history[ex[e].run].list \cup ex[e].results
    <3>3. Files(With(gone, "ok")) \subseteq File
      <4> HIDE DEF gone
      <4> QED BY <3>2, FilesAreFiles DEF gone
    <3> DEFINE F == Files(With(gone, "ok"))
               cs == {content[f] : f \in F}
    <3>4. loose' = loose \cup cs \/ Forgotten({e})
      BY <2>2 DEF Recover
    <3>5. F \subseteq File
      BY <3>3
    <3> HIDE DEF F
    <3>6. cs \subseteq Content
      BY <1>1, <3>5
    <3> HIDE DEF cs
    <3> QED BY <1>1, <3>4, <3>6, ForgottenTypes
  <2>3. ASSUME Crash PROVE loose' \subseteq Content
    BY <2>3, ForgottenTypes DEF Crash
  <2> QED BY <1>1, <2>1, <2>2, <2>3, LooseWriters
<1>10. undo' \in [at : {"none", "rows", "keys"}, run : Run \cup {NoRun},
                  file : File \cup {NoFile}, keys : SUBSET Key]
  <2> DEFINE U == [at : {"none", "rows", "keys"}, run : Run \cup {NoRun},
                  file : File \cup {NoFile}, keys : SUBSET Key]
  <2>1. NoUndo \in U /\ undo \in U
    BY <1>1 DEF NoUndo
  <2>2. ASSUME NEW r \in Run, NEW f \in File, RollbackRead(r, f) PROVE undo' \in U
    <3>1. undo' = [at |-> "rows", run |-> r, file |-> f, keys |-> {k \in Key : <<r, f, k>> \in loadedKeys}]
      BY <2>2 DEF RollbackRead
    <3> QED BY <3>1
  <2>3. ASSUME RollbackRows PROVE undo' \in U
    <3>1. undo' = [undo EXCEPT !.at = "keys"]
      BY <2>3 DEF RollbackRows
    <3> QED BY <2>1, <3>1
  <2> HIDE DEF U
  <2>4. undo' \in U
    BY <2>1, <2>2, <2>3, UndoWriters DEF RollbackKeys, Crash
  <2> QED BY <2>4 DEF U
<1>11. history' \in [Run -> RunRow] /\ ex' \in [Executor -> Work] /\ runs' \in 0..MaxRuns
  BY HistoryTypes, ExTypes
<1> QED BY <1>2, <1>3, <1>4, <1>5, <1>6, <1>7, <1>8, <1>9, <1>10, <1>11 DEF TypeOK

LEMMA TypesKept == TypeInv /\ [Next]_vars => TypeInv'
BY DataTypes, ExTypes DEF TypeInv

(* The types of the folder batch hold in every state.                       *)
THEOREM TypeCorrect == Spec => []TypeOK
<1>1. TypeInv => TypeOK
  BY DEF TypeInv
<1> QED BY <1>1, InitTypes, TypesKept, PTL DEF Spec

-----------------------------------------------------------------------------
(* What each step does to the record of its executor, and to no other.      *)
Alone(e) == \A o \in Executor \ {e} : ex'[o] = ex[o]
Retains(e) ==
  /\ ex'[e].run = ex[e].run /\ ex'[e].fresh = ex[e].fresh /\ Alone(e)
Holds(e) == ex'[e].pending = ex[e].pending /\ ex'[e].results = ex[e].results /\ ex'[e].file = ex[e].file

LEMMA LookFacts ==
  ASSUME TypeInv, NEW e \in Executor, Look(e)
  PROVE  /\ Alone(e) /\ ex[e].pc = "idle" /\ ex'[e].pc \in {"quit", "claim"}
         /\ ex'[e].pending = Pending /\ ex'[e].run = NoRun
         /\ ex'[e].results = {} /\ ex'[e].file = NoFile /\ (ex'[e].fresh => Others(e) = {})
<1> DEFINE b == Others(e) = {}
           p == IF Pending = {} THEN "quit" ELSE "claim"
           w == [Idle EXCEPT !.pc = p, !.pending = Pending, !.fresh = b]
<1>1. ex' = [ex EXCEPT ![e] = w] /\ ex[e].pc = "idle" /\ ex \in [Executor -> Work]
  BY DEF Look, Set, At, TypeInv, TypeOK
<1>2. w.pc = p /\ w.pending = Pending /\ w.run = NoRun /\ w.results = {} /\ w.file = NoFile
      /\ w.fresh = b
  <2> HIDE DEF b
  <2> QED BY DEF Idle
<1> HIDE DEF w
<1> QED BY <1>1, <1>2 DEF Alone

LEMMA ClaimFacts ==
  ASSUME TypeInv, NEW e \in Executor, Claim(e)
  PROVE  /\ ex[e].pc = "claim"
         /\ \/ ex'[e] = Idle /\ Alone(e)
            \/ \A o \in Executor :
                 /\ ex'[o].pc = IF o = e THEN "create" ELSE ex[o].pc
                 /\ ex'[o].run = ex[o].run /\ ex'[o].results = ex[o].results
                 /\ ex'[o].file = ex[o].file /\ ex'[o].inner = ex[o].inner
                 /\ ex'[o].ends = ex[o].ends /\ ex'[o].verdict = ex[o].verdict
                 /\ ex'[o].pending = ex[o].pending
                 /\ ex'[o].fresh => o = e /\ Others(e) = {}
<1>1. ex \in [Executor -> Work] /\ ex[e].pc = "claim"
  BY DEF TypeInv, TypeOK, Claim, At
<1>2. CASE Set(e, Idle)
  BY <1>1, <1>2 DEF Set, Alone
<1>3. CASE ex' = [o \in Executor |->
                    IF o = e THEN [ex[e] EXCEPT !.pc = "create", !.fresh = @ /\ Others(e) = {}]
                    ELSE [ex[o] EXCEPT !.fresh = FALSE]]
  <2> DEFINE b == ex[e].fresh /\ Others(e) = {}
  <2>1. ex'[e] = [ex[e] EXCEPT !.pc = "create", !.fresh = b]
    BY <1>3
  <2>2. \A o \in Executor \ {e} : ex'[o] = [ex[o] EXCEPT !.fresh = FALSE]
    BY <1>3
  <2>3. b => Others(e) = {}
    OBVIOUS
  <2> HIDE DEF b
  <2>4. ASSUME NEW o \in Executor
        PROVE  /\ ex'[o].pc = IF o = e THEN "create" ELSE ex[o].pc
               /\ ex'[o].run = ex[o].run /\ ex'[o].results = ex[o].results
               /\ ex'[o].file = ex[o].file /\ ex'[o].inner = ex[o].inner
               /\ ex'[o].ends = ex[o].ends /\ ex'[o].verdict = ex[o].verdict
               /\ ex'[o].pending = ex[o].pending
               /\ ex'[o].fresh => o = e /\ Others(e) = {}
    <3>1. ex[o] \in Work /\ ex[e] \in Work /\ ex[e].pc = "claim"
      BY <1>1
    <3>2. CASE o = e
      <4>1. ex'[o] = [ex[o] EXCEPT !.pc = "create", !.fresh = b]
        BY <2>1, <3>2
      <4> QED BY <2>3, <3>1, <3>2, <4>1 DEF Work
    <3>3. CASE o # e
      <4>1. ex'[o] = [ex[o] EXCEPT !.fresh = FALSE]
        BY <2>2, <3>3
      <4> QED BY <3>1, <3>3, <4>1 DEF Work
    <3> QED BY <3>2, <3>3
  <2> QED BY <1>1, <2>4
<1> QED BY <1>2, <1>3 DEF Claim

LEMMA CreateFacts ==
  ASSUME TypeInv, NEW e \in Executor, CreateRun(e)
  PROVE  /\ Alone(e) /\ ex[e].pc = "create" /\ ex'[e].pc = "next" /\ ex'[e].run = runs + 1
         /\ ex'[e].fresh = ex[e].fresh /\ Holds(e)
         /\ runs' = runs + 1 /\ runs + 1 \in Run /\ runs \in Nat
<1>1. /\ ex' = [ex EXCEPT ![e] = [ex[e] EXCEPT !.pc = "next", !.run = runs + 1]]
      /\ runs' = runs + 1 /\ ex[e].pc = "create" /\ ex \in [Executor -> Work] /\ ex[e] \in Work
  BY DEF CreateRun, Set, At, TypeInv, TypeOK
<1>2. runs' \in 0..MaxRuns /\ runs \in 0..MaxRuns
  BY CreateTypes DEF TypeInv, TypeOK
<1>3. ex'[e] = [ex[e] EXCEPT !.pc = "next", !.run = runs + 1] /\ Alone(e)
  BY <1>1 DEF Alone
<1> QED BY <1>1, <1>2, <1>3, Bounds DEF Work, Holds, Run

LEMMA AppendFacts ==
  ASSUME TypeInv, NEW e \in Executor, NEW f \in File, NEW res \in Result, NEW inner \in BOOLEAN,
         Append(e, f, res, inner)
  PROVE  /\ Retains(e) /\ ex'[e].pc = "advance" /\ ex'[e].file = f
         /\ ex'[e].pending = ex[e].pending \ {f}
         /\ ex'[e].results = ex[e].results \cup {<<f, res>>}
         /\ (stops /\ res = "error" => ex'[e].ends)
<1> DEFINE b == res = "error" /\ stops
           w == [ex[e] EXCEPT !.pc = "advance", !.file = f, !.res = res,
                       !.pending = @ \ {f}, !.results = @ \cup {<<f, res>>},
                       !.inner = inner, !.ends = b]
<1>1. ex' = [ex EXCEPT ![e] = w] /\ ex \in [Executor -> Work] /\ ex[e] \in Work
  BY DEF Append, Set, TypeInv, TypeOK
<1>2. stops /\ res = "error" => b
  OBVIOUS
<1> HIDE DEF b
<1>3. w.pc = "advance" /\ w.file = f /\ w.pending = ex[e].pending \ {f} /\ w.run = ex[e].run
      /\ w.results = ex[e].results \cup {<<f, res>>} /\ w.ends = b /\ w.fresh = ex[e].fresh
  BY <1>1 DEF Work
<1> HIDE DEF w
<1> QED BY <1>1, <1>2, <1>3 DEF Retains, Alone

(* A file is settled or written, committed or not.                          *)
LEMMA SettleFacts ==
  ASSUME TypeInv, NEW e \in Executor, Settle(e)
  PROVE  \E f \in Oldest(ex[e].pending) \cap File :
           /\ ex[e].pc = "next" /\ ex[e].run \in 1..runs /\ history[ex[e].run].cancel = "no"
           /\ Retains(e) /\ ex'[e].pc = "advance" /\ ex'[e].file = f
           /\ ex'[e].pending = ex[e].pending \ {f}
           /\ ex'[e].results = ex[e].results \cup {<<f, Outcome(f)>>}
           /\ Outcome(f) \in Result
           /\ Outcome(f) = "ok" => kind[content[f]] = "empty"
<1>1. PICK f \in Oldest(ex[e].pending) :
        /\ Outcome(f) # "ok" \/ kind[content[f]] = "empty"
        /\ Append(e, f, Outcome(f), Outcome(f) # "error")
  BY DEF Settle
<1>2. /\ f \in File /\ Outcome(f) \in Result /\ (Outcome(f) # "error") \in BOOLEAN
      /\ ex[e].pc = "next" /\ ex[e].run \in 1..runs /\ history[ex[e].run].cancel = "no"
  BY DEF Oldest, Work, Outcome, Result, Settle, MayGoOn, At, Control, Working, TypeInv, TypeOK
<1>3. /\ Retains(e) /\ ex'[e].pc = "advance" /\ ex'[e].file = f
      /\ ex'[e].pending = ex[e].pending \ {f}
      /\ ex'[e].results = ex[e].results \cup {<<f, Outcome(f)>>}
  <2>1. CASE Outcome(f) # "error"
    <3>1. Append(e, f, Outcome(f), TRUE)
      BY <1>1, <2>1
    <3> QED BY <1>2, <3>1, AppendFacts, ZenonT(40)
  <2>2. CASE Outcome(f) = "error"
    <3>1. Append(e, f, Outcome(f), FALSE)
      BY <1>1, <2>2
    <3> QED BY <1>2, <3>1, AppendFacts, ZenonT(40)
  <2> QED BY <2>1, <2>2
<1> QED BY <1>1, <1>2, <1>3

LEMMA WriteFacts ==
  ASSUME TypeInv, NEW e \in Executor, Write(e) \/ WriteUnrecorded(e)
  PROVE  \E f \in Oldest(ex[e].pending) \cap File :
           /\ ex[e].pc = "next" /\ ex[e].run \in 1..runs /\ history[ex[e].run].cancel = "no"
           /\ Outcome(f) = "ok" /\ kind[content[f]] = "data"
           /\ Retains(e) /\ ex'[e].pc = "write" /\ ex'[e].file = f
           /\ ex'[e].pending = ex[e].pending \ {f} /\ ex'[e].results = ex[e].results
           /\ loose' = loose \cup (IF AlsoLoading(e, f) THEN {content[f]} ELSE {})
           /\ \/ loadedKeys' = loadedKeys \cup {<<ex[e].run, f, k>> : k \in KeysIn[content[f]]}
                 /\ unkeyed' = unkeyed
              \/ loadedKeys' = loadedKeys /\ unkeyed' = unkeyed \cup {<<ex[e].run, f>>}
<1>1. PICK f \in Oldest(ex[e].pending) :
           /\ Set(e, [ex[e] EXCEPT !.pc = "write", !.file = f, !.pending = @ \ {f}])
           /\ Outcome(f) = "ok" /\ kind[content[f]] = "data"
           /\ loose' = loose \cup (IF AlsoLoading(e, f) THEN {content[f]} ELSE {})
           /\ \/ loadedKeys' = loadedKeys \cup {<<ex[e].run, f, k>> : k \in KeysIn[content[f]]}
                 /\ unkeyed' = unkeyed
              \/ loadedKeys' = loadedKeys /\ unkeyed' = unkeyed \cup {<<ex[e].run, f>>}
  BY DEF Write, WriteUnrecorded, rows
<1>2. /\ ex \in [Executor -> Work] /\ ex[e] \in Work
      /\ ex[e].pc = "next" /\ ex[e].run \in 1..runs /\ history[ex[e].run].cancel = "no"
  BY DEF Write, WriteUnrecorded, MayGoOn, At, Control, Working, TypeInv, TypeOK
<1>3. f \in File
  BY <1>2 DEF Oldest, Work
<1>4. ex'[e] = [ex[e] EXCEPT !.pc = "write", !.file = f, !.pending = @ \ {f}] /\ Alone(e)
  BY <1>1, <1>2 DEF Set, Alone
<1>5. /\ Retains(e) /\ ex'[e].pc = "write" /\ ex'[e].file = f
      /\ ex'[e].pending = ex[e].pending \ {f} /\ ex'[e].results = ex[e].results
  BY <1>2, <1>4 DEF Work, Retains
<1> QED BY <1>1, <1>2, <1>3, <1>5

LEMMA CommitFacts ==
  ASSUME TypeInv, NEW e \in Executor, Commit(e)
  PROVE  /\ ex[e].pc = "write" /\ ex[e].run \in 1..runs /\ ex[e].file \in File
         /\ Retains(e) /\ ex'[e].pc = "advance" /\ ex'[e].file = ex[e].file
         /\ ex'[e].pending = ex[e].pending \ {ex[e].file}
         /\ ex'[e].results = ex[e].results \cup {<<ex[e].file, "ok">>}
<1>1. Append(e, ex[e].file, "ok", TRUE) /\ ex[e].pc = "write"
  BY DEF Commit, At
<1>2. ex[e].file \in File /\ ex[e].run \in 1..runs /\ "ok" \in Result
  BY <1>1 DEF TypeInv, Control, Working, Result
<1> QED BY <1>1, <1>2, AppendFacts, ZenonT(40)

LEMMA FailsFacts ==
  ASSUME TypeInv, NEW e \in Executor, LoadFails(e)
  PROVE  /\ ex[e].pc = "write" /\ ex[e].run \in 1..runs /\ ex[e].file \in File
         /\ Retains(e) /\ ex'[e].pc = "advance" /\ ex'[e].file = ex[e].file
         /\ ex'[e].pending = ex[e].pending \ {ex[e].file}
         /\ ex'[e].results = ex[e].results \cup {<<ex[e].file, "error">>}
<1>1. PICK inCommit \in BOOLEAN : Append(e, ex[e].file, "error", inCommit)
  BY DEF LoadFails
<1>2. ex[e].pc = "write" /\ ex[e].file \in File /\ ex[e].run \in 1..runs /\ "error" \in Result
  BY DEF TypeInv, Control, Working, Result, LoadFails, At
<1>3. CASE inCommit
  <2>1. Append(e, ex[e].file, "error", TRUE)
    BY <1>1, <1>3
  <2> QED BY <1>2, <2>1, AppendFacts, ZenonT(40)
<1>4. CASE ~inCommit
  <2>1. Append(e, ex[e].file, "error", FALSE)
    BY <1>1, <1>4
  <2> QED BY <1>2, <2>1, AppendFacts, ZenonT(40)
<1> QED BY <1>3, <1>4

LEMMA AdvanceFacts ==
  ASSUME TypeInv, NEW e \in Executor, Advance(e)
  PROVE  /\ ex[e].pc = "advance" /\ ex[e].run \in 1..runs /\ ex[e].file \in File
         /\ Retains(e) /\ Holds(e)
         /\ ex'[e].pc = (IF ex[e].ends THEN "finish" ELSE "progress") /\ ex'[e].verdict = "error"
         /\ checkpoint' = Ts[ex[e].file]
<1> DEFINE b == ex[e].inner /\ ~Loaded(e)
           p == IF ex[e].ends THEN "finish" ELSE "progress"
           w == [ex[e] EXCEPT !.pc = p, !.verdict = "error", !.inner = b]
<1>1. /\ ex' = [ex EXCEPT ![e] = w] /\ ex \in [Executor -> Work] /\ ex[e] \in Work
      /\ ex[e].pc = "advance" /\ checkpoint' = Ts[ex[e].file]
  BY DEF Advance, Set, At, TypeInv, TypeOK
<1>2. ex[e].run \in 1..runs /\ ex[e].file \in File
  BY <1>1 DEF TypeInv, Control, Working
<1> HIDE DEF b
<1>3. w.pc = p /\ w.verdict = "error" /\ w.run = ex[e].run /\ w.fresh = ex[e].fresh
      /\ w.pending = ex[e].pending /\ w.results = ex[e].results /\ w.file = ex[e].file
  BY <1>1 DEF Work
<1> HIDE DEF w
<1> QED BY <1>1, <1>2, <1>3 DEF Retains, Alone, Holds

LEMMA ProgressFacts ==
  ASSUME TypeInv, NEW e \in Executor, Progress(e)
  PROVE  /\ ex[e].pc = "progress" /\ ex[e].run \in 1..runs
         /\ Retains(e) /\ Holds(e) /\ ex'[e].pc = "next"
         /\ history' = [history EXCEPT ![ex[e].run].list =
              IF history[ex[e].run].status = "running" THEN ex[e].results
              ELSE history[ex[e].run].list]
<1>1. /\ ex' = [ex EXCEPT ![e] = [ex[e] EXCEPT !.pc = "next"]]
      /\ ex \in [Executor -> Work] /\ ex[e] \in Work /\ ex[e].pc = "progress"
  BY DEF Progress, Goto, Set, At, TypeInv, TypeOK
<1>2. ex[e].run \in 1..runs /\ ex[e].run \in Run /\ history \in [Run -> RunRow]
  <2>1. Control(ex[e]) /\ runs \in 0..MaxRuns /\ history \in [Run -> RunRow]
    BY DEF TypeInv, TypeOK
  <2> QED BY <1>1, <2>1, Bounds DEF Control, Working, Run
<1>3. ex'[e] = [ex[e] EXCEPT !.pc = "next"] /\ Alone(e)
  BY <1>1 DEF Alone
<1>4. history' = [history EXCEPT ![ex[e].run].list =
              IF history[ex[e].run].status = "running" THEN ex[e].results
              ELSE history[ex[e].run].list]
  BY <1>2 DEF Progress
<1> QED BY <1>1, <1>2, <1>3, <1>4 DEF Work, Retains, Holds

LEMMA ConcludeFacts ==
  ASSUME TypeInv, NEW e \in Executor, Conclude(e)
  PROVE  /\ ex[e].pc = "next" /\ ex[e].run \in 1..runs
         /\ Retains(e) /\ Holds(e) /\ ex'[e].pc = "finish"
         /\ ex'[e].verdict \in {"cancelled", RunVerdict(ex[e].results)}
<1>1. PICK v \in {"cancelled", RunVerdict(ex[e].results)} : ex' = [ex EXCEPT ![e] =
                               [ex[e] EXCEPT !.pc = "finish", !.verdict = v, !.inner = FALSE]]
  BY DEF Conclude, Set
<1>2. /\ ex \in [Executor -> Work] /\ ex[e] \in Work /\ ex[e].pc = "next" /\ ex[e].run \in 1..runs
  BY DEF TypeInv, TypeOK, Control, Working, Conclude, At
<1>3. ex'[e] = [ex[e] EXCEPT !.pc = "finish", !.verdict = v, !.inner = FALSE] /\ Alone(e)
  BY <1>1, <1>2 DEF Alone
<1> QED BY <1>2, <1>3 DEF Work, Retains, Holds

LEMMA FinishFacts ==
  ASSUME TypeInv, NEW e \in Executor, Finish(e)
  PROVE  /\ ex[e].pc = "finish" /\ ex[e].run \in 1..runs
         /\ Retains(e) /\ Holds(e) /\ ex'[e].pc = "status"
         /\ history' = [history EXCEPT ![ex[e].run] = [history[ex[e].run] EXCEPT
                          !.status = ex[e].verdict, !.list = ex[e].results]]
<1> DEFINE b == ex[e].verdict # "error"
<1>1. /\ ex' = [ex EXCEPT ![e] = [ex[e] EXCEPT !.pc = "status", !.completed = b]]
      /\ ex \in [Executor -> Work] /\ ex[e] \in Work /\ ex[e].pc = "finish"
  BY DEF Finish, Set, At, TypeInv, TypeOK
<1>2. ex[e].run \in 1..runs /\ ex[e].run \in Run /\ history \in [Run -> RunRow]
  <2>1. Control(ex[e]) /\ runs \in 0..MaxRuns /\ history \in [Run -> RunRow]
    BY DEF TypeInv, TypeOK
  <2> QED BY <1>1, <2>1, Bounds DEF Control, Working, Run
<1> HIDE DEF b
<1>3. ex'[e] = [ex[e] EXCEPT !.pc = "status", !.completed = b] /\ Alone(e)
  BY <1>1 DEF Alone
<1>4. history' = [history EXCEPT ![ex[e].run] = [history[ex[e].run] EXCEPT
                          !.status = ex[e].verdict, !.list = ex[e].results]]
  BY <1>2 DEF Finish, RunRow
<1> QED BY <1>1, <1>2, <1>3, <1>4 DEF Work, Retains, Holds

LEMMA RaiseFacts ==
  ASSUME TypeInv, NEW e \in Executor, Raise(e)
  PROVE  /\ Retains(e)
         /\ \/ /\ ex[e].pc \in {"advance", "progress", "finish", "status"} /\ ex[e].inner
               /\ ex[e].run \in 1..runs /\ ex[e].file \in File /\ ex'[e].file = ex[e].file
               /\ ex'[e].pc = "advance" /\ ex'[e].pending = ex[e].pending \ {ex[e].file}
               /\ ex'[e].results = ex[e].results \cup {<<ex[e].file, "error">>}
               /\ stops => ex'[e].ends
            \/ /\ Holds(e)
               /\ \/ ex[e].pc \in {"claim", "create"} /\ ex'[e].pc = "giveback"
                  \/ ex[e].pc \in {"advance", "progress", "finish", "status"} /\ ex'[e].pc = "recover"
<1>1. /\ ex \in [Executor -> Work] /\ ex[e] \in Work /\ Control(ex[e])
      /\ ex[e].pc \in {"claim", "create", "advance", "progress", "finish", "status"}
  BY DEF TypeInv, TypeOK, Raise
<1>2. CASE ex[e].inner
  <2>1. Append(e, ex[e].file, "error", FALSE)
    BY <1>2 DEF Raise
  <2>2. ex[e].file \in File /\ "error" \in Result /\ ex[e].run \in 1..runs
        /\ ex[e].pc \in {"advance", "progress", "finish", "status"}
    BY <1>1, <1>2 DEF Control, Before, Working, Result
  <2>3. /\ Retains(e) /\ ex'[e].pc = "advance" /\ ex'[e].file = ex[e].file
        /\ ex'[e].pending = ex[e].pending \ {ex[e].file}
        /\ ex'[e].results = ex[e].results \cup {<<ex[e].file, "error">>}
        /\ (stops => ex'[e].ends)
    BY <2>1, <2>2, AppendFacts, ZenonT(40)
  <2> QED BY <1>2, <2>2, <2>3
<1>3. CASE ~ex[e].inner
  <2> DEFINE p == IF ex[e].run = NoRun THEN "giveback" ELSE "recover"
  <2>1. ex' = [ex EXCEPT ![e] = [ex[e] EXCEPT !.pc = p]]
    BY <1>3 DEF Raise, Goto, Set
  <2>2. ex'[e] = [ex[e] EXCEPT !.pc = p] /\ Alone(e)
    BY <1>1, <2>1 DEF Alone
  <2>3. IF ex[e].pc \in {"claim", "create"} THEN ex[e].run = NoRun ELSE ex[e].run # NoRun
    BY <1>1 DEF Control, Before, Working, NoRun
  <2> QED BY <1>1, <2>2, <2>3 DEF Work, Retains, Holds
<1> QED BY <1>2, <1>3

LEMMA RecoverFacts ==
  ASSUME TypeInv, NEW e \in Executor, Recover(e)
  PROVE  /\ ex[e].pc = "recover" /\ ex[e].run \in 1..runs /\ Alone(e)
         /\ ex'[e].pc \in {"idle", "giveback"} /\ ex'[e].pending = {} /\ ex'[e].results = {}
         /\ ex'[e].run \in {NoRun, ex[e].run}
<1>1. ex \in [Executor -> Work] /\ ex[e] \in Work /\ ex[e].pc = "recover" /\ ex[e].run \in 1..runs
  BY DEF TypeInv, TypeOK, Recover, At, Control, Working
<1>2. CASE Set(e, Idle)
  BY <1>1, <1>2, IdleType DEF Set, Alone
<1>3. CASE Set(e, [ex[e] EXCEPT !.pc = "giveback", !.results = {}, !.pending = {}])
  <2>1. ex'[e] = [ex[e] EXCEPT !.pc = "giveback", !.results = {}, !.pending = {}] /\ Alone(e)
    BY <1>1, <1>3 DEF Set, Alone
  <2> QED BY <1>1, <2>1 DEF Work
<1> QED BY <1>2, <1>3 DEF Recover

LEMMA EndFacts ==
  ASSUME TypeInv, NEW e \in Executor, Quit(e) \/ Status(e) \/ GiveBack(e)
  PROVE  ex'[e] = Idle /\ Alone(e) /\ ex[e].pc \in {"quit", "status", "giveback"}
         /\ history' = history
BY DEF Quit, Status, GiveBack, Set, Alone, TypeInv, TypeOK, At

-----------------------------------------------------------------------------
(* The row of a run and what its executor knows: the list in the row is a   *)
(* part of the results, all of them while the run may go on, and the        *)
(* verdict agrees with them.                                                *)
Noted(w) ==
  /\ w.pc \in {"next", "write", "advance", "progress", "finish", "status"}
       => history[w.run].list \subseteq w.results
  /\ w.pc = "status" \/ (w.pc = "next" /\ history[w.run].cancel = "no")
       => w.results \subseteq history[w.run].list
  /\ /\ w.pc \in {"next", "write", "progress"} \/ (w.pc = "advance" /\ ~w.ends)
     /\ history[w.run].cancel = "no"
     => history[w.run].status = "running"
  /\ w.pc = "finish" => /\ w.verdict = "success" => With(w.results, "error") = {}
                        /\ w.verdict = "skipped" => With(w.results, "ok") = {}

(* A file noted as loaded was, or was empty.                                *)
Truly(S) == \A x \in S : x[2] = "ok" => kind[content[x[1]]] = "empty" \/ commits[content[x[1]]] > 0

Unused == \A r \in Run : r > runs => history[r].status = "none" /\ history[r].list = {} /\ history[r].cancel = "no"
Verdicts ==
  \A r \in Run : /\ history[r].status = "success" => With(history[r].list, "error") = {}
                 /\ history[r].status = "skipped" => With(history[r].list, "ok") = {}
NotesInv ==
  /\ \A e \in Executor : Noted(ex[e]) /\ Truly(ex[e].results)
  /\ \A r \in Run : Truly(history[r].list)
  /\ Unused /\ Verdicts

LEMMA InitNotes == Init => NotesInv
BY DEF Init, NotesInv, Noted, Truly, Unused, Verdicts, Idle, With

LEMMA NotesTell == TypeInv /\ NotesInv => HistoryIsTrue
<1> SUFFICES ASSUME TypeInv, NotesInv, NEW r \in Run
             PROVE  /\ history[r].status = "success" => With(history[r].list, "error") = {}
                    /\ history[r].status = "skipped" => With(history[r].list, "ok") = {}
                    /\ \A f \in Files(With(history[r].list, "ok")) :
                         kind[content[f]] = "data" => commits[content[f]] > 0
  BY DEF HistoryIsTrue
<1>1. Truly(history[r].list)
  BY DEF NotesInv
<1>2. ASSUME NEW f \in Files(With(history[r].list, "ok")), kind[content[f]] = "data"
      PROVE  commits[content[f]] > 0
  BY <1>1, <1>2 DEF Truly, Files, With
<1> QED BY <1>2 DEF NotesInv, Verdicts

(* Loading goes on; what was loaded stays so.                               *)
LEMMA CommitsGrow ==
  ASSUME TypeInv, [Next]_vars
  PROVE  \A c \in Content : commits'[c] >= commits[c] /\ commits'[c] \in Nat /\ commits[c] \in Nat
<1>1. commits \in [Content -> Nat]
  BY DEF TypeInv, TypeOK
<1>2. ASSUME NEW e \in Executor, Commit(e)
      PROVE  \A c \in Content : commits'[c] >= commits[c] /\ commits'[c] \in Nat
  BY <1>1, <1>2 DEF Commit
<1>3. commits' = commits \/ \E e \in Executor : Commit(e)
  BY RowWriters DEF WriteUnrecorded, RollbackRows
<1> QED BY <1>1, <1>2, <1>3

(* An executor that does nothing is not concerned by what happens to the    *)
(* rows of other runs, nor by a request to cancel its own.                  *)
LEMMA NotedStays ==
  ASSUME NEW o \in Executor, Noted(ex[o]),
         ex'[o].pc = ex[o].pc, ex'[o].run = ex[o].run, ex'[o].results = ex[o].results,
         ex'[o].verdict = ex[o].verdict, ex'[o].ends = ex[o].ends,
         ex[o].pc \in Working =>
           /\ history'[ex[o].run].list = history[ex[o].run].list
           /\ \/ history'[ex[o].run].cancel # "no"
              \/ /\ history'[ex[o].run].status = history[ex[o].run].status
                 /\ history'[ex[o].run].cancel = history[ex[o].run].cancel
  PROVE  Noted(ex[o])'
BY DEF Noted, Working, With

LEMMA OthersNoted ==
  ASSUME TypeInv, NotesInv, NEW e \in Executor, Alone(e),
         \A r \in Run : r <= runs /\ r # ex[e].run => history'[r] = history[r]
  PROVE  \A o \in Executor \ {e} : Noted(ex[o])'
<1> SUFFICES ASSUME NEW o \in Executor, o # e PROVE Noted(ex[o])'
  OBVIOUS
<1>1. ex'[o] = ex[o] /\ Noted(ex[o])
  BY DEF Alone, NotesInv
<1>2. ex[o].pc \in Working => ex[o].run \in Run /\ ex[o].run <= runs /\ ex[o].run # ex[e].run
  <2>1. Control(ex[o]) /\ OwnRuns /\ runs \in 0..MaxRuns
    BY DEF TypeInv, TypeOK
  <2> QED BY <2>1, Bounds DEF Control, OwnRuns, Run, NoRun
<1> QED BY <1>1, <1>2, NotedStays

(* When the rows stay, only the executor itself is to be looked at.         *)
LEMMA QuietNoted ==
  ASSUME TypeInv, NotesInv, NEW e \in Executor, Alone(e), history' = history, Noted(ex[e])'
  PROVE  \A o \in Executor : Noted(ex[o])'
BY OthersNoted

LEMMA FileNoted ==
  ASSUME TypeInv, NotesInv, NEW e \in Executor, stops' = stops, history' = history,
         Settle(e) \/ Write(e) \/ WriteUnrecorded(e) \/ Commit(e) \/ LoadFails(e)
  PROVE  \A o \in Executor : Noted(ex[o])'
<1>1. Noted(ex[e])
  BY DEF NotesInv
<1>2. CASE Settle(e)
  <2>1. PICK f \in Oldest(ex[e].pending) \cap File :
           /\ ex[e].pc = "next" /\ ex[e].run \in 1..runs /\ history[ex[e].run].cancel = "no"
           /\ Retains(e) /\ ex'[e].pc = "advance" /\ ex'[e].file = f
           /\ ex'[e].pending = ex[e].pending \ {f}
           /\ ex'[e].results = ex[e].results \cup {<<f, Outcome(f)>>}
    BY <1>2, SettleFacts
  <2>2. Noted(ex[e])'
    BY <1>1, <2>1 DEF Noted, Retains
  <2> QED BY <2>1, <2>2, QuietNoted DEF Retains
<1>3. CASE Write(e) \/ WriteUnrecorded(e)
  <2>1. PICK f \in Oldest(ex[e].pending) \cap File :
           /\ ex[e].pc = "next" /\ ex[e].run \in 1..runs /\ history[ex[e].run].cancel = "no"
           /\ Retains(e) /\ ex'[e].pc = "write" /\ ex'[e].file = f
           /\ ex'[e].results = ex[e].results
    BY <1>3, WriteFacts
  <2>2. Noted(ex[e])'
    BY <1>1, <2>1 DEF Noted, Retains
  <2> QED BY <2>1, <2>2, QuietNoted DEF Retains
<1>4. CASE Commit(e)
  <2>1. /\ ex[e].pc = "write" /\ ex[e].run \in 1..runs /\ ex[e].file \in File
        /\ Retains(e) /\ ex'[e].pc = "advance"
        /\ ex'[e].results = ex[e].results \cup {<<ex[e].file, "ok">>}
    BY <1>4, CommitFacts
  <2>2. Noted(ex[e])'
    BY <1>1, <2>1 DEF Noted, Retains
  <2> QED BY <2>1, <2>2, QuietNoted DEF Retains
<1>5. CASE LoadFails(e)
  <2>1. /\ ex[e].pc = "write" /\ ex[e].run \in 1..runs /\ ex[e].file \in File
        /\ Retains(e) /\ ex'[e].pc = "advance"
        /\ ex'[e].results = ex[e].results \cup {<<ex[e].file, "error">>}
    BY <1>5, FailsFacts
  <2>2. Noted(ex[e])'
    BY <1>1, <2>1 DEF Noted, Retains
  <2> QED BY <2>1, <2>2, QuietNoted DEF Retains
<1> QED BY <1>2, <1>3, <1>4, <1>5

(* A verdict is that of the results.                                        *)
LEMMA VerdictTrue ==
  ASSUME NEW S
  PROVE  /\ RunVerdict(S) = "success" => With(S, "error") = {}
         /\ RunVerdict(S) = "skipped" => With(S, "ok") = {}
BY DEF RunVerdict, With

LEMMA RunNoted ==
  ASSUME TypeInv, NotesInv, NEW e \in Executor, stops' = stops,
         (Advance(e) /\ history' = history) \/ Progress(e) \/ (Conclude(e) /\ history' = history) \/ Finish(e)
  PROVE  \A o \in Executor : Noted(ex[o])'
<1>1. Noted(ex[e]) /\ ex[e] \in Work /\ history \in [Run -> RunRow]
  BY DEF NotesInv, TypeInv, TypeOK
<1>2. CASE Advance(e) /\ history' = history
  <2>1. /\ ex[e].pc = "advance" /\ ex[e].run \in 1..runs
        /\ Retains(e) /\ Holds(e)
        /\ ex'[e].pc = (IF ex[e].ends THEN "finish" ELSE "progress") /\ ex'[e].verdict = "error"
    BY <1>2, AdvanceFacts
  <2>2. Noted(ex[e])'
    BY <1>1, <1>2, <2>1 DEF Noted, Retains, Holds
  <2> QED BY <1>2, <2>1, <2>2, QuietNoted DEF Retains
<1>3. ex[e].pc \in Working => ex[e].run \in Run
  <2>1. Control(ex[e]) /\ runs \in 0..MaxRuns
    BY DEF TypeInv, TypeOK
  <2> QED BY <2>1, Bounds DEF Control, Run
<1>4. CASE Progress(e)
  <2>1. /\ ex[e].pc = "progress" /\ ex[e].run \in 1..runs
        /\ Retains(e) /\ Holds(e) /\ ex'[e].pc = "next"
        /\ history' = [history EXCEPT ![ex[e].run].list =
              IF history[ex[e].run].status = "running" THEN ex[e].results
              ELSE history[ex[e].run].list]
    BY <1>4, ProgressFacts
  <2>2. /\ ex[e].run \in Run /\ history[ex[e].run] \in RunRow
        /\ \A r \in Run : r # ex[e].run => history'[r] = history[r]
    BY <1>1, <1>3, <2>1 DEF Working
  <2>3. /\ history'[ex[e].run].status = history[ex[e].run].status
        /\ history'[ex[e].run].cancel = history[ex[e].run].cancel
        /\ history'[ex[e].run].list = (IF history[ex[e].run].status = "running" THEN ex[e].results
                                       ELSE history[ex[e].run].list)
    BY <1>1, <2>1, <2>2 DEF RunRow
  <2>4. Noted(ex[e])'
    BY <1>1, <2>1, <2>3 DEF Noted, Retains, Holds
  <2> QED BY <2>1, <2>2, <2>4, OthersNoted DEF Retains
<1>5. CASE Conclude(e) /\ history' = history
  <2>1. /\ ex[e].pc = "next" /\ ex[e].run \in 1..runs
        /\ Retains(e) /\ Holds(e) /\ ex'[e].pc = "finish"
        /\ ex'[e].verdict \in {"cancelled", RunVerdict(ex[e].results)}
    BY <1>5, ConcludeFacts
  <2>2. /\ ex'[e].verdict = "success" => With(ex[e].results, "error") = {}
        /\ ex'[e].verdict = "skipped" => With(ex[e].results, "ok") = {}
    BY <2>1, VerdictTrue
  <2>3. Noted(ex[e])'
    BY <1>1, <1>5, <2>1, <2>2 DEF Noted, Retains, Holds
  <2> QED BY <1>5, <2>1, <2>3, QuietNoted DEF Retains
<1>6. CASE Finish(e)
  <2>1. /\ ex[e].pc = "finish" /\ ex[e].run \in 1..runs
        /\ Retains(e) /\ Holds(e) /\ ex'[e].pc = "status"
        /\ history' = [history EXCEPT ![ex[e].run] = [history[ex[e].run] EXCEPT
                          !.status = ex[e].verdict, !.list = ex[e].results]]
    BY <1>6, FinishFacts
  <2>2. /\ ex[e].run \in Run /\ history[ex[e].run] \in RunRow
        /\ \A r \in Run : r # ex[e].run => history'[r] = history[r]
    BY <1>1, <1>3, <2>1 DEF Working
  <2>3. history'[ex[e].run].list = ex[e].results
    BY <1>1, <2>1, <2>2 DEF RunRow
  <2>4. Noted(ex[e])'
    BY <1>1, <2>1, <2>3 DEF Noted, Retains, Holds
  <2> QED BY <2>1, <2>2, <2>4, OthersNoted DEF Retains
<1> QED BY <1>2, <1>4, <1>5, <1>6

LEMMA EndNoted ==
  ASSUME TypeInv, NotesInv, NEW e \in Executor, stops' = stops,
         (Raise(e) /\ history' = history) \/ Recover(e) \/ Quit(e) \/ Status(e) \/ GiveBack(e)
         \/ (Look(e) /\ history' = history) \/ CreateRun(e)
  PROVE  \A o \in Executor : Noted(ex[o])'
<1>1. Noted(ex[e]) /\ ex[e] \in Work /\ history \in [Run -> RunRow] /\ Control(ex[e])
  BY DEF NotesInv, TypeInv, TypeOK
<1>2. CASE Raise(e) /\ history' = history
  <2>1. Retains(e)
    BY <1>2, RaiseFacts
  <2>2. CASE ex'[e].pc \in {"giveback", "recover"}
    <3>1. Noted(ex[e])'
      BY <2>2 DEF Noted
    <3> QED BY <1>2, <2>1, <3>1, QuietNoted DEF Retains
  <2>3. CASE /\ ex[e].pc \in {"advance", "progress", "finish", "status"} /\ ex[e].inner
             /\ ex'[e].pc = "advance"
             /\ ex'[e].results = ex[e].results \cup {<<ex[e].file, "error">>}
             /\ stops => ex'[e].ends
    <3>1. ~ex'[e].ends => ex[e].pc \in {"advance", "progress"} /\ ~ex[e].ends
      BY <1>1, <2>3 DEF Control
    <3>2. Noted(ex[e])'
      BY <1>1, <1>2, <2>1, <2>3, <3>1 DEF Noted, Retains
    <3> QED BY <1>2, <2>1, <3>2, QuietNoted DEF Retains
  <2> QED BY <1>2, <2>2, <2>3, RaiseFacts
<1>3. CASE Recover(e)
  <2>1. ex[e].pc = "recover" /\ Alone(e) /\ ex'[e].pc \in {"idle", "giveback"} /\ ex[e].run \in 1..runs
    BY <1>3, RecoverFacts
  <2>2. \A r \in Run : r # ex[e].run => history'[r] = history[r]
    <3>1. \/ history' = [history EXCEPT ![ex[e].run].status = "error", ![ex[e].run].list = {}]
          \/ history' = history
      BY <1>3 DEF Recover
    <3> QED BY <1>1, <3>1
  <2>3. Noted(ex[e])'
    BY <2>1 DEF Noted
  <2> QED BY <2>1, <2>2, <2>3, OthersNoted
<1>4. CASE Quit(e) \/ Status(e) \/ GiveBack(e)
  <2>1. ex'[e] = Idle /\ Alone(e) /\ history' = history
    BY <1>4, EndFacts
  <2>2. Noted(ex[e])'
    BY <2>1, IdleType DEF Noted
  <2> QED BY <2>1, <2>2, QuietNoted
<1>5. CASE Look(e) /\ history' = history
  <2>1. Alone(e) /\ ex'[e].pc \in {"quit", "claim"}
    BY <1>5, LookFacts
  <2>2. Noted(ex[e])'
    BY <2>1 DEF Noted
  <2> QED BY <1>5, <2>1, <2>2, QuietNoted
<1>6. CASE CreateRun(e)
  <2>1. /\ Alone(e) /\ ex[e].pc = "create" /\ ex'[e].pc = "next" /\ ex'[e].run = runs + 1
        /\ Holds(e) /\ runs' = runs + 1 /\ runs + 1 \in Run /\ runs \in Nat
    BY <1>6, CreateFacts
  <2>2. history' = [history EXCEPT ![runs + 1].status = "running"]
    BY <1>6, <2>1 DEF CreateRun
  <2>3. /\ \A r \in Run : r <= runs => history'[r] = history[r]
        /\ history'[runs + 1].status = "running"
        /\ history'[runs + 1].list = {} /\ history'[runs + 1].cancel = "no"
    <3>1. history[runs + 1] \in RunRow /\ runs + 1 > runs
      BY <1>1, <2>1
    <3>2. history[runs + 1].list = {} /\ history[runs + 1].cancel = "no"
      BY <2>1, <3>1 DEF NotesInv, Unused
    <3>3. \A r \in Run : r <= runs => r # runs + 1
      BY <2>1, Bounds DEF Run
    <3> QED BY <1>1, <2>1, <2>2, <3>1, <3>2, <3>3 DEF RunRow
  <2>4. ex[e].results = {}
    BY <1>1, <2>1 DEF Control, Before
  <2>5. Noted(ex[e])'
    BY <2>1, <2>3, <2>4 DEF Noted, Holds
  <2> QED BY <2>1, <2>3, <2>5, OthersNoted
<1> QED BY <1>2, <1>3, <1>4, <1>5, <1>6

LEMMA NotedStep ==
  ASSUME TypeInv, NotesInv, [Next]_vars
  PROVE  \A o \in Executor : Noted(ex[o])'
<1>0. stops' = stops /\ history \in [Run -> RunRow] /\ ex \in [Executor -> Work]
      /\ \A o \in Executor : Noted(ex[o])
  BY FixedStays DEF TypeInv, TypeOK, NotesInv
<1>1. ASSUME NEW e \in Executor, Execute(e), ~Claim(e) PROVE \A o \in Executor : Noted(ex[o])'
  <2>1. Look(e) \/ Settle(e) \/ Write(e) \/ WriteUnrecorded(e) \/ Commit(e) \/ LoadFails(e)
        \/ Advance(e) \/ Conclude(e) \/ Raise(e) => history' = history
    BY DEF Look, Settle, Write, WriteUnrecorded, Commit, LoadFails, Advance, Conclude, Raise
  <2> QED BY <1>0, <1>1, <2>1, FileNoted, RunNoted, EndNoted DEF Execute
<1>2. ASSUME NEW e \in Executor, Claim(e) PROVE \A o \in Executor : Noted(ex[o])'
  <2>1. history' = history
    BY <1>2 DEF Claim
  <2>2. CASE ex'[e] = Idle /\ Alone(e)
    <3>1. Noted(ex[e])'
      BY <2>2, IdleType DEF Noted
    <3> QED BY <2>1, <2>2, <3>1, QuietNoted
  <2>3. CASE \A o \in Executor :
                 /\ ex'[o].pc = IF o = e THEN "create" ELSE ex[o].pc
                 /\ ex'[o].run = ex[o].run /\ ex'[o].results = ex[o].results
                 /\ ex'[o].file = ex[o].file /\ ex'[o].inner = ex[o].inner
                 /\ ex'[o].ends = ex[o].ends /\ ex'[o].verdict = ex[o].verdict
                 /\ ex'[o].pending = ex[o].pending
                 /\ ex'[o].fresh => o = e /\ Others(e) = {}
    <3>1. Noted(ex[e])'
      BY <2>3 DEF Noted
    <3>2. ASSUME NEW o \in Executor, o # e PROVE Noted(ex[o])'
      BY <1>0, <2>1, <2>3, <3>2, NotedStays
    <3> QED BY <3>1, <3>2
  <2> QED BY <1>2, <2>2, <2>3, ClaimFacts
<1>3. CASE Crash
  BY <1>3, IdleType DEF Crash, Noted
<1>4. CASE \E t \in 0..Cardinality(File) : ResetTs(t)
  <2>1. history' = history /\ ex' = [o \in Executor |-> [ex[o] EXCEPT !.fresh = FALSE]]
    BY <1>4 DEF ResetTs
  <2>2. ASSUME NEW o \in Executor
        PROVE  /\ ex'[o].pc = ex[o].pc /\ ex'[o].run = ex[o].run /\ ex'[o].results = ex[o].results
               /\ ex'[o].verdict = ex[o].verdict /\ ex'[o].ends = ex[o].ends
    <3>1. ex[o] \in Work
      BY <1>0
    <3> QED BY <2>1, <3>1 DEF Work
  <2> QED BY <1>0, <2>1, <2>2, NotedStays
<1>5. ASSUME NEW r \in Run, RequestCancel(r) \/ ForceFinish(r) PROVE \A o \in Executor : Noted(ex[o])'
  <2>1. ex' = ex /\ history[r] \in RunRow
    BY <1>0, <1>5 DEF RequestCancel, ForceFinish
  <2>2. /\ \A q \in Run : q # r => history'[q] = history[q]
        /\ history'[r].cancel # "no" /\ history'[r].list = history[r].list
    BY <1>0, <1>5, <2>1 DEF RequestCancel, ForceFinish, RunRow
  <2>3. \A o \in Executor : ex[o].pc \in Working => ex[o].run \in Run
    <3>1. (\A o \in Executor : Control(ex[o])) /\ runs \in 0..MaxRuns
      BY DEF TypeInv, TypeOK
    <3> QED BY <3>1, Bounds DEF Control, Run
  <2>4. ASSUME NEW o \in Executor PROVE Noted(ex[o])'
    BY <1>0, <2>1, <2>2, <2>3, NotedStays
  <2> QED BY <2>4
<1>6. ASSUME ex' = ex, history' = history PROVE \A o \in Executor : Noted(ex[o])'
  BY <1>0, <1>6, NotedStays
<1>7. CASE \/ UNCHANGED vars \/ (\E f \in File : Arrive(f)) \/ (\E f \in File : DeleteRemote(f))
           \/ (\E r \in Run, f \in File : RollbackRead(r, f)) \/ RollbackRows \/ RollbackKeys
  BY <1>6, <1>7 DEF vars, Arrive, DeleteRemote, RollbackRead, RollbackRows, RollbackKeys
<1> QED BY <1>1, <1>2, <1>3, <1>4, <1>5, <1>7 DEF Next, Administer

LEMMA ResultsTruly ==
  ASSUME TypeInv, NotesInv, [Next]_vars, NEW o \in Executor
  PROVE  Truly(ex[o].results)'
<1>1. ex \in [Executor -> Work] /\ Truly(ex[o].results) /\ ex[o].results \subseteq Entry
  BY EntryTypes DEF TypeInv, TypeOK, NotesInv
<1>2. CASE ex'[o].results = ex[o].results \/ ex'[o].results = {}
  <2>1. CASE ex'[o].results = {}
    BY <2>1 DEF Truly
  <2>2. CASE ex'[o].results = ex[o].results
    <3>1. Truly(ex[o].results) => \A x \in ex[o].results : x[2] = "ok" =>
             kind'[content'[x[1]]] = "empty" \/ commits'[content'[x[1]]] > 0
      <4>1. \A x \in ex[o].results : x[1] \in File /\ content[x[1]] \in Content
        BY <1>1 DEF Entry, TypeInv, TypeOK
      <4> QED BY <4>1, CommitsGrow, FixedStays DEF Truly
    <3> QED BY <1>1, <2>2, <3>1 DEF Truly
  <2> QED BY <1>2, <2>1, <2>2
<1>3. ASSUME NEW f \in File, NEW res \in Result, ex'[o].results = ex[o].results \cup {<<f, res>>},
             res = "ok" => kind[content[f]] = "empty" \/ commits'[content[f]] > 0
      PROVE  Truly(ex[o].results)'
  <2>1. \A x \in ex[o].results : x[1] \in File /\ content[x[1]] \in Content
    BY <1>1 DEF Entry, TypeInv, TypeOK
  <2>2. \A x \in ex[o].results : x[2] = "ok" =>
             kind'[content'[x[1]]] = "empty" \/ commits'[content'[x[1]]] > 0
    BY <1>1, <2>1, CommitsGrow, FixedStays DEF Truly
  <2>3. content' = content /\ kind' = kind
    BY FixedStays
  <2> QED BY <1>3, <2>2, <2>3 DEF Truly
<1>4. ASSUME NEW e \in Executor, Execute(e) PROVE Truly(ex[o].results)'
  <2>1. CASE e # o /\ ~Claim(e)
    <3>1. ex'[o] = ex[o]
      BY <1>4, <2>1, ExecuteTypes DEF Executing
    <3> QED BY <1>2, <3>1
  <2>2. CASE Claim(e)
    BY <1>2, <2>2, ClaimFacts, IdleType DEF Alone
  <2>3. CASE e = o /\ Settle(e)
    <3>1. PICK f \in Oldest(ex[e].pending) \cap File :
           /\ ex'[e].results = ex[e].results \cup {<<f, Outcome(f)>>}
           /\ Outcome(f) \in Result /\ (Outcome(f) = "ok" => kind[content[f]] = "empty")
      BY <2>3, SettleFacts
    <3> QED BY <1>3, <2>3, <3>1
  <2>4. CASE e = o /\ Commit(e)
    <3>1. ex[e].file \in File /\ ex'[e].results = ex[e].results \cup {<<ex[e].file, "ok">>}
      BY <2>4, CommitFacts
    <3>2. commits'[content[ex[e].file]] > 0
      <4>1. content[ex[e].file] \in Content /\ commits \in [Content -> Nat]
        BY <3>1 DEF TypeInv, TypeOK
      <4>2. commits' = [commits EXCEPT ![content[ex[e].file]] = @ + 1]
        BY <2>4 DEF Commit
      <4> QED BY <4>1, <4>2
    <3> QED BY <1>3, <2>4, <3>1, <3>2 DEF Result
  <2>5. CASE e = o /\ (LoadFails(e) \/ Raise(e))
    <3>1. \/ Holds(e)
          \/ ex[e].file \in File /\ ex'[e].results = ex[e].results \cup {<<ex[e].file, "error">>}
      BY <2>5, FailsFacts, RaiseFacts
    <3> QED BY <1>2, <1>3, <2>5, <3>1 DEF Result, Holds
  <2>6. CASE e = o /\ (Look(e) \/ Recover(e) \/ Quit(e) \/ Status(e) \/ GiveBack(e))
    <3>1. ex'[e].results = {}
      BY <2>6, LookFacts, RecoverFacts, EndFacts, IdleType
    <3> QED BY <1>2, <2>6, <3>1
  <2>7. CASE e = o /\ (Advance(e) \/ Progress(e) \/ Conclude(e) \/ Finish(e) \/ CreateRun(e))
    <3>1. ex'[e].results = ex[e].results
      BY <2>7, AdvanceFacts, ProgressFacts, ConcludeFacts, FinishFacts, CreateFacts DEF Holds
    <3> QED BY <1>2, <2>7, <3>1, SMTT(30)
  <2>8. CASE e = o /\ (Write(e) \/ WriteUnrecorded(e))
    <3>1. ex'[e].results = ex[e].results
      BY <2>8, WriteFacts
    <3> QED BY <1>2, <2>8, <3>1
  <2> QED BY <1>4, <2>1, <2>2, <2>3, <2>4, <2>5, <2>6, <2>7, <2>8 DEF Execute
<1>5. CASE Crash
  BY <1>2, <1>5, IdleType DEF Crash
<1>6. CASE \E t \in 0..Cardinality(File) : ResetTs(t)
  <2>1. ex'[o] = [ex[o] EXCEPT !.fresh = FALSE] /\ ex[o] \in Work
    BY <1>1, <1>6 DEF ResetTs
  <2> QED BY <1>2, <2>1 DEF Work
<1>7. CASE \/ UNCHANGED vars \/ (\E f \in File : Arrive(f)) \/ (\E f \in File : DeleteRemote(f))
           \/ (\E r \in Run, f \in File : RollbackRead(r, f)) \/ RollbackRows \/ RollbackKeys
           \/ (\E r \in Run : RequestCancel(r) \/ ForceFinish(r))
  <2>1. ex' = ex
    BY <1>7 DEF vars, Arrive, DeleteRemote, RollbackRead, RollbackRows, RollbackKeys,
       RequestCancel, ForceFinish
  <2> QED BY <1>2, <2>1
<1> QED BY <1>4, <1>5, <1>6, <1>7 DEF Next, Administer

(* A row changes in four ways.                                              *)
LEMMA RowSteps ==
  ASSUME TypeInv, NotesInv, [Next]_vars, NEW r \in Run
  PROVE  /\ \/ history'[r] = history[r]
            \/ /\ history'[r].status = "running" /\ history'[r].list = {}
               /\ r = runs' /\ runs' = runs + 1 /\ history[r].list = {} /\ runs \in Nat
            \/ \E e \in Executor : /\ r = ex[e].run /\ Progress(e) /\ history[r].status = "running"
                                   /\ history'[r].status = "running"
                                   /\ history'[r].list = ex[e].results
            \/ \E e \in Executor : /\ r = ex[e].run /\ Finish(e)
                                   /\ history'[r].status = ex[e].verdict
                                   /\ history'[r].list = ex[e].results
            \/ \E e \in Executor : /\ r = ex[e].run /\ Recover(e) /\ history'[r].status = "error"
                                   /\ history'[r].list = {}
            \/ /\ history'[r].list = history[r].list
               /\ history'[r].status \in {history[r].status, "cancelled"}
               /\ history[r].status = "running" \/ history[r].cancel = "asked"
<1>1. history \in [Run -> RunRow] /\ history[r] \in RunRow
  BY DEF TypeInv, TypeOK
<1>2. ASSUME NEW e \in Executor, CreateRun(e), history'[r] # history[r]
      PROVE  /\ history'[r].status = "running" /\ history'[r].list = {}
             /\ r = runs' /\ runs' = runs + 1 /\ history[r].list = {} /\ runs \in Nat
  <2>1. runs' = runs + 1 /\ runs + 1 \in Run /\ runs \in Nat
    BY <1>2, CreateFacts
  <2>2. history' = [history EXCEPT ![runs + 1].status = "running"]
    BY <1>2, <2>1 DEF CreateRun
  <2>3. r = runs + 1
    BY <1>1, <1>2, <2>2
  <2>4. history[r].list = {}
    BY <2>1, <2>3 DEF NotesInv, Unused
  <2> QED BY <1>1, <2>1, <2>2, <2>3, <2>4 DEF RunRow
<1>3. ASSUME NEW e \in Executor, Progress(e), history'[r] # history[r]
      PROVE  /\ r = ex[e].run /\ history[r].status = "running" /\ history'[r].status = "running"
             /\ history'[r].list = ex[e].results
  <2>1. history' = [history EXCEPT ![ex[e].run].list =
              IF history[ex[e].run].status = "running" THEN ex[e].results
              ELSE history[ex[e].run].list]
    BY <1>3, ProgressFacts
  <2>2. r = ex[e].run
    BY <1>1, <1>3, <2>1
  <2>3. history'[r] = [history[r] EXCEPT !.list =
              IF history[r].status = "running" THEN ex[e].results ELSE history[r].list]
    BY <1>1, <2>1, <2>2
  <2>4. history[r].status = "running"
    <3>1. [history[r] EXCEPT !.list = history[r].list] = history[r]
      BY <1>1 DEF RunRow
    <3> QED BY <1>3, <2>3, <3>1
  <2> QED BY <1>1, <2>2, <2>3, <2>4 DEF RunRow
<1>4. ASSUME NEW e \in Executor, Finish(e), history'[r] # history[r]
      PROVE  /\ r = ex[e].run /\ history'[r].status = ex[e].verdict
             /\ history'[r].list = ex[e].results
  <2>1. history' = [history EXCEPT ![ex[e].run] = [history[ex[e].run] EXCEPT
                          !.status = ex[e].verdict, !.list = ex[e].results]]
    BY <1>4, FinishFacts
  <2>2. r = ex[e].run
    BY <1>1, <1>4, <2>1
  <2> QED BY <1>1, <2>1, <2>2 DEF RunRow
<1>5. ASSUME NEW e \in Executor, Recover(e), history'[r] # history[r]
      PROVE  r = ex[e].run /\ history'[r].status = "error" /\ history'[r].list = {}
  <2>1. history' = [history EXCEPT ![ex[e].run].status = "error", ![ex[e].run].list = {}]
    BY <1>5 DEF Recover
  <2>2. r = ex[e].run
    BY <1>1, <1>5, <2>1
  <2> QED BY <1>1, <2>1, <2>2 DEF RunRow
<1>6. ASSUME NEW q \in Run, RequestCancel(q) \/ ForceFinish(q), history'[r] # history[r]
      PROVE  /\ history'[r].list = history[r].list
             /\ history'[r].status \in {history[r].status, "cancelled"}
             /\ history[r].status = "running" \/ history[r].cancel = "asked"
  <2>1. r = q
    BY <1>1, <1>6 DEF RequestCancel, ForceFinish
  <2> QED BY <1>1, <1>6, <2>1 DEF RequestCancel, ForceFinish, RunRow
<1> QED BY <1>2, <1>3, <1>4, <1>5, <1>6, HistoryWriters

LEMMA NotesStep == TypeInv /\ NotesInv /\ [Next]_vars => NotesInv'
<1> SUFFICES ASSUME TypeInv, NotesInv, [Next]_vars PROVE NotesInv'
  OBVIOUS
<1>0. runs \in 0..MaxRuns /\ runs' \in 0..MaxRuns /\ MaxRuns \in Nat
  BY ExTypes, Bounds DEF TypeInv, TypeOK
<1>1. ASSUME NEW r \in Run PROVE Truly(history[r].list)'
  <2>1. history[r].list \subseteq Entry /\ Truly(history[r].list)
        /\ \A e \in Executor : ex[e].results \subseteq Entry /\ Truly(ex[e].results)
    <3>1. TypeOK /\ history[r] \in RunRow
      BY DEF TypeInv, TypeOK
    <3>2. ASSUME NEW e \in Executor PROVE ex[e].results \subseteq Entry
      BY <3>1, EntryTypes
    <3>3. Truly(history[r].list) /\ \A e \in Executor : Truly(ex[e].results)
      BY DEF NotesInv
    <3> QED BY <3>1, <3>2, <3>3 DEF RunRow
  <2>2. ASSUME NEW S \in SUBSET Entry, Truly(S)
        PROVE  \A x \in S : x[2] = "ok" =>
                 kind'[content'[x[1]]] = "empty" \/ commits'[content'[x[1]]] > 0
    <3>1. \A x \in S : x[1] \in File /\ content[x[1]] \in Content
      BY DEF Entry, TypeInv, TypeOK
    <3> QED BY <2>2, <3>1, CommitsGrow, FixedStays DEF Truly
  <2>3. \E S \in SUBSET Entry : Truly(S) /\ history'[r].list = S
    <3>1. {} \in SUBSET Entry /\ Truly({})
      BY DEF Truly
    <3>2. history'[r].list \in {{}, history[r].list} \cup {ex[e].results : e \in Executor}
      BY RowSteps
    <3> QED BY <2>1, <3>1, <3>2
  <2> QED BY <2>2, <2>3 DEF Truly
<1>2. Unused'
  <2> SUFFICES ASSUME NEW r \in Run, r > runs'
               PROVE history'[r].status = "none" /\ history'[r].list = {} /\ history'[r].cancel = "no"
    BY DEF Unused
  <2>1. runs' >= runs
    <3>1. ASSUME NEW e \in Executor, CreateRun(e) PROVE runs' >= runs
      BY <3>1, CreateFacts, SMTT(30)
    <3>2. (\E e \in Executor : CreateRun(e)) \/ runs' = runs
      BY ZenonT(40) DEF vars, Next, Execute, Administer, Arrive, Crash, Look, Quit, Claim,
         Settle, Write, WriteUnrecorded, Commit, LoadFails, Advance, Progress, Conclude, Finish,
         Status, Raise, Recover, GiveBack, RequestCancel, ForceFinish, ResetTs, DeleteRemote,
         RollbackRead, RollbackRows, RollbackKeys
    <3> QED BY <1>0, <3>1, <3>2
  <2>2. r > runs /\ history[r].status = "none" /\ history[r].list = {} /\ history[r].cancel = "no"
    BY <1>0, <2>1 DEF NotesInv, Unused, Run
  <2>3. \A e \in Executor : Progress(e) \/ Finish(e) \/ Recover(e) => ex[e].run \in 1..runs
    BY ProgressFacts, FinishFacts, RecoverFacts
  <2>4. r \in Nat
    BY <1>0 DEF Run
  <2>5. r # runs' /\ \A e \in Executor : Progress(e) \/ Finish(e) \/ Recover(e) => r # ex[e].run
    BY <1>0, <2>2, <2>3, <2>4
  <2>6. history'[r] = history[r]
    BY <2>2, <2>5, RowSteps
  <2> QED BY <2>2, <2>6
<1>3. Verdicts'
  <2> SUFFICES ASSUME NEW r \in Run
               PROVE  /\ history'[r].status = "success" => With(history'[r].list, "error") = {}
                      /\ history'[r].status = "skipped" => With(history'[r].list, "ok") = {}
    BY DEF Verdicts, With
  <2>1. /\ history[r].status = "success" => With(history[r].list, "error") = {}
        /\ history[r].status = "skipped" => With(history[r].list, "ok") = {}
    BY SMTT(30) DEF NotesInv, Verdicts
  <2>2. ASSUME NEW e \in Executor, Finish(e)
        PROVE  /\ ex[e].verdict = "success" => With(ex[e].results, "error") = {}
               /\ ex[e].verdict = "skipped" => With(ex[e].results, "ok") = {}
    BY <2>2, FinishFacts DEF NotesInv, Noted
  <2> QED BY <2>1, <2>2, RowSteps
<1> QED BY <1>1, <1>2, <1>3, NotedStep, ResultsTruly DEF NotesInv

(* What batch_run_history says of a run is so: a success has no failed file *)
(* and what it lists as loaded was committed.                               *)
THEOREM HistoryHolds == Spec => []HistoryIsTrue
<1> QED BY InitTypes, TypesKept, InitNotes, NotesStep, NotesTell, PTL DEF Spec

-----------------------------------------------------------------------------
(* What a step does to the record of any executor: nothing, but that its    *)
(* listing may have become stale, or its own step, or the process dies.     *)
Same(o) ==
  /\ ex'[o].pc = ex[o].pc /\ ex'[o].run = ex[o].run /\ ex'[o].pending = ex[o].pending
  /\ ex'[o].file = ex[o].file /\ ex'[o].results = ex[o].results
  /\ ex'[o].fresh => ex[o].fresh

LEMMA OneRecord ==
  ASSUME TypeInv, [Next]_vars, NEW o \in Executor
  PROVE  Same(o) \/ Execute(o) \/ (Crash /\ ex'[o] = Idle)
<1>1. ex \in [Executor -> Work] /\ ex[o] \in Work
  BY DEF TypeInv, TypeOK
<1>2. CASE ex'[o] = ex[o]
  BY <1>2 DEF Same
<1>3. ASSUME NEW e \in Executor, Execute(e), e # o PROVE Same(o)
  <2>1. CASE Claim(e)
    <3>1. CASE Alone(e)
      BY <1>3, <3>1 DEF Alone, Same
    <3>2. CASE ex' = [q \in Executor |->
                    IF q = e THEN [ex[e] EXCEPT !.pc = "create", !.fresh = @ /\ Others(e) = {}]
                    ELSE [ex[q] EXCEPT !.fresh = FALSE]]
      <4>1. ex'[o] = [ex[o] EXCEPT !.fresh = FALSE]
        BY <1>3, <3>2
      <4> QED BY <1>1, <4>1 DEF Same, Work
    <3>3. Set(e, Idle) => Alone(e)
      BY <1>1 DEF Set, Alone
    <3> QED BY <2>1, <3>1, <3>2, <3>3 DEF Claim
  <2>2. CASE ~Claim(e)
    BY <1>3, <2>2, ExecuteTypes DEF Executing, Same
  <2> QED BY <2>1, <2>2
<1>4. CASE Crash
  BY <1>4 DEF Crash
<1>5. CASE \E t \in 0..Cardinality(File) : ResetTs(t)
  <2>1. ex'[o] = [ex[o] EXCEPT !.fresh = FALSE]
    BY <1>5 DEF ResetTs
  <2> QED BY <1>1, <2>1 DEF Same, Work
<1>6. CASE \/ UNCHANGED vars \/ (\E f \in File : Arrive(f)) \/ (\E f \in File : DeleteRemote(f))
           \/ (\E r \in Run, f \in File : RollbackRead(r, f)) \/ RollbackRows \/ RollbackKeys
           \/ (\E r \in Run : RequestCancel(r) \/ ForceFinish(r))
  <2>1. ex' = ex
    BY <1>6 DEF vars, Arrive, DeleteRemote, RollbackRead, RollbackRows, RollbackKeys,
       RequestCancel, ForceFinish
  <2> QED BY <1>2, <2>1
<1> QED BY <1>3, <1>4, <1>5, <1>6 DEF Next, Administer

(* A run lists its files before it has a number; then they only get fewer.  *)
LEMMA PendingSteps ==
  ASSUME TypeInv, [Next]_vars, NEW o \in Executor
  PROVE  \/ ex'[o].run = NoRun
         \/ ex'[o].run = ex[o].run /\ ex'[o].pending \subseteq ex[o].pending
         \/ ex'[o].run = runs + 1 /\ runs \in Nat
<1>1. CASE Same(o) \/ ex'[o] = Idle
  BY <1>1, IdleType DEF Same
<1>2. CASE Look(o) \/ Quit(o) \/ Status(o) \/ GiveBack(o)
  BY <1>2, LookFacts, EndFacts, IdleType
<1>3. CASE Claim(o)
  BY <1>3, ClaimFacts, IdleType
<1>4. CASE CreateRun(o)
  BY <1>4, CreateFacts
<1>5. CASE Settle(o) \/ Write(o) \/ WriteUnrecorded(o)
  BY <1>5, SettleFacts, WriteFacts DEF Retains
<1>6. CASE Commit(o) \/ LoadFails(o)
  BY <1>6, CommitFacts, FailsFacts DEF Retains
<1>7. CASE Raise(o)
  BY <1>7, RaiseFacts DEF Retains, Holds
<1>8. CASE Recover(o)
  BY <1>8, RecoverFacts, SMTT(30)
<1>9. CASE Advance(o) \/ Progress(o) \/ Conclude(o) \/ Finish(o)
  BY <1>9, AdvanceFacts, ProgressFacts, ConcludeFacts, FinishFacts DEF Retains, Holds
<1> QED BY <1>1, <1>2, <1>3, <1>4, <1>5, <1>6, <1>7, <1>8, <1>9, OneRecord DEF Execute

LEMMA WritingSteps ==
  ASSUME TypeInv, [Next]_vars, NEW o \in Executor, ex'[o].pc = "write"
  PROVE  \/ ex[o].pc = "write" /\ ex'[o].run = ex[o].run /\ ex'[o].file = ex[o].file
         \/ Write(o) \/ WriteUnrecorded(o)
<1>1. CASE Same(o) \/ ex'[o] = Idle
  BY <1>1, IdleType DEF Same
<1>2. CASE Look(o) \/ Quit(o) \/ Status(o) \/ GiveBack(o) \/ Claim(o) \/ CreateRun(o)
  BY <1>2, LookFacts, EndFacts, IdleType, ClaimFacts, CreateFacts
<1>3. CASE Settle(o) \/ Commit(o) \/ LoadFails(o) \/ Raise(o) \/ Recover(o)
  BY <1>3, SettleFacts, CommitFacts, FailsFacts, RaiseFacts, RecoverFacts, SMTT(30)
<1>4. CASE Advance(o) \/ Progress(o) \/ Conclude(o) \/ Finish(o)
  BY <1>4, AdvanceFacts, ProgressFacts, ConcludeFacts, FinishFacts
<1> QED BY <1>1, <1>2, <1>3, <1>4, OneRecord DEF Execute

-----------------------------------------------------------------------------
(* The roll back of a file.  The keys of a load are recorded while it is    *)
(* being written and only a file that is not pending any more has some; a   *)
(* request that has read them still has all of them when it deletes them.   *)
Keyed(r, f) == <<r, f>> \in unkeyed \/ \A k \in KeysIn[content[f]] : <<r, f, k>> \in loadedKeys

KeysOfDone ==
  \A x \in loadedKeys :
    x[1] \in 1..runs /\ \A e \in Executor : ex[e].run = x[1] => x[2] \notin ex[e].pending
WrittenKeyed == \A e \in Executor : ex[e].pc = "write" => Keyed(ex[e].run, ex[e].file)
UndoReads ==
  undo.at # "none" =>
    /\ undo.keys = {k \in Key : <<undo.run, undo.file, k>> \in loadedKeys} /\ undo.keys # {}
UndoKeys ==
  undo.at = "keys" =>
    /\ \A k \in Key : target[k] = <<undo.run, undo.file>> => target[k] \in unkeyed
    /\ \A e \in Executor : ex[e].pc = "write" /\ ex[e].run = undo.run /\ ex[e].file = undo.file
                             => <<undo.run, undo.file>> \in unkeyed
RollInv == KeysOfDone /\ WrittenKeyed /\ UndoReads /\ UndoKeys /\ RowsCanBeRolledBack

LEMMA InitRoll == Init => RollInv
BY IdleType DEF Init, RollInv, KeysOfDone, WrittenKeyed, UndoReads, UndoKeys, RowsCanBeRolledBack, NoUndo

LEMMA UnkeyedGrows == TypeInv /\ [Next]_vars => unkeyed \subseteq unkeyed'
BY RowWriters DEF WriteUnrecorded, Commit, RollbackRows

(* Keys go in the last step of a roll back only.                            *)
LEMMA KeysGrow ==
  [Next]_vars /\ ~RollbackKeys => loadedKeys \subseteq loadedKeys'
BY KeyWriters DEF Write

(* The file that is rolled back is not pending in its run.                  *)
LEMMA UndoneIsDone ==
  ASSUME TypeInv, RollInv, undo.at # "none", NEW e \in Executor, ex[e].run = undo.run
  PROVE  undo.file \notin ex[e].pending /\ undo.file \in File
<1>1. PICK k \in Key : <<undo.run, undo.file, k>> \in loadedKeys
  BY DEF RollInv, UndoReads
<1> QED BY <1>1 DEF RollInv, KeysOfDone, TypeInv, TypeOK

LEMMA DoneStep == ASSUME TypeInv, RollInv, [Next]_vars PROVE KeysOfDone'
<1>0. runs \in 0..MaxRuns /\ runs' \in 0..MaxRuns /\ MaxRuns \in Nat /\ runs' >= runs
      /\ loadedKeys \subseteq Run \X File \X Key /\ OwnRuns
  <2>1. runs' >= runs
    <3>1. ASSUME NEW e \in Executor, CreateRun(e) PROVE runs' >= runs
      BY <3>1, CreateFacts, SMTT(30)
    <3>2. (\E e \in Executor : CreateRun(e)) \/ runs' = runs
      BY ZenonT(40) DEF vars, Next, Execute, Administer, Arrive, Crash, Look, Quit, Claim,
         Settle, Write, WriteUnrecorded, Commit, LoadFails, Advance, Progress, Conclude, Finish,
         Status, Raise, Recover, GiveBack, RequestCancel, ForceFinish, ResetTs, DeleteRemote,
         RollbackRead, RollbackRows, RollbackKeys
    <3>3. runs \in Nat
      BY Bounds DEF TypeInv, TypeOK
    <3> QED BY <3>1, <3>2, <3>3
  <2> QED BY <2>1, ExTypes, Bounds DEF TypeInv, TypeOK
<1>1. ASSUME NEW x \in loadedKeys
      PROVE  x[1] \in 1..runs' /\ \A o \in Executor : ex'[o].run = x[1] => x[2] \notin ex'[o].pending
  <2>1. x[1] \in 1..runs /\ \A o \in Executor : ex[o].run = x[1] => x[2] \notin ex[o].pending
    BY DEF RollInv, KeysOfDone
  <2>2. x[1] # NoRun /\ x[1] # runs + 1 /\ x[1] \in 1..runs'
    BY <1>0, <2>1 DEF NoRun
  <2> QED BY <2>1, <2>2, PendingSteps
<1>2. ASSUME NEW e \in Executor, Write(e), NEW x \in loadedKeys' \ loadedKeys
      PROVE  x[1] \in 1..runs' /\ \A o \in Executor : ex'[o].run = x[1] => x[2] \notin ex'[o].pending
  <2>1. PICK f \in Oldest(ex[e].pending) \cap File :
           /\ ex[e].pc = "next" /\ ex[e].run \in 1..runs
           /\ Retains(e) /\ ex'[e].pending = ex[e].pending \ {f}
           /\ \/ loadedKeys' = loadedKeys \cup {<<ex[e].run, f, k>> : k \in KeysIn[content[f]]}
              \/ loadedKeys' = loadedKeys
    BY <1>2, WriteFacts
  <2>2. x[1] = ex[e].run /\ x[2] = f
    BY <1>2, <2>1
  <2>3. ASSUME NEW o \in Executor, ex'[o].run = x[1] PROVE x[2] \notin ex'[o].pending
    <3>1. CASE o = e
      BY <2>1, <2>2, <3>1
    <3>2. CASE o # e
      <4>1. ex[o].run = ex[e].run
        BY <2>1, <2>2, <2>3, <3>2 DEF Retains, Alone
      <4>2. ex[o].run # NoRun
        BY <2>1, <4>1 DEF NoRun
      <4> QED BY <1>0, <3>2, <4>1, <4>2 DEF OwnRuns
    <3> QED BY <3>1, <3>2
  <2> QED BY <1>0, <2>1, <2>2, <2>3
<1> QED BY <1>1, <1>2, KeyWriters DEF KeysOfDone, RollbackKeys

LEMMA WrittenStep == ASSUME TypeInv, RollInv, [Next]_vars PROVE WrittenKeyed'
<1> SUFFICES ASSUME NEW e \in Executor, ex'[e].pc = "write"
             PROVE  Keyed(ex[e].run, ex[e].file)'
  BY DEF WrittenKeyed
<1>0. content' = content /\ unkeyed \subseteq unkeyed'
  BY FixedStays, UnkeyedGrows
<1>1. CASE ex[e].pc = "write" /\ ex'[e].run = ex[e].run /\ ex'[e].file = ex[e].file
  <2>1. Keyed(ex[e].run, ex[e].file)
    BY <1>1 DEF RollInv, WrittenKeyed
  <2>2. CASE ~RollbackKeys \/ <<ex[e].run, ex[e].file>> \in unkeyed
    BY <1>0, <1>1, <2>1, <2>2, KeysGrow DEF Keyed
  <2>3. CASE RollbackKeys /\ <<ex[e].run, ex[e].file>> \notin unkeyed
    <3>1. ex[e].run # undo.run \/ ex[e].file # undo.file
      BY <1>1, <2>3 DEF RollInv, UndoKeys, RollbackKeys
    <3>2. loadedKeys' = {x \in loadedKeys : x[1] # undo.run \/ x[2] # undo.file}
      BY <2>3 DEF RollbackKeys
    <3>3. \A k : <<ex[e].run, ex[e].file, k>> \in loadedKeys => <<ex[e].run, ex[e].file, k>> \in loadedKeys'
      BY <3>1, <3>2
    <3> QED BY <1>0, <1>1, <2>1, <2>3, <3>3 DEF Keyed
  <2> QED BY <2>2, <2>3
<1>2. CASE Write(e) \/ WriteUnrecorded(e)
  <2>1. PICK f \in Oldest(ex[e].pending) \cap File :
           /\ Retains(e) /\ ex'[e].file = f
           /\ \/ loadedKeys' = loadedKeys \cup {<<ex[e].run, f, k>> : k \in KeysIn[content[f]]}
              \/ unkeyed' = unkeyed \cup {<<ex[e].run, f>>}
    BY <1>2, WriteFacts
  <2> QED BY <1>0, <2>1 DEF Keyed, Retains
<1> QED BY <1>1, <1>2, WritingSteps

(* A new load is not of the run and file that are being rolled back.        *)
LEMMA NewLoads ==
  ASSUME TypeInv, RollInv, [Next]_vars, undo.at # "none", NEW e \in Executor, Write(e) \/ WriteUnrecorded(e)
  PROVE  /\ ~(ex'[e].run = undo.run /\ ex'[e].file = undo.file)
         /\ \A k \in Key : <<undo.run, undo.file, k>> \in loadedKeys' <=> <<undo.run, undo.file, k>> \in loadedKeys
<1>1. PICK f \in Oldest(ex[e].pending) \cap File :
           /\ Retains(e) /\ ex'[e].file = f
           /\ \/ loadedKeys' = loadedKeys \cup {<<ex[e].run, f, k>> : k \in KeysIn[content[f]]}
              \/ loadedKeys' = loadedKeys
  BY WriteFacts
<1>2. ~(ex[e].run = undo.run /\ f = undo.file)
  BY <1>1, UndoneIsDone DEF Oldest
<1> QED BY <1>1, <1>2 DEF Retains

LEMMA UndoReadsStep == ASSUME TypeInv, RollInv, [Next]_vars PROVE UndoReads'
<1>1. CASE undo' = undo /\ undo.at # "none"
  <2>1. \A k \in Key : <<undo.run, undo.file, k>> \in loadedKeys' <=> <<undo.run, undo.file, k>> \in loadedKeys
    <3>1. ~RollbackKeys
      BY <1>1 DEF RollbackKeys, NoUndo
    <3> QED BY <1>1, <3>1, KeyWriters, NewLoads
  <2> QED BY <1>1, <2>1 DEF RollInv, UndoReads
<1>2. CASE undo' = undo /\ undo.at = "none"
  BY <1>2 DEF UndoReads
<1>3. CASE \E r \in Run, f \in File : RollbackRead(r, f)
  BY <1>3, SMTT(30) DEF RollbackRead, UndoReads
<1>4. CASE RollbackRows
  <2>1. undo' = [undo EXCEPT !.at = "keys"] /\ loadedKeys' = loadedKeys /\ undo.at = "rows"
    BY <1>4 DEF RollbackRows
  <2>2. undo'.run = undo.run /\ undo'.file = undo.file /\ undo'.keys = undo.keys
    BY <2>1 DEF TypeInv, TypeOK
  <2> QED BY <2>1, <2>2 DEF RollInv, UndoReads
<1>5. CASE RollbackKeys \/ Crash
  BY <1>5 DEF RollbackKeys, Crash, NoUndo, UndoReads
<1> QED BY <1>1, <1>2, <1>3, <1>4, <1>5, UndoWriters

LEMMA UndoKeysStep == ASSUME TypeInv, RollInv, [Next]_vars PROVE UndoKeys'
<1>0. target \in [Key -> (Run \X File) \cup {NoRow}] /\ unkeyed \subseteq unkeyed'
      /\ loadedKeys \subseteq Run \X File \X Key
  BY UnkeyedGrows DEF TypeInv, TypeOK
<1>1. CASE RollbackRows
  <2>1. /\ undo.at = "rows" /\ ex' = ex
        /\ target' = [k \in Key |-> IF k \in undo.keys THEN NoRow ELSE target[k]]
        /\ undo' = [undo EXCEPT !.at = "keys"]
        /\ unkeyed' = unkeyed \cup
             (IF \E e \in Executor : At(e, "write") /\ ex[e].run = undo.run /\ ex[e].file = undo.file
              THEN {<<undo.run, undo.file>>} ELSE {})
    BY <1>1 DEF RollbackRows
  <2>2. undo'.run = undo.run /\ undo'.file = undo.file
    BY <2>1 DEF TypeInv, TypeOK
  <2>3. undo.file \in File /\ <<undo.run, undo.file>> # NoRow
    <3>1. \E k \in Key : <<undo.run, undo.file, k>> \in loadedKeys
      BY <2>1 DEF RollInv, UndoReads
    <3>2. undo.file \in File
      BY <1>0, <3>1
    <3> QED BY <3>2, Bounds DEF NoRow
  <2>4. ASSUME NEW k \in Key, target'[k] = <<undo.run, undo.file>> PROVE target'[k] \in unkeyed'
    <3>1. k \notin undo.keys /\ target[k] = <<undo.run, undo.file>> /\ target[k] # NoRow
      BY <2>1, <2>3, <2>4
    <3>2. <<undo.run, undo.file, k>> \notin loadedKeys
      BY <2>1, <3>1 DEF RollInv, UndoReads
    <3>3. target[k] \in unkeyed
      BY <3>1, <3>2 DEF RollInv, RowsCanBeRolledBack
    <3> QED BY <1>0, <2>4, <3>1, <3>3
  <2>5. \A e \in Executor : ex'[e].pc = "write" /\ ex'[e].run = undo.run /\ ex'[e].file = undo.file
                             => <<undo.run, undo.file>> \in unkeyed'
    BY <2>1 DEF At
  <2> QED BY <2>2, <2>4, <2>5 DEF UndoKeys
<1>2. CASE undo' = undo /\ undo.at = "keys" /\ ~RollbackRows
  <2>1. ASSUME NEW k \in Key, target'[k] = <<undo.run, undo.file>> PROVE target'[k] \in unkeyed'
    <3>1. target'[k] = target[k] \/ \E e \in Executor : Commit(e) /\ target'[k] = <<ex[e].run, ex[e].file>>
      BY <1>0, <1>2, RowWriters DEF WriteUnrecorded, Commit
    <3>2. ASSUME NEW e \in Executor, Commit(e), target'[k] = <<ex[e].run, ex[e].file>>
          PROVE  <<undo.run, undo.file>> \in unkeyed
      BY <1>2, <2>1, <3>2, CommitFacts DEF RollInv, UndoKeys
    <3> QED BY <1>0, <1>2, <2>1, <3>1, <3>2 DEF RollInv, UndoKeys
  <2>2. ASSUME NEW e \in Executor, ex'[e].pc = "write", ex'[e].run = undo.run, ex'[e].file = undo.file
        PROVE  <<undo.run, undo.file>> \in unkeyed'
    <3>1. undo.at # "none"
      BY <1>2
    <3>2. ~(Write(e) \/ WriteUnrecorded(e))
      BY <2>2, <3>1, NewLoads
    <3>3. ex[e].pc = "write" /\ ex[e].run = undo.run /\ ex[e].file = undo.file
      BY <2>2, <3>2, WritingSteps
    <3> QED BY <1>0, <1>2, <3>3 DEF RollInv, UndoKeys
  <2> QED BY <1>2, <2>1, <2>2 DEF UndoKeys
<1>3. CASE undo'.at # "keys"
  BY <1>3 DEF UndoKeys
<1>4. ASSUME NEW r \in Run, NEW f \in File, RollbackRead(r, f) PROVE undo'.at # "keys"
  BY <1>4 DEF RollbackRead
<1>5. ASSUME RollbackKeys \/ Crash PROVE undo'.at # "keys"
  BY <1>5 DEF RollbackKeys, Crash, NoUndo
<1> QED BY <1>1, <1>2, <1>3, <1>4, <1>5, UndoWriters

LEMMA RowsStep == ASSUME TypeInv, RollInv, [Next]_vars PROVE RowsCanBeRolledBack'
<1> SUFFICES ASSUME NEW k \in Key, target'[k] # NoRow
             PROVE  <<target'[k][1], target'[k][2], k>> \in loadedKeys' \/ target'[k] \in unkeyed'
  BY DEF RowsCanBeRolledBack
<1>0. target \in [Key -> (Run \X File) \cup {NoRow}] /\ unkeyed \subseteq unkeyed'
  BY UnkeyedGrows DEF TypeInv, TypeOK
<1>1. CASE target'[k] = target[k]
  <2>1. target[k] \in Run \X File
    BY <1>0, <1>1
  <2>2. <<target[k][1], target[k][2], k>> \in loadedKeys \/ target[k] \in unkeyed
    BY <1>1 DEF RollInv, RowsCanBeRolledBack
  <2>3. CASE ~RollbackKeys \/ target[k] \in unkeyed
    BY <1>0, <1>1, <2>2, <2>3, KeysGrow
  <2>4. CASE RollbackKeys /\ target[k] \notin unkeyed
    <3>1. target[k] # <<undo.run, undo.file>>
      BY <2>4 DEF RollInv, UndoKeys, RollbackKeys
    <3>2. target[k][1] # undo.run \/ target[k][2] # undo.file
      BY <2>1, <3>1
    <3>3. loadedKeys' = {x \in loadedKeys : x[1] # undo.run \/ x[2] # undo.file}
      BY <2>4 DEF RollbackKeys
    <3> QED BY <1>1, <2>2, <2>4, <3>2, <3>3
  <2> QED BY <2>3, <2>4
<1>2. ASSUME NEW e \in Executor, Commit(e), target'[k] # target[k]
      PROVE  <<target'[k][1], target'[k][2], k>> \in loadedKeys' \/ target'[k] \in unkeyed'
  <2>1. target'[k] = <<ex[e].run, ex[e].file>> /\ k \in KeysIn[content[ex[e].file]] /\ loadedKeys' = loadedKeys
    BY <1>2 DEF Commit
  <2>2. Keyed(ex[e].run, ex[e].file)
    BY <1>2, CommitFacts DEF RollInv, WrittenKeyed
  <2> QED BY <1>0, <2>1, <2>2 DEF Keyed
<1>3. ASSUME RollbackRows PROVE target'[k] \in {NoRow, target[k]}
  BY <1>3 DEF RollbackRows
<1> QED BY <1>1, <1>2, <1>3, RowWriters DEF WriteUnrecorded

LEMMA RollStep == TypeInv /\ RollInv /\ [Next]_vars => RollInv'
BY DoneStep, WrittenStep, UndoReadsStep, UndoKeysStep, RowsStep DEF RollInv

(* A row of the target is found by rollback_file_from_target under the run  *)
(* and the file that wrote it, with roll backs and loads in any order.      *)
THEOREM RowsFound == Spec => []RowsCanBeRolledBack
<1>1. RollInv => RowsCanBeRolledBack
  BY DEF RollInv
<1> QED BY <1>1, InitTypes, TypesKept, InitRoll, RollStep, PTL DEF Spec

-----------------------------------------------------------------------------
(* A listing that is not stale: nobody else works, and the checkpoint, the  *)
(* file in hand and the files to come follow each other in time.            *)
Quiet == {"idle", "quit", "claim", "giveback"}
InOrder(w) ==
  /\ \A f \in w.pending : checkpoint <= Ts[f]
  /\ w.file \in File => checkpoint <= Ts[w.file] /\ \A f \in w.pending : Ts[w.file] <= Ts[f]
FreshInv ==
  \A e \in Executor : ex[e].fresh /\ ex[e].pc \notin {"idle", "quit", "giveback"} =>
    InOrder(ex[e]) /\ \A o \in Executor \ {e} : ex[o].pc \in Quiet

LEMMA InitFresh == Init => FreshInv
BY IdleType DEF Init, FreshInv

LEMMA ClaimFresh ==
  ASSUME TypeInv, NEW e \in Executor, Claim(e), NEW o \in Executor
  PROVE  ex'[o].fresh => ex[o].fresh
<1>1. ex \in [Executor -> Work] /\ ex[o] \in Work
  BY DEF TypeInv, TypeOK
<1>2. CASE Set(e, Idle)
  <2>1. ex'[o] = (IF o = e THEN Idle ELSE ex[o])
    BY <1>1, <1>2 DEF Set
  <2> QED BY <2>1 DEF Idle
<1>3. CASE ex' = [q \in Executor |->
                    IF q = e THEN [ex[e] EXCEPT !.pc = "create", !.fresh = @ /\ Others(e) = {}]
                    ELSE [ex[q] EXCEPT !.fresh = FALSE]]
  <2> DEFINE b == ex[e].fresh /\ Others(e) = {}
  <2>1. ex'[e] = [ex[e] EXCEPT !.pc = "create", !.fresh = b]
    BY <1>3
  <2>2. o # e => ex'[o] = [ex[o] EXCEPT !.fresh = FALSE]
    BY <1>3
  <2>3. b => ex[e].fresh
    OBVIOUS
  <2> HIDE DEF b
  <2>4. CASE o = e
    <3>1. ex'[o] = [ex[o] EXCEPT !.pc = "create", !.fresh = b]
      BY <2>1, <2>4
    <3> QED BY <1>1, <2>3, <2>4, <3>1 DEF Work
  <2>5. CASE o # e
    BY <1>1, <2>2, <2>5 DEF Work
  <2> QED BY <2>4, <2>5
<1> QED BY <1>2, <1>3 DEF Claim

(* Who does not work begins to by a claim only, which makes every other     *)
(* listing stale.                                                           *)
LEMMA QuietSteps ==
  ASSUME TypeInv, [Next]_vars, NEW q \in Executor, ex[q].pc \in Quiet
  PROVE  ex'[q].pc \in Quiet \/ Claim(q)
<1>1. CASE Same(q) \/ ex'[q] = Idle
  BY <1>1, IdleType DEF Same, Quiet
<1>2. CASE Look(q) \/ Quit(q) \/ Status(q) \/ GiveBack(q)
  BY <1>2, LookFacts, EndFacts, IdleType DEF Quiet
<1>3. CASE CreateRun(q) \/ Settle(q) \/ Write(q) \/ WriteUnrecorded(q) \/ Commit(q) \/ LoadFails(q)
           \/ Advance(q) \/ Progress(q) \/ Conclude(q) \/ Finish(q) \/ Recover(q)
  <2>1. ex[q].pc \in {"create", "next", "write", "advance", "progress", "finish", "recover"}
    BY <1>3 DEF CreateRun, Settle, Write, WriteUnrecorded, Commit, LoadFails, Advance, Progress,
       Conclude, Finish, Recover, MayGoOn, At
  <2> QED BY <2>1, SMTT(30) DEF Quiet
<1>4. CASE Raise(q)
  BY <1>4, RaiseFacts DEF Quiet
<1> QED BY <1>1, <1>2, <1>3, <1>4, OneRecord DEF Execute

LEMMA FreshStep == TypeInv /\ FreshInv /\ [Next]_vars => FreshInv'
<1> SUFFICES ASSUME TypeInv, FreshInv, [Next]_vars, NEW e \in Executor,
                    ex'[e].fresh, ex'[e].pc \notin {"idle", "quit", "giveback"}
             PROVE  InOrder(ex[e])' /\ \A o \in Executor \ {e} : ex'[o].pc \in Quiet
  BY DEF FreshInv
<1>0. ex[e] \in Work /\ ex[e].pending \subseteq File /\ checkpoint \in Nat
      /\ (ex[e].pc \notin {"idle", "quit", "giveback"} /\ ex[e].fresh
            => InOrder(ex[e]) /\ \A o \in Executor \ {e} : ex[o].pc \in Quiet)
  BY DEF TypeInv, TypeOK, FreshInv, Work
<1>1. ASSUME NEW o \in Executor \ {e}, ex[o].pc \in Quiet PROVE ex'[o].pc \in Quiet
  <2>1. CASE Claim(o)
    BY <1>1, <2>1, ClaimFacts, IdleType DEF Quiet
  <2> QED BY <1>1, <2>1, QuietSteps
<1>2. CASE Same(e)
  <2>1. InOrder(ex[e]) /\ \A o \in Executor \ {e} : ex[o].pc \in Quiet
    BY <1>0, <1>2 DEF Same
  <2>2. checkpoint' = checkpoint
    <3>1. ASSUME NEW q \in Executor, Advance(q) PROVE FALSE
      <4>1. ex[q].pc = "advance" /\ ex'[q].pc # "advance"
        BY <3>1, AdvanceFacts
      <4> QED BY <1>2, <2>1, <4>1 DEF Quiet, Same
    <3>2. ASSUME NEW t \in 0..Cardinality(File), ResetTs(t) PROVE FALSE
      <4>1. ex'[e] = [ex[e] EXCEPT !.fresh = FALSE]
        BY <3>2 DEF ResetTs
      <4> QED BY <1>0, <4>1 DEF Work
    <3> QED BY <3>1, <3>2, CheckpointWriters
  <2> QED BY <1>1, <1>2, <2>1, <2>2 DEF Same, InOrder
<1>3. CASE Look(e)
  <2>1. /\ Alone(e) /\ ex'[e].pending = Pending /\ ex'[e].file = NoFile /\ Others(e) = {}
        /\ checkpoint' = checkpoint
    BY <1>3, LookFacts DEF Look
  <2>2. \A f \in Pending : checkpoint <= Ts[f]
    <3>1. folder \subseteq File
      BY DEF TypeInv, TypeOK
    <3> QED BY <1>0, <3>1, Bounds DEF Pending
  <2> QED BY <2>1, <2>2, Bounds DEF Alone, Others, InOrder, Quiet
<1>4. CASE Claim(e)
  <2>1. ex[e].fresh /\ checkpoint' = checkpoint /\ ex[e].pc = "claim"
    BY <1>4, ClaimFresh, ClaimFacts DEF Claim
  <2>2. ex'[e].pending = ex[e].pending /\ ex'[e].file = ex[e].file
    BY <1>4, ClaimFacts, IdleType
  <2> QED BY <1>0, <1>1, <2>1, <2>2, SMTT(30) DEF InOrder
<1>5. ASSUME Alone(e), ex'[e].fresh = ex[e].fresh, ex[e].pc \notin {"idle", "quit", "giveback"}
      PROVE  InOrder(ex[e]) /\ \A o \in Executor \ {e} : ex'[o].pc \in Quiet
  BY <1>0, <1>5 DEF Alone
<1>6. CASE CreateRun(e) \/ Progress(e) \/ Conclude(e) \/ Finish(e)
  <2>1. checkpoint' = checkpoint /\ Alone(e) /\ ex'[e].fresh = ex[e].fresh /\ Holds(e)
        /\ ex[e].pc \notin {"idle", "quit", "giveback"}
    BY <1>6, CreateFacts, ProgressFacts, ConcludeFacts, FinishFacts
       DEF CreateRun, Progress, Conclude, Finish, Retains
  <2> QED BY <1>5, <2>1 DEF InOrder, Holds
<1>7. CASE Settle(e) \/ Write(e) \/ WriteUnrecorded(e)
  <2>1. PICK f \in Oldest(ex[e].pending) \cap File :
          /\ ex[e].pc = "next" /\ Retains(e) /\ ex'[e].file = f
          /\ ex'[e].pending = ex[e].pending \ {f}
    BY <1>7, SettleFacts, WriteFacts
  <2>2. checkpoint' = checkpoint
    BY <1>7 DEF Settle, Write, WriteUnrecorded
  <2>3. InOrder(ex[e]) /\ \A o \in Executor \ {e} : ex'[o].pc \in Quiet
    BY <1>5, <2>1 DEF Retains
  <2> QED BY <2>1, <2>2, <2>3 DEF InOrder, Oldest
<1>8. CASE Commit(e) \/ LoadFails(e)
  <2>1. /\ ex[e].pc = "write" /\ Retains(e) /\ ex'[e].file = ex[e].file
        /\ ex'[e].pending \subseteq ex[e].pending
    BY <1>8, CommitFacts, FailsFacts
  <2>2. checkpoint' = checkpoint
    BY <1>8 DEF Commit, LoadFails
  <2>3. InOrder(ex[e]) /\ \A o \in Executor \ {e} : ex'[o].pc \in Quiet
    BY <1>5, <2>1 DEF Retains
  <2> QED BY <2>1, <2>2, <2>3 DEF InOrder
<1>9. CASE Raise(e)
  <2>1. /\ Retains(e) /\ ex'[e].file = ex[e].file /\ ex'[e].pending \subseteq ex[e].pending
        /\ ex[e].pc \notin {"idle", "quit", "giveback"}
    BY <1>9, RaiseFacts DEF Holds
  <2>2. checkpoint' = checkpoint
    BY <1>9 DEF Raise
  <2>3. InOrder(ex[e]) /\ \A o \in Executor \ {e} : ex'[o].pc \in Quiet
    BY <1>5, <2>1 DEF Retains
  <2> QED BY <2>1, <2>2, <2>3 DEF InOrder
<1>10. CASE Advance(e)
  <2>1. /\ ex[e].pc = "advance" /\ ex[e].file \in File /\ Retains(e) /\ Holds(e)
        /\ checkpoint' = Ts[ex[e].file]
    BY <1>10, AdvanceFacts
  <2>2. InOrder(ex[e]) /\ \A o \in Executor \ {e} : ex'[o].pc \in Quiet
    BY <1>5, <2>1 DEF Retains
  <2>3. Ts[ex[e].file] <= Ts[ex[e].file]
    BY <2>1, Bounds
  <2> QED BY <2>1, <2>2, <2>3 DEF InOrder, Holds
<1>11. CASE Quit(e) \/ Status(e) \/ GiveBack(e) \/ Recover(e) \/ ex'[e] = Idle
  BY <1>11, EndFacts, RecoverFacts, IdleType
<1> QED BY <1>2, <1>3, <1>4, <1>6, <1>7, <1>8, <1>9, <1>10, <1>11, OneRecord DEF Execute

(* update_last_processed_ts of an executor whose listing is not stale never *)
(* moves the checkpoint back.                                               *)
THEOREM CheckpointsAdvance == Spec => CheckpointAdvances
<1> DEFINE A == \A e \in Executor :
       At(e, "advance") /\ ex[e].fresh /\ ex'[e].pc \in {"progress", "finish"}
         => checkpoint' >= checkpoint
<1>1. ASSUME TypeInv, FreshInv, [Next]_vars PROVE A
  <2> SUFFICES ASSUME NEW e \in Executor, ex[e].pc = "advance", ex[e].fresh,
                      ex'[e].pc \in {"progress", "finish"}
               PROVE  checkpoint' >= checkpoint
    BY DEF At
  <2>1. CASE Advance(e)
    <3>1. checkpoint' = Ts[ex[e].file] /\ ex[e].file \in File /\ InOrder(ex[e])
      BY <1>1, <2>1, AdvanceFacts DEF FreshInv
    <3>2. checkpoint \in Nat /\ Ts[ex[e].file] \in Nat
      BY <1>1, <3>1, Bounds DEF TypeInv, TypeOK
    <3> QED BY <3>1, <3>2 DEF InOrder
  <2>2. CASE Same(e) \/ ex'[e] = Idle
    BY <2>2, IdleType DEF Same
  <2>3. CASE Look(e) \/ Quit(e) \/ Status(e) \/ GiveBack(e) \/ Claim(e) \/ CreateRun(e)
             \/ Settle(e) \/ Write(e) \/ WriteUnrecorded(e) \/ Commit(e) \/ LoadFails(e)
             \/ Progress(e) \/ Conclude(e) \/ Finish(e) \/ Recover(e)
    BY <2>3 DEF Look, Quit, Status, GiveBack, Claim, CreateRun, Settle, Write, WriteUnrecorded,
       Commit, LoadFails, Progress, Conclude, Finish, Recover, At, MayGoOn
  <2>4. CASE Raise(e)
    BY <1>1, <2>4, RaiseFacts
  <2> QED BY <1>1, <2>1, <2>2, <2>3, <2>4, OneRecord DEF Execute
<1> QED BY <1>1, InitTypes, TypesKept, InitFresh, FreshStep, PTL DEF Spec, CheckpointAdvances

-----------------------------------------------------------------------------
(* A result that somebody knows stays known, in the history or by its       *)
(* executor; one that is lost by a failure is named: the content that was   *)
(* loaded in loose, the file that was not in excused.                       *)
Known(x) == x \in Listed \/ \E e \in Executor : x \in ex[e].results
LostWith(x) == IF x[2] = "ok" THEN content[x[1]] \in loose' ELSE x[1] \in excused'

LEMMA LostInForgotten ==
  ASSUME NEW S \in SUBSET Executor, Forgotten(S), NEW e \in S, NEW x, x \in Unwritten(e)
  PROVE  LostWith(x)
<1>1. CASE x[2] = "ok"
  <2>1. x[1] \in Files(With(Unwritten(e), "ok"))
    BY <1>1 DEF Files, With
  <2>2. content[x[1]] \in UNION {{content[f] : f \in Files(With(Unwritten(o), "ok"))} : o \in S}
    BY <2>1
  <2> QED BY <1>1, <2>2 DEF Forgotten, LostWith
<1>2. CASE x[2] # "ok"
  <2>1. x[1] \in Files(Unwritten(e) \ With(Unwritten(e), "ok"))
    BY <1>2 DEF Files, With
  <2>2. x[1] \in UNION {Files(Unwritten(o) \ With(Unwritten(o), "ok")) : o \in S}
    BY <2>1
  <2> QED BY <1>2, <2>2 DEF Forgotten, LostWith
<1> QED BY <1>1, <1>2

LEMMA LostInRecover ==
  ASSUME TypeInv, NEW e \in Executor, Recover(e), NEW x,
         x \in Unwritten(e) \/ (x \in history[ex[e].run].list /\ history' # history)
  PROVE  LostWith(x)
<1> DEFINE gone == history[ex[e].run].list \cup ex[e].results
<1>1. CASE Forgotten({e}) /\ history' = history
  BY <1>1, LostInForgotten
<1>2. CASE /\ excused' = excused \cup Files(gone \ With(gone, "ok")) \cup PassedBy({e})
           /\ loose' = loose \cup {content[f] : f \in Files(With(gone, "ok"))}
  <2>1. x \in gone
    BY DEF Unwritten
  <2> HIDE DEF gone
  <2>2. CASE x[2] = "ok"
    <3>1. x[1] \in Files(With(gone, "ok"))
      BY <2>1, <2>2 DEF Files, With
    <3> QED BY <1>2, <2>2, <3>1 DEF LostWith
  <2>3. CASE x[2] # "ok"
    <3>1. x[1] \in Files(gone \ With(gone, "ok"))
      BY <2>1, <2>3 DEF Files, With
    <3> QED BY <1>2, <2>3, <3>1 DEF LostWith
  <2> QED BY <2>2, <2>3
<1> QED BY <1>1, <1>2 DEF Recover

LEMMA KnownStays ==
  ASSUME TypeInv, NotesInv, [Next]_vars, NEW x, Known(x)
  PROVE  Known(x)' \/ LostWith(x)
<1>1. ASSUME NEW r \in Run, x \in history[r].list
      PROVE  Known(x)' \/ LostWith(x)
  <2>1. CASE history'[r].list = history[r].list
    BY <1>1, <2>1 DEF Known, Listed
  <2>2. ASSUME NEW e \in Executor, r = ex[e].run, Progress(e) \/ Finish(e), history'[r].list = ex[e].results
        PROVE  Known(x)'
    <3>1. ex[e].pc \in {"progress", "finish"}
      BY <2>2 DEF Progress, Finish, At
    <3>2. history[r].list \subseteq ex[e].results
      BY <2>2, <3>1 DEF NotesInv, Noted
    <3> QED BY <1>1, <2>2, <3>2 DEF Known, Listed
  <2>3. ASSUME NEW e \in Executor, r = ex[e].run, Recover(e), history'[r].list = {}
        PROVE  LostWith(x)
    <3>1. history' # history
      BY <1>1, <2>3
    <3> QED BY <1>1, <2>3, <3>1, LostInRecover
  <2>4. history'[r] = history[r] => history'[r].list = history[r].list
    OBVIOUS
  <2>5. history[r].list # {}
    BY <1>1
  <2> QED BY <2>1, <2>2, <2>3, <2>4, <2>5, RowSteps
<1>2. ASSUME NEW e \in Executor, x \in ex[e].results, x \notin Listed
      PROVE  Known(x)' \/ LostWith(x)
  <2>0. x \in Unwritten(e) /\ Control(ex[e])
    BY <1>2 DEF Unwritten, TypeInv
  <2>1. CASE ex[e].results \subseteq ex'[e].results
    BY <1>2, <2>1 DEF Known
  <2>2. CASE Same(e)
    BY <2>1, <2>2 DEF Same
  <2>3. CASE Crash
    <3>1. Forgotten(Executor)
      BY <2>3 DEF Crash
    <3> QED BY <2>0, <3>1, LostInForgotten
  <2>4. CASE Look(e) \/ Quit(e) \/ Claim(e) \/ CreateRun(e) \/ GiveBack(e)
    <3>1. ex[e].pc \in Before \cup {"giveback"}
      BY <2>4 DEF Look, Quit, Claim, CreateRun, GiveBack, At, Before
    <3> QED BY <1>2, <2>0, <3>1 DEF Control
  <2>5. CASE Status(e)
    <3>1. ex[e].pc = "status"
      BY <2>5 DEF Status, At
    <3>2. ex[e].results \subseteq history[ex[e].run].list /\ ex[e].run \in Run
      <4>1. ex[e].run \in 1..runs /\ runs \in 0..MaxRuns
        BY <2>0, <3>1 DEF Control, Working, TypeInv, TypeOK
      <4> QED BY <3>1, <4>1, Bounds DEF NotesInv, Noted, Run
    <3> QED BY <1>2, <3>2 DEF Listed
  <2>6. CASE Recover(e)
    BY <2>0, <2>6, LostInRecover
  <2>7. CASE Settle(e) \/ Write(e) \/ WriteUnrecorded(e)
    <3>1. ex[e].results \subseteq ex'[e].results
      BY <2>7, SettleFacts, WriteFacts
    <3> QED BY <2>1, <3>1
  <2>8. CASE Commit(e) \/ LoadFails(e) \/ Raise(e)
    <3>1. ex[e].results \subseteq ex'[e].results
      BY <2>8, CommitFacts, FailsFacts, RaiseFacts, SMTT(30) DEF Holds
    <3> QED BY <2>1, <3>1
  <2>9. CASE Advance(e) \/ Progress(e) \/ Conclude(e) \/ Finish(e)
    <3>1. ex[e].results \subseteq ex'[e].results
      BY <2>9, AdvanceFacts, ProgressFacts, ConcludeFacts, FinishFacts DEF Holds
    <3> QED BY <2>1, <3>1
  <2> QED BY <2>2, <2>3, <2>4, <2>5, <2>6, <2>7, <2>8, <2>9, OneRecord DEF Execute
<1> QED BY <1>1, <1>2 DEF Known, Listed

-----------------------------------------------------------------------------
(* A content that was committed is known as loaded, so that nobody loads it *)
(* again: nobody is writing it, and one that nobody committed is being      *)
(* written by one executor at most.                                         *)
Writes(e, c) == ex[e].pc = "write" /\ content[ex[e].file] = c
OnceOf(c) ==
  /\ commits[c] <= 1
  /\ commits[c] > 0 => \E f \in File : content[f] = c /\ Known(<<f, "ok">>)
  /\ \A e \in Executor : Writes(e, c) =>
       commits[c] = 0 /\ \A o \in Executor : Writes(o, c) => o = e
OnceInv == \A c \in Content \ loose : OnceOf(c)

LEMMA InitOnce == Init => OnceInv
BY IdleType DEF Init, OnceInv, OnceOf, Writes

LEMMA LooseGrows == [Next]_vars => loose \subseteq loose'
BY LooseWriters DEF Write, WriteUnrecorded, Recover, Forgotten, Crash

(* What is not a duplicate and that nobody else loads was never committed.  *)
LEMMA NewContent ==
  ASSUME TypeInv, NotesInv, OnceInv, NEW e \in Executor, ex[e].pc = "next",
         history[ex[e].run].cancel = "no", NEW f \in File, Outcome(f) = "ok", ~AlsoLoading(e, f),
         content[f] \notin loose
  PROVE  commits[content[f]] = 0
<1>0. content[f] \in Content /\ commits[content[f]] \in Nat /\ OnceOf(content[f])
  BY DEF OnceInv, TypeInv, TypeOK
<1>1. ASSUME NEW g \in File, content[g] = content[f], Known(<<g, "ok">>) PROVE FALSE
  <2>1. <<g, "ok">> \notin Listed
    <3>1. ~Duplicate(f)
      BY DEF Outcome
    <3> QED BY <1>1, <3>1 DEF Duplicate, Files, With
  <2>2. PICK o \in Executor : <<g, "ok">> \in ex[o].results
    BY <1>1, <2>1 DEF Known
  <2>3. o = e
    <3>1. <<g, "ok">> \in Unwritten(o)
      BY <2>1, <2>2 DEF Unwritten
    <3>2. g \in Files(With(Unwritten(o), "ok"))
      BY <3>1 DEF Files, With
    <3> QED BY <1>1, <3>2 DEF AlsoLoading
  <2>4. ex[e].results \subseteq history[ex[e].run].list
    BY DEF NotesInv, Noted
  <2>5. ex[e].run \in Run
    <3>1. Control(ex[e]) /\ runs \in 0..MaxRuns
      BY DEF TypeInv, TypeOK
    <3> QED BY <3>1, Bounds DEF Control, Working, Run
  <2>6. <<g, "ok">> \in history[ex[e].run].list
    BY <2>2, <2>3, <2>4
  <2>7. history[ex[e].run].list \subseteq Listed
    <3>1. history[ex[e].run].list \in {history[r].list : r \in Run}
      BY <2>5
    <3> QED BY <3>1 DEF Listed
  <2> QED BY <2>1, <2>6, <2>7
<1>2. ~(commits[content[f]] > 0)
  <2>1. ~\E g \in File : content[g] = content[f] /\ Known(<<g, "ok">>)
    BY <1>1
  <2> DEFINE c == content[f]
  <2>2. OnceOf(c)
    BY <1>0
  <2>3. commits[c] > 0 => \E g \in File : content[g] = c /\ Known(<<g, "ok">>)
    <3> HIDE DEF c
    <3> QED BY <2>2 DEF OnceOf
  <2> QED BY <2>1, <2>3
<1> QED BY <1>0, <1>2

(* Who is writing a content now was before, or begins to.                   *)
LEMMA OnceStep == TypeInv /\ NotesInv /\ OnceInv /\ [Next]_vars => OnceInv'
<1> SUFFICES ASSUME TypeInv, NotesInv, OnceInv, [Next]_vars, NEW c \in Content, c \notin loose'
             PROVE  OnceOf(c)'
  BY DEF OnceInv
<1>0. /\ content' = content /\ c \notin loose /\ OnceOf(c)
      /\ commits \in [Content -> Nat] /\ commits[c] \in Nat /\ content \in [File -> Content]
  BY FixedStays, LooseGrows DEF OnceInv, TypeInv, TypeOK
<1>1. ASSUME NEW e \in Executor, Commit(e), content[ex[e].file] = c
      PROVE  OnceOf(c)'
  <2>1. /\ ex[e].pc = "write" /\ ex[e].file \in File /\ Retains(e) /\ ex'[e].pc = "advance"
        /\ ex'[e].results = ex[e].results \cup {<<ex[e].file, "ok">>}
    BY <1>1, CommitFacts
  <2>2. commits[c] = 0 /\ \A o \in Executor : Writes(o, c) => o = e
    BY <1>0, <1>1, <2>1 DEF OnceOf, Writes
  <2>3. commits' = [commits EXCEPT ![c] = @ + 1]
    BY <1>1 DEF Commit
  <2>4. commits'[c] = 1
    BY <1>0, <2>2, <2>3
  <2>5. \A o \in Executor : ~Writes(o, c)'
    BY <1>0, <2>1, <2>2 DEF Writes, Retains, Alone
  <2>6. \E f \in File : content'[f] = c /\ Known(<<f, "ok">>)'
    BY <1>0, <1>1, <2>1 DEF Known
  <2> QED BY <2>4, <2>5, <2>6 DEF OnceOf
<1>2. ASSUME ~\E e \in Executor : Commit(e) /\ content[ex[e].file] = c
      PROVE  OnceOf(c)'
  <2>1. commits'[c] = commits[c]
    <3>1. ASSUME NEW e \in Executor, Commit(e) PROVE commits'[c] = commits[c]
      <4>1. commits' = [commits EXCEPT ![content[ex[e].file]] = @ + 1]
        BY <3>1 DEF Commit
      <4> QED BY <1>0, <1>2, <3>1, <4>1
    <3> QED BY <3>1, RowWriters DEF WriteUnrecorded, RollbackRows
  <2>2. commits[c] > 0 => \E f \in File : content[f] = c /\ Known(<<f, "ok">>)'
    <3>1. ASSUME NEW f \in File, content[f] = c, Known(<<f, "ok">>) PROVE Known(<<f, "ok">>)'
      <4>1. ~LostWith(<<f, "ok">>)
        BY <1>0, <3>1 DEF LostWith
      <4> QED BY <3>1, <4>1, KnownStays
    <3> QED BY <1>0, <3>1 DEF OnceOf
  <2>3. ASSUME NEW e \in Executor, Write(e) \/ WriteUnrecorded(e), Writes(e, c)'
        PROVE  commits[c] = 0 /\ \A o \in Executor : Writes(o, c)' => o = e
    <3>1. PICK f \in Oldest(ex[e].pending) \cap File :
           /\ ex[e].pc = "next" /\ history[ex[e].run].cancel = "no"
           /\ Outcome(f) = "ok" /\ Retains(e) /\ ex'[e].file = f
           /\ loose' = loose \cup (IF AlsoLoading(e, f) THEN {content[f]} ELSE {})
      BY <2>3, WriteFacts
    <3>2. content[f] = c /\ ~AlsoLoading(e, f)
      BY <1>0, <2>3, <3>1 DEF Writes
    <3>3. commits[c] = 0
      BY <1>0, <3>1, <3>2, NewContent
    <3>4. \A o \in Executor : Writes(o, c)' => o = e
      BY <1>0, <3>1, <3>2 DEF Writes, AlsoLoading, At, Retains, Alone
    <3> QED BY <3>3, <3>4
  <2>4. ASSUME NEW e \in Executor, Writes(e, c)', ~(Write(e) \/ WriteUnrecorded(e)) PROVE Writes(e, c)
    BY <1>0, <2>4, WritingSteps DEF Writes
  <2>5. ASSUME NEW e \in Executor, Writes(e, c)'
        PROVE  commits[c] = 0 /\ \A o \in Executor : Writes(o, c)' => o = e
    <3>1. CASE \E o \in Executor : (Write(o) \/ WriteUnrecorded(o)) /\ Writes(o, c)'
      <4>1. PICK o \in Executor : (Write(o) \/ WriteUnrecorded(o)) /\ Writes(o, c)'
        BY <3>1
      <4>2. commits[c] = 0 /\ \A q \in Executor : Writes(q, c)' => q = o
        BY <2>3, <4>1
      <4> QED BY <2>5, <4>2
    <3>2. CASE ~\E o \in Executor : (Write(o) \/ WriteUnrecorded(o)) /\ Writes(o, c)'
      BY <1>0, <2>4, <2>5, <3>2 DEF OnceOf
    <3> QED BY <3>1, <3>2
  <2> QED BY <1>0, <2>1, <2>2, <2>5 DEF OnceOf
<1> QED BY <1>1, <1>2

(* A content is committed once: is_duplicate_checksum sees every load of    *)
(* it that was not under way at the same time or lost by a failure.         *)
THEOREM CommittedOnce == Spec => []LoadedOnce
<1>1. OnceInv => LoadedOnce
  BY DEF OnceInv, OnceOf, LoadedOnce
<1> QED BY <1>1, InitTypes, TypesKept, InitNotes, NotesStep, InitOnce, OnceStep, PTL DEF Spec

-----------------------------------------------------------------------------
(* What the checkpoint has passed is done with, or some run that goes on    *)
(* has it before it; and whatever an executor is about to pass is done      *)
(* with, or it has it before it itself, or another does.                    *)
Done(f) ==
  \/ commits[content[f]] > 0 \/ kind[content[f]] = "empty" \/ f \in excused
  \/ \E res \in Result : Known(<<f, res>>)
AtWork == {"next", "write", "advance", "progress", "finish", "recover"}
Coming(e) == ex[e].pending \cup (IF ex[e].pc = "write" THEN {ex[e].file} ELSE {})
Held(f) == \E o \in Executor : ex[o].pc \in AtWork /\ f \in Coming(o)
Passing(e, f) == \E g \in (Coming(e) \cup {ex[e].file}) \cap File : Ts[f] <= Ts[g]
Listing == {"claim", "create", "next", "write", "advance", "progress", "finish", "status"}

PassedInv == \A f \in folder : Ts[f] <= checkpoint => Done(f) \/ Held(f)
PassingInv ==
  \A e \in Executor, f \in folder :
    ex[e].pc \in Listing /\ Passing(e, f) => Done(f) \/ f \in Coming(e) \/ Held(f)

LEMMA InitPassed == Init => PassedInv /\ PassingInv
<1> SUFFICES ASSUME Init PROVE PassedInv /\ PassingInv
  OBVIOUS
<1>1. \A f \in folder : ~(Ts[f] <= checkpoint)
  BY Bounds, FileBatchAssumption DEF Init
<1>2. \A e \in Executor : ex[e].pc \notin Listing
  BY IdleType, SMTT(30) DEF Init, Listing
<1> QED BY <1>1, <1>2 DEF PassedInv, PassingInv

LEMMA ExcusedGrows == [Next]_vars => excused \subseteq excused'
BY ExcusedWriters DEF Arrive, Finish, Recover, ResetTs, Crash, Forgotten

LEMMA DoneStays ==
  ASSUME TypeInv, NotesInv, [Next]_vars, NEW f \in File, Done(f)
  PROVE  Done(f)'
<1>0. /\ content' = content /\ kind' = kind /\ excused \subseteq excused'
      /\ content[f] \in Content /\ commits[content[f]] \in Nat
      /\ commits'[content[f]] \in Nat /\ commits'[content[f]] >= commits[content[f]]
  <2>1. content[f] \in Content
    BY DEF TypeInv, TypeOK
  <2> QED BY <2>1, FixedStays, ExcusedGrows, CommitsGrow
<1>1. CASE commits[content[f]] > 0 \/ kind[content[f]] = "empty" \/ f \in excused
  BY <1>0, <1>1 DEF Done
<1>2. ASSUME NEW res \in Result, Known(<<f, res>>) PROVE Done(f)'
  <2>1. CASE res = "ok"
    <3>1. (\E r \in Run : <<f, res>> \in history[r].list) \/ (\E e \in Executor : <<f, res>> \in ex[e].results)
      BY <1>2 DEF Known, Listed
    <3>2. kind[content[f]] = "empty" \/ commits[content[f]] > 0
      BY <2>1, <3>1 DEF NotesInv, Truly
    <3> QED BY <1>0, <3>2 DEF Done
  <2>2. CASE res # "ok" /\ LostWith(<<f, res>>)
    BY <2>2 DEF LostWith, Done
  <2>3. CASE Known(<<f, res>>)'
    BY <1>2, <2>3 DEF Done
  <2> QED BY <1>2, <2>1, <2>2, <2>3, KnownStays
<1> QED BY <1>1, <1>2 DEF Done

(* A file that an executor has before it stays so until the executor has a  *)
(* result for it, or ends its run or dies.                                  *)
LEMMA ComingStays ==
  ASSUME TypeInv, [Next]_vars, NEW e \in Executor, NEW f \in File, f \in Coming(e)
  PROVE  \/ /\ f \in Coming(e)'
            /\ ex[e].pc \in AtWork => ex'[e].pc \in AtWork \/ Finish(e)
         \/ \E res \in Result : <<f, res>> \in ex'[e].results
         \/ ex[e].pc \in AtWork /\ (Recover(e) \/ Crash)
         \/ ex[e].pc \notin AtWork /\ ex'[e].pc \notin Listing
<1>0. ex[e].pending \subseteq File /\ Control(ex[e]) /\ ex[e].pc \in Pc
  BY DEF TypeInv, TypeOK, Work
<1>1. CASE Same(e)
  BY <1>1 DEF Same, Coming
<1>2. CASE Crash /\ ex'[e] = Idle
  BY <1>2, IdleType DEF Listing
<1>3. CASE Look(e) \/ Quit(e)
  BY <1>0, <1>3 DEF Look, Quit, At, Control, Coming
<1>4. CASE Claim(e)
  BY <1>4, ClaimFacts, IdleType DEF Coming, AtWork, Listing
<1>5. CASE CreateRun(e)
  BY <1>5, CreateFacts DEF Coming, AtWork, Holds
<1>6. CASE Settle(e)
  <2>1. PICK g \in Oldest(ex[e].pending) \cap File :
          /\ ex[e].pc = "next" /\ ex'[e].pc = "advance"
          /\ ex'[e].pending = ex[e].pending \ {g} /\ Outcome(g) \in Result
          /\ ex'[e].results = ex[e].results \cup {<<g, Outcome(g)>>}
    BY <1>6, SettleFacts
  <2> QED BY <2>1 DEF Coming, AtWork
<1>7. CASE Write(e) \/ WriteUnrecorded(e)
  <2>1. PICK g \in Oldest(ex[e].pending) \cap File :
          /\ ex[e].pc = "next" /\ ex'[e].pc = "write" /\ ex'[e].file = g
          /\ ex'[e].pending = ex[e].pending \ {g}
    BY <1>7, WriteFacts
  <2> QED BY <2>1 DEF Coming, AtWork
<1>8. CASE Commit(e) \/ LoadFails(e)
  <2>1. /\ ex[e].pc = "write" /\ ex'[e].pc = "advance"
        /\ ex'[e].pending = ex[e].pending \ {ex[e].file}
        /\ \E res \in Result : <<ex[e].file, res>> \in ex'[e].results
    BY <1>8, CommitFacts, FailsFacts DEF Result
  <2> QED BY <2>1 DEF Coming, AtWork
<1>9. CASE Raise(e)
  <2>1. \/ /\ ex[e].pc # "write" /\ ex'[e].pc = "advance"
           /\ ex'[e].pending = ex[e].pending \ {ex[e].file}
           /\ \E res \in Result : <<ex[e].file, res>> \in ex'[e].results
        \/ /\ Holds(e)
           /\ \/ ex[e].pc \in {"claim", "create"} /\ ex'[e].pc = "giveback"
              \/ ex[e].pc \in {"advance", "progress", "finish", "status"} /\ ex'[e].pc = "recover"
    BY <1>9, RaiseFacts DEF Result
  <2> QED BY <2>1 DEF Coming, AtWork, Listing, Holds
<1>10. CASE Advance(e) \/ Progress(e) \/ Conclude(e)
  <2>1. /\ ex[e].pc # "write" /\ Holds(e) /\ ex'[e].pc \in {"finish", "progress", "next"}
    BY <1>10, AdvanceFacts, ProgressFacts, ConcludeFacts
  <2> QED BY <2>1 DEF Coming, AtWork, Holds
<1>11. CASE Finish(e)
  <2>1. /\ ex[e].pc = "finish" /\ Holds(e)
    BY <1>11, FinishFacts
  <2> QED BY <1>11, <2>1 DEF Coming, AtWork, Holds
<1>12. CASE Status(e) \/ GiveBack(e)
  BY <1>12, EndFacts, IdleType DEF AtWork, Listing
<1>13. CASE Recover(e)
  BY <1>13, RecoverFacts DEF AtWork
<1> QED BY <1>1, <1>2, <1>3, <1>4, <1>5, <1>6, <1>7, <1>8, <1>9, <1>10, <1>11, <1>12, <1>13,
           OneRecord DEF Execute

LEMMA ToComeIs ==
  ASSUME NEW e \in Executor
  PROVE  ToCome(e) = Coming(e) /\ Ahead(e) = (Coming(e) \cup {ex[e].file}) \cap File
BY DEF ToCome, Coming, Ahead, At

(* Who goes away names what it had before it that the checkpoint, or        *)
(* another executor who does not have it, has passed or will pass.          *)
LEMMA LeftIsExcused ==
  ASSUME TypeInv, FreshInv, [Next]_vars, NEW f \in File, NEW o \in Executor,
         ex[o].pc \in AtWork, f \in Coming(o), NEW S \in SUBSET Executor, o \in S,
         PassedBy(S) \subseteq excused',
         \/ Ts[f] <= checkpoint
         \/ \E q \in Executor \ S : f \notin Coming(q) /\ Passing(q, f)
  PROVE  f \in excused'
<1>1. ASSUME \/ Ts[f] = checkpoint \/ (Ts[f] < checkpoint /\ ~ex[o].fresh) \/ Overtaken(f, S)
      PROVE  f \in excused'
  <2>1. f \in {g \in ToCome(o) : \/ Ts[g] = checkpoint \/ (Ts[g] < checkpoint /\ ~ex[o].fresh)
                                 \/ Overtaken(g, S)}
    BY <1>1, ToComeIs
  <2> QED BY <2>1 DEF PassedBy
<1>2. CASE Ts[f] <= checkpoint
  <2>1. checkpoint \in Nat /\ Ts[f] \in Nat /\ ex[o].fresh \in BOOLEAN
    BY Bounds DEF TypeInv, TypeOK, Work
  <2>2. ASSUME ex[o].fresh PROVE checkpoint <= Ts[f]
    <3>1. InOrder(ex[o])
      BY <2>2 DEF FreshInv, AtWork
    <3> QED BY <3>1 DEF InOrder, Coming
  <2> QED BY <1>1, <1>2, <2>1, <2>2
<1>3. CASE \E q \in Executor \ S : f \notin Coming(q) /\ Passing(q, f)
  <2>1. Overtaken(f, S)
    BY <1>3, ToComeIs DEF Overtaken, Passing
  <2> QED BY <1>1, <2>1
<1> QED BY <1>2, <1>3

LEMMA HeldStays ==
  ASSUME TypeInv, NotesInv, FreshInv, [Next]_vars, NEW f \in File, Held(f),
         \/ Ts[f] <= checkpoint
         \/ ~Crash /\ \E q \in Executor : f \notin Coming(q) /\ Passing(q, f)
  PROVE  Done(f)' \/ Held(f)'
<1>1. PICK o \in Executor : ex[o].pc \in AtWork /\ f \in Coming(o)
  BY DEF Held
<1>2. CASE Finish(o) \/ Recover(o)
  <2>1. PassedBy({o}) \subseteq excused'
    BY <1>2 DEF Finish, Recover, Forgotten
  <2>2. \/ Ts[f] <= checkpoint
        \/ \E q \in Executor \ {o} : f \notin Coming(q) /\ Passing(q, f)
    BY <1>1
  <2>3. f \in excused'
    BY <1>1, <2>1, <2>2, LeftIsExcused
  <2> QED BY <2>3 DEF Done
<1>3. CASE Crash
  <2>1. PassedBy(Executor) \subseteq excused'
    BY <1>3 DEF Crash, Forgotten
  <2>2. Ts[f] <= checkpoint
    BY <1>3
  <2>3. f \in excused'
    BY <1>1, <2>1, <2>2, LeftIsExcused
  <2> QED BY <2>3 DEF Done
<1>4. CASE \E res \in Result : <<f, res>> \in ex'[o].results
  BY <1>4 DEF Done, Known
<1>5. CASE f \in Coming(o)' /\ ex'[o].pc \in AtWork
  BY <1>5 DEF Held
<1> QED BY <1>1, <1>2, <1>3, <1>4, <1>5, ComingStays

LEMMA NewFiles ==
  [Next]_vars => \A f \in folder' \ folder : Arrive(f)
BY FolderWriters DEF Arrive, DeleteRemote

LEMMA PassedStep ==
  ASSUME TypeInv, NotesInv, FreshInv, PassedInv, PassingInv, [Next]_vars
  PROVE  PassedInv'
<1> SUFFICES ASSUME NEW f \in folder', Ts[f] <= checkpoint'
             PROVE  Done(f)' \/ Held(f)'
  BY Bounds DEF PassedInv
<1>0. folder \subseteq File /\ folder' \subseteq File /\ checkpoint \in Nat /\ checkpoint' \in Nat
      /\ Ts[f] \in Nat /\ f \in File
  BY DataTypes, Bounds DEF TypeInv, TypeOK
<1>1. CASE f \notin folder
  <2>1. Arrive(f)
    BY <1>1, NewFiles
  <2>2. f \in excused'
    BY <2>1 DEF Arrive
  <2> QED BY <2>2 DEF Done
<1>2. CASE f \in folder /\ Ts[f] <= checkpoint
  BY <1>0, <1>2, DoneStays, HeldStays DEF PassedInv
<1>3. CASE f \in folder /\ ~(Ts[f] <= checkpoint)
  <2>1. checkpoint' # checkpoint
    BY <1>3
  <2>2. ASSUME NEW t \in 0..Cardinality(File), ResetTs(t) PROVE Done(f)'
    <3>1. f \in excused'
      BY <1>0, <2>2 DEF ResetTs
    <3> QED BY <3>1 DEF Done
  <2>3. ASSUME NEW e \in Executor, Advance(e) PROVE Done(f)' \/ Held(f)'
    <3>1. /\ ex[e].pc = "advance" /\ ex[e].file \in File /\ checkpoint' = Ts[ex[e].file]
          /\ Holds(e) /\ ex'[e].pc \in {"finish", "progress"}
      BY <2>3, AdvanceFacts
    <3>2. Passing(e, f) /\ ex[e].pc \in Listing
      BY <1>0, <3>1 DEF Passing, Listing
    <3>3. CASE f \in Coming(e)
      BY <3>1, <3>3 DEF Coming, Held, Holds, AtWork
    <3>4. CASE Held(f)
      <4>1. PICK o \in Executor : ex[o].pc \in AtWork /\ f \in Coming(o)
        BY <3>4 DEF Held
      <4>2. ~Finish(o) /\ ~Recover(o) /\ ~Crash
        BY <2>1 DEF Finish, Recover, Crash
      <4>3. \/ f \in Coming(o)' /\ ex'[o].pc \in AtWork
            \/ \E res \in Result : <<f, res>> \in ex'[o].results
        BY <1>0, <4>1, <4>2, ComingStays
      <4> QED BY <4>3 DEF Held, Done, Known
    <3>5. CASE Done(f)
      BY <1>0, <3>5, DoneStays
    <3> QED BY <1>3, <3>2, <3>3, <3>4, <3>5 DEF PassingInv
  <2> QED BY <2>1, <2>2, <2>3, CheckpointWriters
<1> QED BY <1>1, <1>2, <1>3

(* What an executor passes it passed before, but that it has listed the     *)
(* folder.                                                                  *)
LEMMA PassingSteps ==
  ASSUME TypeInv, [Next]_vars, NEW e \in Executor, NEW f \in File,
         ex'[e].pc \in Listing, ~Look(e), Passing(e, f)'
  PROVE  ex[e].pc \in Listing /\ Passing(e, f)
<1>0. ex[e].pending \subseteq File
  BY DEF TypeInv, TypeOK, Work
<1>1. ASSUME ex[e].pc \in Listing,
             (Coming(e) \cup {ex[e].file})' \cap File \subseteq Coming(e) \cup {ex[e].file}
      PROVE  ex[e].pc \in Listing /\ Passing(e, f)
  BY <1>1 DEF Passing
<1>2. CASE Same(e)
  BY <1>1, <1>2 DEF Same, Coming
<1>3. CASE ex'[e] = Idle \/ Quit(e) \/ Status(e) \/ GiveBack(e) \/ Recover(e)
  BY <1>3, EndFacts, RecoverFacts, IdleType DEF Listing
<1>4. CASE Claim(e)
  <2>1. /\ ex[e].pc = "claim" /\ ex'[e].pc = "create"
        /\ ex'[e].pending = ex[e].pending /\ ex'[e].file = ex[e].file
    BY <1>4, ClaimFacts, IdleType DEF Listing
  <2> QED BY <1>1, <2>1 DEF Coming, Listing
<1>5. CASE CreateRun(e)
  <2>1. ex[e].pc = "create" /\ ex'[e].pc = "next" /\ Holds(e)
    BY <1>5, CreateFacts
  <2> QED BY <1>1, <2>1 DEF Coming, Listing, Holds
<1>6. CASE Settle(e) \/ Write(e) \/ WriteUnrecorded(e)
  <2>1. PICK g \in Oldest(ex[e].pending) \cap File :
          /\ ex[e].pc = "next" /\ ex'[e].file = g /\ ex'[e].pending = ex[e].pending \ {g}
    BY <1>6, SettleFacts, WriteFacts
  <2>2. g \in ex[e].pending
    BY <2>1 DEF Oldest
  <2> QED BY <1>1, <2>1, <2>2 DEF Coming, Listing
<1>7. CASE Commit(e) \/ LoadFails(e)
  <2>1. /\ ex[e].pc = "write" /\ ex'[e].pc = "advance" /\ ex'[e].file = ex[e].file
        /\ ex'[e].pending \subseteq ex[e].pending
    BY <1>7, CommitFacts, FailsFacts
  <2> QED BY <1>1, <2>1 DEF Coming, Listing
<1>8. CASE Raise(e)
  <2>1. /\ ex[e].pc \in {"advance", "progress", "finish", "status"} /\ ex'[e].pc = "advance"
        /\ ex'[e].file = ex[e].file /\ ex'[e].pending \subseteq ex[e].pending
    BY <1>8, RaiseFacts DEF Listing
  <2> QED BY <1>1, <2>1 DEF Coming, Listing
<1>9. CASE Advance(e) \/ Progress(e) \/ Conclude(e) \/ Finish(e)
  <2>1. /\ ex[e].pc \in {"advance", "progress", "next", "finish"} /\ ex'[e].pc # "write" /\ Holds(e)
    BY <1>9, AdvanceFacts, ProgressFacts, ConcludeFacts, FinishFacts
  <2> QED BY <1>1, <2>1, SMTT(30) DEF Coming, Listing, Holds
<1> QED BY <1>2, <1>3, <1>4, <1>5, <1>6, <1>7, <1>8, <1>9, OneRecord DEF Execute

LEMMA PassingStep ==
  ASSUME TypeInv, NotesInv, FreshInv, PassedInv, PassingInv, [Next]_vars
  PROVE  PassingInv'
<1> SUFFICES ASSUME NEW e \in Executor, NEW f \in folder', ex'[e].pc \in Listing, Passing(e, f)'
             PROVE  Done(f)' \/ f \in Coming(e)' \/ Held(f)'
  BY DEF PassingInv
<1>0. folder \subseteq File /\ f \in File /\ checkpoint \in Nat /\ Ts[f] \in Nat
  BY DataTypes, Bounds DEF TypeInv, TypeOK
<1>1. ~Crash
  BY IdleType DEF Crash, Listing
<1>2. CASE f \notin folder
  <2>1. Arrive(f) /\ ex' = ex
    BY <1>2, NewFiles DEF Arrive
  <2>2. \E g \in Ahead(e) : Ts[f] <= Ts[g]
    BY <2>1, ToComeIs DEF Passing, Coming
  <2>3. f \in excused'
    BY <2>1, <2>2 DEF Arrive
  <2> QED BY <2>3 DEF Done
<1>3. CASE f \in folder /\ Look(e)
  <2>1. CASE Ts[f] <= checkpoint
    BY <1>0, <1>3, <2>1, DoneStays, HeldStays DEF PassedInv
  <2>2. CASE ~(Ts[f] <= checkpoint) /\ f \in Excluded
    <3>1. PICK x \in Listed : x[1] = f
      BY <2>2 DEF Excluded, Files
    <3>2. x \in Entry
      BY <3>1, EntryTypes DEF TypeInv
    <3>3. Done(f)
      BY <3>1, <3>2 DEF Done, Known, Entry
    <3> QED BY <1>0, <3>3, DoneStays
  <2>3. CASE ~(Ts[f] <= checkpoint) /\ f \notin Excluded
    <3>1. f \in Pending
      BY <1>0, <1>3, <2>3 DEF Pending
    <3> QED BY <1>3, <3>1, LookFacts DEF Coming
  <2> QED BY <2>1, <2>2, <2>3
<1>4. CASE f \in folder /\ ~Look(e)
  <2>1. ex[e].pc \in Listing /\ Passing(e, f)
    BY <1>0, <1>4, PassingSteps
  <2>2. CASE Done(f)
    BY <1>0, <2>2, DoneStays
  <2>3. CASE f \in Coming(e)
    <3>1. ~Recover(e)
      BY RecoverFacts DEF Listing
    <3>2. f \in Coming(e)' \/ \E res \in Result : <<f, res>> \in ex'[e].results
      BY <1>0, <1>1, <2>3, <3>1, ComingStays
    <3> QED BY <3>2 DEF Done, Known
  <2>4. CASE Held(f) /\ f \notin Coming(e)
    BY <1>0, <1>1, <2>1, <2>4, HeldStays
  <2> QED BY <1>4, <2>1, <2>2, <2>3, <2>4 DEF PassingInv
<1> QED BY <1>2, <1>3, <1>4

LEMMA PassedTells == TypeInv /\ PassedInv => PassedIsAccounted
<1> SUFFICES ASSUME TypeInv, PassedInv, NEW f \in folder, Ts[f] <= checkpoint
             PROVE  Accounted(f) \/ f \in excused
  BY DEF PassedIsAccounted
<1>1. Done(f) \/ Held(f)
  BY DEF PassedInv
<1>2. CASE Held(f)
  BY <1>2, ToComeIs DEF Held, Accounted
<1>3. ASSUME NEW res \in Result, Known(<<f, res>>) PROVE Accounted(f)
  BY <1>3 DEF Known, Accounted, Files
<1> QED BY <1>1, <1>2, <1>3 DEF Done, Accounted

(* A file that get_pending_files will not list again was loaded, or is in   *)
(* the history, or is at hand, but for those that the model excuses.        *)
THEOREM PassedAccounted == Spec => []PassedIsAccounted
<1> DEFINE I == TypeInv /\ NotesInv /\ FreshInv /\ PassedInv /\ PassingInv
<1>1. Init => I
  BY InitTypes, InitNotes, InitFresh, InitPassed
<1>2. I /\ [Next]_vars => I'
  BY TypesKept, NotesStep, FreshStep, PassedStep, PassingStep
<1>3. I => PassedIsAccounted
  BY PassedTells
<1> QED BY <1>1, <1>2, <1>3, PTL DEF Spec
=============================================================================
