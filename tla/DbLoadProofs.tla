---------------------------- MODULE DbLoadProofs ----------------------------
(***************************************************************************)
(* Proofs about the loads of one database table: types, that what an       *)
(* undisturbed load has written stays, that the rows a checkpoint has      *)
(* passed are in the target, and what full and diff loads leave there; for *)
(* any rows, loads, time stamps, batch sizes and limits.                   *)
(***************************************************************************)
EXTENDS DbLoad, FiniteSetTheorems, WellFoundedInduction, TLAPS

(* A load that is alone is the only active one: whoever starts beside it   *)
(* takes the mark from it.                                                 *)
Solo == \A l \in Load : load[l].alone /\ load[l].at # "idle" => Active = {l}

(* Between the SELECT and the first batch everything read is still to do.  *)
AllLeft == \A l \in Load : load[l].at = "opened" => load[l].left = RowsOf(load[l].read)

(* The type of a load's variables, as in TypeOK.                           *)
LoadRec == [at : At, mode : Mode, how : {"none", "copy", "upsert"},
            skip : BOOLEAN, orphans : BOOLEAN, size : Sizes \cup {0},
            since : Nat, read : [Row -> Version], left : SUBSET Row,
            gone : SUBSET Row, newest : Nat, count : Nat,
            failed : SUBSET Row, lost : SUBSET Row, alone : BOOLEAN]

(* Inductive, and checked step by step below.                              *)
IInv == TypeOK /\ Solo /\ AllLeft /\ LoadedStays

-----------------------------------------------------------------------------
(* The order of the natural numbers as the relation of the library.        *)
LEMMA LessThan ==
  \A c, b \in Nat : <<c, b>> \in OpToRel(<, Nat) <=> c < b
BY DEF OpToRel

(* A set of natural numbers that is bounded has a largest member.          *)
LEMMA MaxNat ==
  ASSUME NEW S \in SUBSET Nat, S # {}, NEW n \in Nat, \A x \in S : x <= n
  PROVE  Max(S) \in S /\ \A x \in S : x <= Max(S)
<1> DEFINE Bound == {b \in Nat : \A x \in S : x <= b}
<1>1. n \in Bound
  OBVIOUS
<1>2. PICK b \in Bound : \A c \in Bound : ~(<<c, b>> \in OpToRel(<, Nat))
  <2> HIDE DEF Bound
  <2>1. Bound \subseteq Nat
    BY DEF Bound
  <2> QED
    BY <1>1, <2>1, WFMin, NatLessThanWellFounded
<1>3. \A c \in Bound : ~(c < b)
  BY <1>2, LessThan
<1>4. b \in S
  <2> SUFFICES ASSUME b \notin S PROVE FALSE
    OBVIOUS
  <2>1. PICK x \in S : TRUE
    OBVIOUS
  <2>2. x < b
    BY <2>1
  <2>3. b - 1 \in Nat /\ \A y \in S : y <= b - 1
    BY <2>2
  <2> QED
    BY <2>3, <1>3
<1> QED
  BY <1>4 DEF Max

(* A set of natural numbers that is not empty has a smallest member.       *)
LEMMA MinNat ==
  ASSUME NEW S \in SUBSET Nat, S # {}
  PROVE  Min(S) \in S /\ \A x \in S : Min(S) <= x
<1>1. PICK b \in S : \A c \in S : ~(<<c, b>> \in OpToRel(<, Nat))
  BY WFMin, NatLessThanWellFounded
<1>2. S \subseteq Nat /\ \A c \in S : ~(c < b)
  BY <1>1, LessThan
<1>3. \A c \in S : b <= c
  BY <1>2
<1> QED
  BY <1>3 DEF Min

(* Stamps are natural numbers and grow with the versions.                  *)
LEMMA Stamps ==
  /\ \A v \in Version : Stamp[v] \in Nat /\ (Stamp[v] = 0 <=> v = 0)
  /\ \A v, w \in Version : v <= w => Stamp[v] <= Stamp[w]
  /\ Version \subseteq Nat
BY DbLoadAssumption DEF Version

(* The newest stamp of some rows is the stamp of one of them, or 0, and no *)
(* other is newer.                                                         *)
LEMMA NewestIs ==
  ASSUME NEW f \in [Row -> Version], NEW S \in SUBSET Row
  PROVE  /\ Newest(f, S) \in Nat
         /\ Newest(f, S) = 0 \/ \E r \in S : Newest(f, S) = Stamp[f[r]]
         /\ \A r \in S : Stamp[f[r]] <= Newest(f, S)
<1> DEFINE T == {Stamp[f[r]] : r \in S} \cup {0}
<1>1. MaxVersion \in Version /\ Stamp[MaxVersion] \in Nat
  BY DbLoadAssumption DEF Version
<1>2. \A v \in Version : Stamp[v] \in Nat /\ Stamp[v] <= Stamp[MaxVersion]
  BY <1>1, DbLoadAssumption DEF Version
<1>3. \A r \in S : f[r] \in Version
  OBVIOUS
<1>4. T \in SUBSET Nat /\ T # {} /\ \A x \in T : x <= Stamp[MaxVersion]
  BY <1>1, <1>2, <1>3
<1>5. Max(T) \in T /\ \A x \in T : x <= Max(T)
  <2> HIDE DEF T
  <2> QED
    BY <1>1, <1>4, MaxNat
<1>6. Newest(f, S) = Max(T)
  BY DEF Newest
<1> QED
  BY <1>4, <1>5, <1>6

(* The larger of two numbers is one of them.                               *)
LEMMA MaxIs ==
  ASSUME NEW a \in Nat, NEW b \in Nat
  PROVE  Max({a, b}) \in {a, b} /\ a <= Max({a, b}) /\ b <= Max({a, b})
<1>1. \A x \in {a, b} : x <= a + b
  OBVIOUS
<1> QED
  BY <1>1, MaxNat, a + b \in Nat

(* What is fetched, and what of it is loaded, are rows that were left.     *)
LEMMA Fetched ==
  ASSUME NEW l, NEW F \in Fetch(l), NEW B \in Room(l, F)
  PROVE  F \subseteq load[l].left /\ B \subseteq F
BY DEF Fetch, Room, kSubset

(* Finitely many rows are counted by a natural number.                     *)
LEMMA CountType ==
  ASSUME NEW B \in SUBSET Row
  PROVE  Cardinality(B) \in Nat
BY DbLoadAssumption, FS_Subset, FS_CardinalityType

(* The row fallback keeps, counts and gives up rows of its batch only.     *)
LEMMA FallbackType ==
  ASSUME NEW B \in SUBSET Row, NEW seq \in SetToSeqs(B), NEW f
  PROVE  LET out == Fallback(seq, f)
         IN out.kept \subseteq B /\ out.counted \in Nat /\ out.failed \subseteq B
<1> DEFINE n == Cardinality(B)
           bad == {i \in 1..Len(seq) : f[seq[i]] \in Rejected}
           T == {Len(seq)} \cup {i \in 1..Len(seq) : SameErrors > 1 /\ GivesUp(bad, i)}
           tried == 1..Tried(seq, bad)
<1>1. n \in Nat /\ seq \in [1..n -> B]
  BY CountType DEF SetToSeqs
<1>2. Len(seq) = n
  BY <1>1
<1>3. T \subseteq 0..n /\ T # {}
  BY <1>1, <1>2
<1>4. Tried(seq, bad) \in 0..n
  <2>1. Min(T) \in T
    <3>1. T \in SUBSET Nat /\ T # {}
      BY <1>1, <1>3
    <3> HIDE DEF T
    <3> QED
      BY <3>1, MinNat
  <2>2. Tried(seq, bad) = Min(T)
    BY DEF Tried
  <2> QED
    BY <1>3, <2>1, <2>2
<1>5. IsFiniteSet(tried) /\ tried \subseteq 1..n
  <2> DEFINE t == Tried(seq, bad)
  <2>1. t \in 0..n
    BY <1>4
  <2> HIDE DEF t
  <2>2. IsFiniteSet(1..t) /\ 1..t \subseteq 1..n
    BY <1>1, <2>1, FS_Interval
  <2> QED
    BY <2>2 DEF t
<1>6. Cardinality(tried \ bad) \in Nat
  BY <1>5, FS_Subset, FS_CardinalityType
<1>7. \A i \in tried : seq[i] \in B
  BY <1>1, <1>5
<1> QED
  BY <1>6, <1>7 DEF Fallback

-----------------------------------------------------------------------------
(* The bounds are natural numbers, and 0 is a version.                     *)
LEMMA Bounds ==
  MaxVersion \in Nat /\ MaxStart \in Nat /\ MaxChange \in Nat /\ 0 \in Version
BY DbLoadAssumption DEF Version

(* The variables of a load that does not run.                              *)
LEMMA IdleType == Idle \in LoadRec
<1>1. [r \in Row |-> 0] \in [Row -> Version]
  BY Bounds
<1> QED
  BY <1>1 DEF Idle, LoadRec, At, Mode

(* The helpers on tables stay within tables.                               *)
LEMMA TableType ==
  /\ Nothing \in [Row -> Version]
  /\ \A f, g \in [Row -> Version], S \in SUBSET Row : Onto(f, g, S) \in [Row -> Version]
  /\ source \in [Row -> Version] =>
       \A S \in SUBSET Row : Select(S) \in [Row -> Version] /\ RowsOf(source) \in SUBSET Row
  /\ \A f : RowsOf(f) \in SUBSET Row
BY Bounds DEF Nothing, Onto, Select, RowsOf

(* Writing the variables of one load.                                      *)
LEMMA SetType ==
  ASSUME TypeOK, NEW l \in Load, NEW rec \in LoadRec, Set(l, rec)
  PROVE  load' \in [Load -> LoadRec]
BY DEF TypeOK, LoadRec, Set

(* Counting rows in the variables of a load, and keeping them apart.       *)
LEMMA CountedType ==
  ASSUME NEW rec \in LoadRec, NEW L \in SUBSET Row, NEW c \in Nat, NEW m \in Nat,
         NEW A \in SUBSET Row, NEW B \in SUBSET Row
  PROVE  /\ [rec EXCEPT !.left = L, !.count = @ + c] \in LoadRec
         /\ [rec EXCEPT !.left = L, !.count = @ + c, !.newest = m] \in LoadRec
         /\ [rec EXCEPT !.count = @ + c] \in LoadRec
         /\ [rec EXCEPT !.count = @ + c, !.failed = @ \cup A, !.lost = @ \cup B] \in LoadRec
<1>1. rec.count + c \in Nat /\ rec.failed \cup A \in SUBSET Row /\ rec.lost \cup B \in SUBSET Row
  BY DEF LoadRec
<1> QED
  BY <1>1 DEF LoadRec

(* The next phase of a load, with what it read or how it writes.           *)
LEMMA PhaseType ==
  ASSUME NEW rec \in LoadRec, NEW at \in At, NEW f \in [Row -> Version],
         NEW S \in SUBSET Row, NEW how \in {"copy", "upsert"}
  PROVE  /\ [rec EXCEPT !.at = at] \in LoadRec
         /\ [rec EXCEPT !.at = at, !.how = how] \in LoadRec
         /\ [rec EXCEPT !.at = at, !.read = f, !.left = S] \in LoadRec
         /\ [rec EXCEPT !.at = at, !.how = how, !.read = f, !.left = S] \in LoadRec
BY DEF LoadRec

(* Starting a load.                                                        *)
LEMMA BeginType ==
  ASSUME TypeOK, NEW l \in Load, NEW rec \in LoadRec, Begin(l, rec)
  PROVE  load' \in [Load -> LoadRec] /\ started' \in 0..MaxStart
<1>1. started' \in 0..MaxStart
  BY Bounds DEF Begin, TypeOK
<1>2. [rec EXCEPT !.alone = (Active = {})] \in LoadRec
  BY DEF LoadRec
<1>3. \A k \in Load : load[k] \in LoadRec /\ [load[k] EXCEPT !.alone = FALSE] \in LoadRec
  BY DEF TypeOK, LoadRec
<1> QED
  BY <1>1, <1>2, <1>3 DEF Begin

(* The initial states have the types.                                      *)
LEMMA InitType == Init => TypeOK
<1> SUFFICES ASSUME Init PROVE TypeOK
  OBVIOUS
<1>1. load \in [Load -> LoadRec]
  BY IdleType DEF Init
<1>2. source \in [Row -> Version] /\ table \in [Row -> Version] /\ clock \in Version
  BY Bounds DEF Init
<1>3. started \in 0..MaxStart /\ changes \in 0..MaxChange
  BY Bounds DEF Init
<1> QED
  BY <1>1, <1>2, <1>3 DEF Init, TypeOK, LoadRec

(* The source and the settings.                                            *)
LEMMA SourceType ==
  ASSUME TypeOK,
         \/ \E r \in Row : SourceWrite(r) \/ SourceDelete(r)
         \/ Configure
  PROVE  TypeOK'
<1>1. ASSUME NEW r \in Row, SourceWrite(r) PROVE TypeOK'
  <2>1. clock' \in Version /\ source' \in [Row -> Version]
    BY <1>1, Bounds DEF SourceWrite, TypeOK, Version
  <2>2. risk' \subseteq Risk
    BY <1>1 DEF SourceWrite, TypeOK, Risk
  <2> QED
    BY <1>1, <2>1, <2>2 DEF SourceWrite, TypeOK
<1>2. ASSUME NEW r \in Row, SourceDelete(r) PROVE TypeOK'
  <2>1. clock' \in Version /\ source' \in [Row -> Version]
    BY <1>2, Bounds DEF SourceDelete, TypeOK, Version
  <2> QED
    BY <1>2, <2>1 DEF SourceDelete, TypeOK
<1>3. CASE Configure
  <2>1. changes' \in 0..MaxChange /\ lastSynced' \in Nat
    BY <1>3, Bounds DEF Configure, TypeOK
  <2>2. settings' \in Settings
    BY <1>3 DEF Configure, TypeOK, Settings
  <2> QED
    BY <1>3, <2>1, <2>2 DEF Configure, TypeOK
<1> QED
  BY <1>1, <1>2, <1>3

(* What is left of the history after a load.                               *)
LEMMA RiskType ==
  ASSUME TypeOK, NEW l
  PROVE  RiskAfter(l) \subseteq Risk
BY DEF TypeOK, RiskAfter, Risk

(* What a step of a load leaves alone, and the types it has to keep.       *)
LEMMA StepType ==
  ASSUME TypeOK, load' \in [Load -> LoadRec],
         table' \in [Row -> Version], made' \in BOOLEAN,
         lastSynced' \in Nat, batchSynced' \in Nat,
         started' \in 0..MaxStart, risk' \subseteq Risk,
         UNCHANGED <<source, clock, settings, limit, changes>>
  PROVE  TypeOK'
BY DEF TypeOK, LoadRec

(* The ways out that write nothing but the load's own variables.           *)
LEMMA EndType ==
  ASSUME TypeOK, NEW l \in Load, Fail(l) \/ Cancel(l)
  PROVE  TypeOK'
<1>1. End(l) /\ UNCHANGED <<table, made, lastSynced, batchSynced, started, risk,
                            source, clock, settings, limit, changes>>
  BY DEF Fail, Cancel
<1>2. load' \in [Load -> LoadRec]
  BY <1>1, IdleType, SetType DEF End
<1> QED
  BY <1>1, <1>2, StepType DEF TypeOK

(* The start of a load of either kind.                                     *)
LEMMA StartType ==
  ASSUME TypeOK, NEW l \in Load, Start(l) \/ BatchStart(l)
  PROVE  TypeOK'
<1> DEFINE at == IF settings.mode = "diff" THEN "keys" ELSE "started"
           since == IF settings.mode = "incremental" THEN lastSynced ELSE 0
           bsince == IF settings.mode = "incremental" THEN batchSynced ELSE 0
<1>1. /\ settings.mode \in Mode /\ settings.skip \in BOOLEAN
      /\ settings.orphans \in BOOLEAN /\ settings.size \in Sizes
  BY DEF TypeOK, Settings
<1>2. at \in At /\ "started" \in At /\ since \in Nat /\ bsince \in Nat
  BY DEF TypeOK, At
<1>3. load' \in [Load -> LoadRec] /\ started' \in 0..MaxStart
  <2>1. CASE Start(l)
    <3> DEFINE rec == [Idle EXCEPT !.at = at, !.mode = settings.mode,
                           !.skip = settings.skip, !.orphans = settings.orphans,
                           !.size = settings.size, !.since = since]
    <3>1. Begin(l, rec)
      BY <2>1 DEF Start
    <3>2. rec \in LoadRec
      <4> HIDE DEF at, since, bsince
      <4> QED
        BY <1>1, <1>2, IdleType DEF LoadRec
    <3> QED
      BY <3>1, <3>2, BeginType
  <2>2. CASE BatchStart(l)
    <3> DEFINE rec == [Idle EXCEPT !.at = "started", !.mode = settings.mode,
                           !.orphans = settings.orphans, !.size = settings.size,
                           !.since = bsince]
    <3>1. Begin(l, rec)
      BY <2>2 DEF BatchStart
    <3>2. rec \in LoadRec
      <4> HIDE DEF at, since, bsince
      <4> QED
        BY <1>1, <1>2, IdleType DEF LoadRec
    <3> QED
      BY <3>1, <3>2, BeginType
  <2> QED
    BY <2>1, <2>2
<1>4. risk' \subseteq Risk
  BY DEF Start, BatchStart, TypeOK, Risk, Overlapping
<1>5. UNCHANGED <<table, made, lastSynced, batchSynced, source, clock, settings, limit, changes>>
  BY DEF Start, BatchStart
<1> QED
  BY <1>3, <1>4, <1>5, StepType DEF TypeOK

(* The steps of run_db_load before the first batch.                        *)
LEMMA ExtractType ==
  ASSUME TypeOK, NEW l \in Load, Extract(l)
  PROVE  TypeOK'
<1> DEFINE S == Asked(load[l].since)
           rec == [load[l] EXCEPT !.at = "opened", !.read = Select(S), !.left = S]
<1>1. S \in SUBSET Row
  BY TableType DEF Asked
<1>2. Select(S) \in [Row -> Version]
  BY <1>1, TableType, SMTT(30) DEF TypeOK
<1>3. rec \in LoadRec
  <2>1. load[l] \in LoadRec /\ "opened" \in At
    BY DEF TypeOK, LoadRec, At
  <2> HIDE DEF S
  <2> QED
    BY <1>1, <1>2, <2>1, PhaseType
<1>4. load' \in [Load -> LoadRec]
  BY <1>3, SetType DEF Extract
<1>5. risk' \subseteq Risk
  BY DEF Extract, TypeOK, Risk
<1> QED
  BY <1>4, <1>5, StepType DEF Extract, TypeOK

LEMMA PrepareType ==
  ASSUME TypeOK, NEW l \in Load, Prepare(l)
  PROVE  TypeOK'
<1> DEFINE full == settings.mode = "full"
           mode == IF load[l].mode = "full" /\ ~full THEN "incremental" ELSE load[l].mode
           rec == [load[l] EXCEPT !.at = "loading", !.how = How(mode)]
<1>0. How(mode) \in {"copy", "upsert"}
  BY SMTT(30) DEF How
<1>1. rec \in LoadRec
  <2>1. load[l] \in LoadRec /\ load[l].read \in [Row -> Version]
    BY DEF TypeOK, LoadRec
  <2> HIDE DEF mode
  <2> QED
    BY <1>0, <2>1, "loading" \in At, PhaseType DEF At
<1>2. load' \in [Load -> LoadRec]
  BY <1>1, SetType DEF Prepare
<1>3. table' \in [Row -> Version]
  BY TableType DEF Prepare, TableFor, TypeOK
<1>4. risk' \subseteq Risk
  BY DEF Prepare, TypeOK, Risk
<1> QED
  BY <1>2, <1>3, <1>4, StepType DEF Prepare, TypeOK

(* A batch of run_db_load.                                                 *)
LEMMA LoadBatchType ==
  ASSUME TypeOK, NEW l \in Load, LoadBatch(l)
  PROVE  TypeOK'
<1> DEFINE d == load[l]
<1>0. d \in LoadRec
  BY DEF TypeOK, LoadRec
<1>1. PICK F \in Fetch(l) : \E B \in Room(l, F) : LoadAll(l, F, B) \/ LoadEach(l, F, B)
  BY DEF LoadBatch
<1>2. PICK B \in Room(l, F) : LoadAll(l, F, B) \/ LoadEach(l, F, B)
  BY <1>1
<1>3. F \subseteq d.left /\ B \subseteq F /\ d.left \in SUBSET Row
  BY <1>0, <1>2, Fetched DEF LoadRec
<1>4. Taken(d, F, B) \in LoadRec
  <2>1. Newest(d.read, B) \in Nat
    BY <1>0, <1>3, NewestIs DEF LoadRec
  <2>2. Max({d.newest, Newest(d.read, B)}) \in Nat
    BY <1>0, <2>1, MaxIs DEF LoadRec
  <2> QED
    BY <1>0, <1>3, <2>2 DEF LoadRec, Taken
<1>5. load' \in [Load -> LoadRec] /\ table' \in [Row -> Version] /\ risk' \subseteq Risk
  <2>1. CASE LoadAll(l, F, B)
    <3>1. Cardinality(B) \in Nat
      BY <1>3, CountType, SMTT(30)
    <3>2. [Taken(d, F, B) EXCEPT !.count = @ + Cardinality(B)] \in LoadRec
      BY <1>4, <3>1, CountedType
    <3>3. load' \in [Load -> LoadRec]
      BY <2>1, <3>2, SetType DEF LoadAll
    <3>4. table' \in [Row -> Version]
      BY <1>0, <1>3, <2>1, TableType DEF LoadAll, TypeOK, LoadRec
    <3> QED
      BY <2>1, <3>3, <3>4 DEF LoadAll, Cut, TypeOK, Risk
  <2>2. CASE LoadEach(l, F, B)
    <3>1. PICK seq \in SetToSeqs(B) :
            LET out == Fallback(seq, d.read)
            IN /\ table' = Onto(table, d.read, out.kept)
               /\ Set(l, [Taken(d, F, B) EXCEPT !.count = @ + out.counted,
                                                !.failed = @ \cup out.failed,
                                                !.lost = @ \cup (B \ out.kept)])
      BY <2>2 DEF LoadEach
    <3> DEFINE out == Fallback(seq, d.read)
    <3>2. out.kept \subseteq B /\ out.counted \in Nat /\ out.failed \subseteq B
      BY <1>3, FallbackType
    <3> HIDE DEF out
    <3>3. out.failed \in SUBSET Row /\ B \ out.kept \in SUBSET Row
      BY <1>3, <3>2, SMTT(30)
    <3>4. [Taken(d, F, B) EXCEPT !.count = @ + out.counted,
                                 !.failed = @ \cup out.failed,
                                 !.lost = @ \cup (B \ out.kept)] \in LoadRec
      BY <1>4, <3>2, <3>3, CountedType
    <3>5. load' \in [Load -> LoadRec]
      BY <3>1, <3>4, SetType DEF out
    <3>6. table' \in [Row -> Version]
      BY <1>0, <1>3, <3>1, <3>2, TableType DEF TypeOK, LoadRec, out
    <3> QED
      BY <2>2, <3>5, <3>6, SMTT(30) DEF LoadEach, Cut, TypeOK, Risk
  <2> QED
    BY <1>2, <2>1, <2>2
<1> QED
  BY <1>5, StepType DEF LoadBatch, TypeOK

(* The end of run_db_load.                                                 *)
LEMMA FinishType ==
  ASSUME TypeOK, NEW l \in Load, Finish(l)
  PROVE  TypeOK'
<1>1. load' \in [Load -> LoadRec]
  BY IdleType, SetType DEF Finish, End
<1>2. lastSynced' \in Nat
  BY DEF Finish, TypeOK, LoadRec
<1>3. risk' \subseteq Risk
  BY RiskType DEF Finish
<1> QED
  BY <1>1, <1>2, <1>3, StepType DEF Finish, TypeOK

(* The steps of a diff load.                                               *)
LEMMA DiffType ==
  ASSUME TypeOK, NEW l \in Load, DiffStep(l)
  PROVE  TypeOK'
<1> DEFINE d == load[l]
<1>0. d \in LoadRec
  BY DEF TypeOK, LoadRec
<1>1. CASE ReadSourceKeys(l)
  <2>1. [d EXCEPT !.at = "compare", !.read = source] \in LoadRec
    BY <1>0 DEF TypeOK, LoadRec, At
  <2>2. load' \in [Load -> LoadRec]
    BY <1>1, <2>1, SetType DEF ReadSourceKeys
  <2> QED
    BY <1>1, <2>2, StepType DEF ReadSourceKeys, TypeOK
<1>2. CASE Compare(l)
  <2> DEFINE L == RowsOf(d.read) \ RowsOf(table)
  <2>1. L \in SUBSET Row /\ Orphans(d) \in SUBSET Row
    BY TableType DEF Orphans
  <2>2. [d EXCEPT !.at = "copying", !.left = L, !.gone = Orphans(d)] \in LoadRec
    BY <1>0, <2>1 DEF LoadRec, At
  <2>3. load' \in [Load -> LoadRec]
    BY <1>2, <2>2, SetType DEF Compare
  <2> QED
    BY <1>2, <2>3, StepType DEF Compare, TypeOK
<1>3. CASE CopyNew(l)
  <2>1. PICK B \in kSubset(Min({d.size, Cardinality(d.left)}), d.left) :
          /\ table' = Onto(table, source, B \cap RowsOf(source))
          /\ Set(l, [d EXCEPT !.left = @ \ B,
                              !.count = @ + Cardinality(B \cap RowsOf(source))])
    BY <1>3 DEF CopyNew
  <2>2. B \subseteq d.left /\ d.left \in SUBSET Row
    BY <1>0 DEF kSubset, LoadRec
  <2>3. B \cap RowsOf(source) \in SUBSET Row /\ Cardinality(B \cap RowsOf(source)) \in Nat
    BY <2>2, CountType, SMTT(30)
  <2>4. [d EXCEPT !.left = @ \ B,
                  !.count = @ + Cardinality(B \cap RowsOf(source))] \in LoadRec
    BY <1>0, <2>2, <2>3, d.left \ B \in SUBSET Row, CountedType
  <2>5. load' \in [Load -> LoadRec]
    BY <2>1, <2>4, SetType
  <2>6. table' \in [Row -> Version]
    BY <2>1, <2>3, TableType DEF TypeOK
  <2> QED
    BY <1>3, <2>5, <2>6, StepType DEF CopyNew, TypeOK
<1>4. CASE DeleteOrphans(l)
  <2>1. load' \in [Load -> LoadRec]
    BY <1>4, IdleType, SetType DEF DeleteOrphans, End
  <2>2. table' \in [Row -> Version]
    BY <1>0, <1>4, TableType DEF DeleteOrphans, TypeOK, LoadRec
  <2>3. risk' \subseteq Risk
    BY <1>4 DEF DeleteOrphans, TypeOK, Risk
  <2> QED
    BY <1>4, <2>1, <2>2, <2>3, StepType DEF DeleteOrphans, TypeOK
<1> QED
  BY <1>1, <1>2, <1>3, <1>4 DEF DiffStep

(* The steps of run_db_batch_job after its start.                          *)
LEMMA BatchType ==
  ASSUME TypeOK, NEW b \in Load,
         Truncate(b) \/ BatchExtract(b) \/ BatchLoadRows(b) \/ BatchMark(b) \/ BatchMarkTable(b)
  PROVE  TypeOK'
<1> DEFINE d == load[b]
<1>0. d \in LoadRec
  BY DEF TypeOK, LoadRec
<1>1. CASE Truncate(b)
  <2>1. [d EXCEPT !.at = IF d.mode = "diff" THEN "keys" ELSE "truncated"] \in LoadRec
    BY <1>0 DEF LoadRec, At
  <2>2. load' \in [Load -> LoadRec]
    BY <1>1, <2>1, SetType DEF Truncate
  <2>3. table' \in [Row -> Version] /\ risk' \subseteq Risk
    BY <1>1, TableType DEF Truncate, TypeOK, Risk
  <2> QED
    BY <1>1, <2>2, <2>3, StepType DEF Truncate, TypeOK
<1>2. CASE BatchExtract(b)
  <2> DEFINE S == AskedAgain(d.since)
  <2>1. S \in SUBSET Row
    BY TableType DEF AskedAgain
  <2>2. Select(S) \in [Row -> Version]
    BY <2>1, TableType DEF TypeOK
  <2>3. [d EXCEPT !.at = "loading", !.how = "upsert", !.read = Select(S), !.left = S] \in LoadRec
    BY <1>0, <2>1, <2>2 DEF LoadRec, At
  <2>4. load' \in [Load -> LoadRec]
    BY <1>2, <2>3, SetType DEF BatchExtract
  <2> QED
    BY <1>2, <2>4, StepType DEF BatchExtract, TypeOK
<1>3. CASE BatchLoadRows(b)
  <2>1. PICK B \in kSubset(Min({d.size, Cardinality(d.left)}), d.left) :
          /\ table' = Onto(table, d.read, B)
          /\ Set(b, [d EXCEPT !.left = @ \ B, !.count = @ + Cardinality(B),
                              !.newest = Max({@, Newest(d.read, B)})])
    BY <1>3 DEF BatchLoadRows, BatchUpsert
  <2>2. B \subseteq d.left /\ d.left \in SUBSET Row
    BY <1>0 DEF kSubset, LoadRec
  <2>3. Cardinality(B) \in Nat /\ Max({d.newest, Newest(d.read, B)}) \in Nat
    BY <1>0, <2>2, CountType, NewestIs, MaxIs, SMTT(30) DEF LoadRec
  <2>4. [d EXCEPT !.left = @ \ B, !.count = @ + Cardinality(B),
                  !.newest = Max({@, Newest(d.read, B)})] \in LoadRec
    BY <1>0, <2>2, <2>3, d.left \ B \in SUBSET Row, CountedType
  <2>5. load' \in [Load -> LoadRec]
    BY <2>1, <2>4, SetType
  <2>6. table' \in [Row -> Version]
    BY <1>0, <2>1, <2>2, TableType DEF TypeOK, LoadRec
  <2>7. made' \in BOOLEAN
    BY <1>3 DEF BatchLoadRows
  <2> QED
    BY <1>3, <2>5, <2>6, <2>7, StepType DEF BatchLoadRows, TypeOK
<1>4. CASE BatchMark(b)
  <2>1. [d EXCEPT !.at = "marking"] \in LoadRec
    BY <1>0 DEF LoadRec, At
  <2>2. load' \in [Load -> LoadRec]
    BY <1>4, <2>1, IdleType, SetType DEF BatchMark, End
  <2>3. batchSynced' \in Nat
    BY <1>0, <1>4 DEF BatchMark, TypeOK, LoadRec
  <2>4. risk' \subseteq Risk
    BY <1>4, RiskType DEF BatchMark, TypeOK, Risk
  <2> QED
    BY <1>4, <2>2, <2>3, <2>4, StepType DEF BatchMark, TypeOK
<1>5. CASE BatchMarkTable(b)
  <2>1. load' \in [Load -> LoadRec]
    BY <1>5, IdleType, SetType DEF BatchMarkTable, End
  <2>2. lastSynced' \in Nat
    BY <1>0, <1>5 DEF BatchMarkTable, LoadRec
  <2> QED
    BY <1>5, <2>1, <2>2, StepType DEF BatchMarkTable, TypeOK
<1> QED
  BY <1>1, <1>2, <1>3, <1>4, <1>5

(* Every step keeps the types.                                             *)
LEMMA NextType == TypeOK /\ [Next]_vars => TypeOK'
<1> SUFFICES ASSUME TypeOK, [Next]_vars PROVE TypeOK'
  OBVIOUS
<1>1. CASE UNCHANGED vars
  BY <1>1 DEF vars, TypeOK
<1>2. CASE \/ \E r \in Row : SourceWrite(r) \/ SourceDelete(r)
           \/ Configure
  BY <1>2, SourceType
<1>3. ASSUME NEW l \in EtlLoad, EtlStep(l) PROVE TypeOK'
  <2> l \in Load
    BY DEF Load
  <2> QED
    BY <1>3, StartType, ExtractType, PrepareType, LoadBatchType, EndType, FinishType DEF EtlStep
<1>4. ASSUME NEW b \in BatchLoad, BatchStep(b) PROVE TypeOK'
  <2> b \in Load
    BY DEF Load
  <2> QED
    BY <1>4, StartType, BatchType DEF BatchStep
<1>5. ASSUME NEW l \in Load, DiffStep(l) \/ Fail(l) PROVE TypeOK'
  BY <1>5, DiffType, EndType
<1> QED
  BY <1>1, <1>2, <1>3, <1>4, <1>5 DEF Next

(* Type correctness: TypeOK holds in every behaviour of the loads, for any *)
(* rows, jobs, time stamps, batch sizes and limits.                        *)
THEOREM TypeCorrect == Spec => []TypeOK
BY InitType, NextType, PTL DEF Spec

-----------------------------------------------------------------------------
(* A step that writes the variables of one active load leaves the others   *)
(* alone: those that are not disturbed do not exist.                       *)
LEMMA SetSolo ==
  ASSUME TypeOK, Solo, NEW l \in Active, NEW rec, Set(l, rec),
         rec.at = "idle" \/ rec.alone = load[l].alone
  PROVE  Solo'
<1> SUFFICES ASSUME NEW k \in Load, load'[k].alone, load'[k].at # "idle"
             PROVE  Active' = {k}
  BY DEF Solo
<1>1. l \in Load /\ load' = [load EXCEPT ![l] = rec]
  BY DEF Active, Set
<1>2. load'[l] = rec /\ \A m \in Load \ {l} : load'[m] = load[m]
  BY <1>1 DEF TypeOK
<1>3. Active' \subseteq Active
  BY <1>2 DEF Active
<1>4. Active = {k}
  BY <1>2 DEF Solo, Active
<1> QED
  BY <1>3, <1>4 DEF Active

(* What Begin writes: the record of the new load, and the mark of the      *)
(* others.                                                                 *)
LEMMA BeginFields ==
  ASSUME TypeOK, NEW l \in Load, NEW rec \in LoadRec, Begin(l, rec)
  PROVE  /\ load'[l].at = rec.at /\ load'[l].left = rec.left /\ load'[l].read = rec.read
         /\ load'[l].alone => Active = {}
         /\ \A k \in Load \ {l} :
              /\ load'[k].at = load[k].at
              /\ load'[k].left = load[k].left /\ load'[k].read = load[k].read
              /\ k \in Active => ~load'[k].alone
<1>1. \A k \in Load : load[k] \in LoadRec
  BY DEF TypeOK, LoadRec
<1>2. load'[l] = [rec EXCEPT !.alone = (Active = {})]
  BY DEF Begin
<1>3. /\ load'[l].at = rec.at /\ load'[l].left = rec.left /\ load'[l].read = rec.read
      /\ load'[l].alone = (Active = {})
  BY <1>2 DEF LoadRec
<1>4. ASSUME NEW k \in Load \ {l}
      PROVE  /\ load'[k].at = load[k].at
             /\ load'[k].left = load[k].left /\ load'[k].read = load[k].read
             /\ k \in Active => ~load'[k].alone
  <2>1. load'[k] = IF k \in Active THEN [load[k] EXCEPT !.alone = FALSE] ELSE load[k]
    BY DEF Begin
  <2>2. CASE k \in Active
    <3>1. load'[k] = [load[k] EXCEPT !.alone = FALSE] /\ load[k] \in LoadRec
      BY <1>1, <2>1, <2>2
    <3> QED
      BY <3>1 DEF LoadRec
  <2>3. CASE k \notin Active
    BY <2>1, <2>3
  <2> QED
    BY <2>2, <2>3
<1> QED
  BY <1>3, <1>4

(* Whoever starts is alone only if nobody else is active, and takes the    *)
(* mark from the others.                                                   *)
LEMMA BeginSolo ==
  ASSUME TypeOK, Solo, NEW l \in Load, NEW rec \in LoadRec, Begin(l, rec)
  PROVE  Solo'
<1> SUFFICES ASSUME NEW k \in Load, load'[k].alone, load'[k].at # "idle"
             PROVE  Active' = {k}
  BY DEF Solo
<1>1. k = l
  <2> SUFFICES ASSUME k # l PROVE FALSE
    OBVIOUS
  <2>1. k \in Active
    BY BeginFields DEF Active
  <2> QED
    BY <2>1, BeginFields
<1>2. Active = {}
  BY <1>1, BeginFields
<1>3. \A m \in Load \ {l} : load'[m].at = "idle"
  BY <1>2, BeginFields DEF Active
<1> QED
  BY <1>1, <1>3 DEF Active

(* Loads that have just begun have not opened a cursor nor written.        *)
LEMMA BeginStays ==
  ASSUME TypeOK, AllLeft, NEW l \in Load, NEW rec \in LoadRec, Begin(l, rec),
         rec.at \notin {"opened", "loading"}
  PROVE  AllLeft' /\ LoadedStays'
<1>1. AllLeft'
  BY BeginFields DEF AllLeft, RowsOf
<1>2. \A m \in Load : ~(load'[m].alone /\ load'[m].at = "loading")
  BY BeginFields DEF Active
<1> QED
  BY <1>1, <1>2 DEF LoadedStays

(* A load that steps disturbs nobody who is alone, so only its own rows    *)
(* have to be looked at.                                                   *)
LEMMA SetStays ==
  ASSUME TypeOK, Solo, AllLeft, LoadedStays, NEW l \in Active, NEW rec, Set(l, rec),
         rec.at = "opened" => rec.left = RowsOf(rec.read),
         rec.alone /\ rec.at = "loading" =>
           \A r \in RowsOf(rec.read) \ (rec.left \cup rec.lost) : table'[r] = rec.read[r]
  PROVE  AllLeft' /\ LoadedStays'
<1>1. l \in Load /\ load' = [load EXCEPT ![l] = rec]
  BY DEF Active, Set
<1>2. load'[l] = rec /\ \A m \in Load \ {l} : load'[m] = load[m]
  BY <1>1 DEF TypeOK
<1>3. AllLeft'
  BY <1>2 DEF AllLeft, RowsOf
<1>4. ASSUME NEW k \in Load, load'[k].alone, load'[k].at = "loading"
      PROVE  k = l
  <2> SUFFICES ASSUME k # l PROVE FALSE
    OBVIOUS
  <2>1. Active = {k}
    BY <1>2, <1>4 DEF Solo
  <2> QED
    BY <2>1
<1> QED
  BY <1>2, <1>3, <1>4 DEF LoadedStays, RowsOf

(* The starts of both kinds of load.                                       *)
LEMMA StartStays ==
  ASSUME IInv, NEW l \in Load, Start(l) \/ BatchStart(l)
  PROVE  Solo' /\ AllLeft' /\ LoadedStays'
<1> DEFINE at == IF settings.mode = "diff" THEN "keys" ELSE "started"
           since == IF settings.mode = "incremental" THEN lastSynced ELSE 0
           bsince == IF settings.mode = "incremental" THEN batchSynced ELSE 0
           rec == [Idle EXCEPT !.at = at, !.mode = settings.mode,
                           !.skip = settings.skip, !.orphans = settings.orphans,
                           !.size = settings.size, !.since = since]
           brec == [Idle EXCEPT !.at = "started", !.mode = settings.mode,
                           !.orphans = settings.orphans, !.size = settings.size,
                           !.since = bsince]
<1>1. /\ settings.mode \in Mode /\ settings.skip \in BOOLEAN
      /\ settings.orphans \in BOOLEAN /\ settings.size \in Sizes
  BY DEF IInv, TypeOK, Settings
<1>2. at \in At /\ "started" \in At /\ since \in Nat /\ bsince \in Nat
  BY DEF IInv, TypeOK, At
<1>3. rec \in LoadRec /\ brec \in LoadRec
  <2> HIDE DEF at, since, bsince
  <2>1. rec \in LoadRec
    BY <1>1, <1>2, IdleType DEF LoadRec
  <2>2. brec \in LoadRec
    BY <1>1, <1>2, IdleType DEF LoadRec
  <2> QED
    BY <2>1, <2>2
<1>4. rec.at \notin {"opened", "loading"} /\ brec.at \notin {"opened", "loading"}
  BY DEF Idle
<1>5. CASE Start(l)
  <2>1. Begin(l, rec)
    BY <1>5 DEF Start
  <2> HIDE DEF rec
  <2> QED
    BY <1>3, <1>4, <2>1, BeginSolo, BeginStays DEF IInv
<1>6. CASE BatchStart(l)
  <2>1. Begin(l, brec)
    BY <1>6 DEF BatchStart
  <2> HIDE DEF brec
  <2> QED
    BY <1>3, <1>4, <2>1, BeginSolo, BeginStays DEF IInv
<1> QED
  BY <1>5, <1>6

(* The steps after which a load has not written any row of its cursor.     *)
LEMMA QuietStays ==
  ASSUME IInv, NEW l \in Active, NEW rec, Set(l, rec),
         rec.at = "idle" \/ rec.alone = load[l].alone,
         rec.at \notin {"opened", "loading"}
  PROVE  Solo' /\ AllLeft' /\ LoadedStays'
BY SetSolo, SetStays DEF IInv

(* What a SELECT of some rows returns are those rows.                      *)
LEMMA SelectRows ==
  ASSUME NEW S \in SUBSET RowsOf(source)
  PROVE  RowsOf(Select(S)) = S
BY DEF RowsOf, Select

(* run_db_load.                                                            *)
LEMMA EtlStays ==
  ASSUME IInv, NEW l \in Load, EtlStep(l)
  PROVE  Solo' /\ AllLeft' /\ LoadedStays'
<1> DEFINE d == load[l]
<1>0. d \in LoadRec
  BY DEF IInv, TypeOK, LoadRec
<1>1. CASE Start(l)
  BY <1>1, StartStays
<1>2. CASE Extract(l)
  <2> DEFINE S == Asked(d.since)
             rec == [d EXCEPT !.at = "opened", !.read = Select(S), !.left = S]
  <2>1. l \in Active /\ Set(l, rec)
    BY <1>2 DEF Extract, Active
  <2>2. S \in SUBSET RowsOf(source)
    BY DEF Asked
  <2>3. rec.at = "opened" /\ rec.left = S /\ rec.read = Select(S) /\ rec.alone = d.alone
    BY <1>0 DEF LoadRec
  <2>4. rec.left = RowsOf(rec.read)
    BY <2>2, <2>3, SelectRows
  <2> HIDE DEF rec
  <2> QED
    BY <2>1, <2>3, <2>4, SetSolo, SetStays DEF IInv
<1>3. CASE Prepare(l)
  <2>1. PICK how : Set(l, [d EXCEPT !.at = "loading", !.how = how])
    BY <1>3 DEF Prepare
  <2> DEFINE rec == [d EXCEPT !.at = "loading", !.how = how]
  <2>2. l \in Active /\ d.at = "opened"
    BY <1>3 DEF Prepare, Active
  <2>3. rec.at = "loading" /\ rec.left = d.left /\ rec.read = d.read /\ rec.alone = d.alone
    BY <1>0 DEF LoadRec
  <2>4. RowsOf(rec.read) \ (rec.left \cup rec.lost) = {}
    BY <2>2, <2>3 DEF IInv, AllLeft
  <2> HIDE DEF rec
  <2>5. Set(l, rec)
    BY <2>1 DEF rec
  <2> QED
    BY <2>2, <2>3, <2>4, <2>5, SetSolo, SetStays DEF IInv
<1>4. CASE LoadBatch(l)
  <2>1. PICK F \in Fetch(l) : \E B \in Room(l, F) : LoadAll(l, F, B) \/ LoadEach(l, F, B)
    BY <1>4 DEF LoadBatch
  <2>2. PICK B \in Room(l, F) : LoadAll(l, F, B) \/ LoadEach(l, F, B)
    BY <2>1
  <2>3. F \subseteq d.left /\ B \subseteq F /\ d.left \in SUBSET Row
    BY <1>0, <2>2, Fetched DEF LoadRec
  <2>4. l \in Active /\ d.at = "loading"
    BY <1>4 DEF LoadBatch, Active
  <2>5. Taken(d, F, B).at = "loading" /\ Taken(d, F, B).read = d.read
        /\ Taken(d, F, B).left = d.left \ F /\ Taken(d, F, B).lost = d.lost \cup (F \ B)
        /\ Taken(d, F, B).alone = d.alone
    BY <1>0, <2>4 DEF LoadRec, Taken
  <2>6. d.alone => \A r \in RowsOf(d.read) \ (d.left \cup d.lost) : table[r] = d.read[r]
    BY <2>4 DEF IInv, LoadedStays
  <2>7. CASE LoadAll(l, F, B)
    <3> DEFINE rec == [Taken(d, F, B) EXCEPT !.count = @ + Cardinality(B)]
    <3>1. /\ rec.at = "loading" /\ rec.read = d.read /\ rec.left = d.left \ F
          /\ rec.lost = d.lost \cup (F \ B) /\ rec.alone = d.alone
      BY <2>5 DEF Taken
    <3>2. Set(l, rec) /\ table' = Onto(table, d.read, B)
      BY <2>7 DEF LoadAll
    <3> HIDE DEF rec
    <3>3. rec.alone => \A r \in RowsOf(rec.read) \ (rec.left \cup rec.lost) : table'[r] = rec.read[r]
      BY <2>3, <2>6, <3>1, <3>2 DEF Onto, RowsOf
    <3> QED
      BY <2>4, <3>1, <3>2, <3>3, SetSolo, SetStays DEF IInv
  <2>8. CASE LoadEach(l, F, B)
    <3>1. PICK seq \in SetToSeqs(B) :
            LET out == Fallback(seq, d.read)
            IN /\ table' = Onto(table, d.read, out.kept)
               /\ Set(l, [Taken(d, F, B) EXCEPT !.count = @ + out.counted,
                                                !.failed = @ \cup out.failed,
                                                !.lost = @ \cup (B \ out.kept)])
      BY <2>8 DEF LoadEach
    <3> DEFINE out == Fallback(seq, d.read)
               rec == [Taken(d, F, B) EXCEPT !.count = @ + out.counted,
                                             !.failed = @ \cup out.failed,
                                             !.lost = @ \cup (B \ out.kept)]
    <3>2. out.kept \subseteq B
      BY <2>3, FallbackType
    <3>3. Set(l, rec) /\ table' = Onto(table, d.read, out.kept)
      BY <3>1
    <3> HIDE DEF out
    <3>4. /\ rec.at = "loading" /\ rec.read = d.read /\ rec.left = d.left \ F
          /\ rec.lost = (d.lost \cup (F \ B)) \cup (B \ out.kept) /\ rec.alone = d.alone
      BY <2>5 DEF Taken
    <3> HIDE DEF rec
    <3>5. rec.alone => \A r \in RowsOf(rec.read) \ (rec.left \cup rec.lost) : table'[r] = rec.read[r]
      BY <2>3, <2>6, <3>2, <3>3, <3>4 DEF Onto, RowsOf
    <3> QED
      BY <2>4, <3>3, <3>4, <3>5, SetSolo, SetStays, SMTT(30) DEF IInv
  <2> QED
    BY <2>2, <2>7, <2>8
<1>5. CASE Cancel(l) \/ Finish(l)
  <2>1. l \in Active /\ Set(l, Idle)
    BY <1>5 DEF Cancel, Finish, End, Active
  <2> QED
    BY <2>1, QuietStays DEF Idle
<1> QED
  BY <1>1, <1>2, <1>3, <1>4, <1>5 DEF EtlStep

(* A diff load never opens the cursor of the others.                       *)
LEMMA DiffStays ==
  ASSUME IInv, NEW l \in Load, DiffStep(l) \/ Fail(l)
  PROVE  Solo' /\ AllLeft' /\ LoadedStays'
<1> DEFINE d == load[l]
<1>0. d \in LoadRec
  BY DEF IInv, TypeOK, LoadRec
<1>1. CASE ReadSourceKeys(l)
  <2> DEFINE rec == [d EXCEPT !.at = "compare", !.read = source]
  <2>1. l \in Active /\ Set(l, rec)
    BY <1>1 DEF ReadSourceKeys, Active
  <2>2. rec.at = "compare" /\ rec.alone = d.alone
    BY <1>0 DEF LoadRec
  <2> HIDE DEF rec
  <2> QED
    BY <2>1, <2>2, QuietStays
<1>2. CASE Compare(l)
  <2> DEFINE rec == [d EXCEPT !.at = "copying", !.left = RowsOf(d.read) \ RowsOf(table),
                              !.gone = Orphans(d)]
  <2>1. l \in Active /\ Set(l, rec)
    BY <1>2 DEF Compare, Active
  <2>2. rec.at = "copying" /\ rec.alone = d.alone
    BY <1>0 DEF LoadRec
  <2> HIDE DEF rec
  <2> QED
    BY <2>1, <2>2, QuietStays
<1>3. CASE CopyNew(l)
  <2>1. PICK B : Set(l, [d EXCEPT !.left = @ \ B,
                                  !.count = @ + Cardinality(B \cap RowsOf(source))])
    BY <1>3 DEF CopyNew
  <2> DEFINE rec == [d EXCEPT !.left = @ \ B,
                              !.count = @ + Cardinality(B \cap RowsOf(source))]
  <2>2. l \in Active /\ d.at = "copying"
    BY <1>3 DEF CopyNew, Active
  <2>3. rec.at = "copying" /\ rec.alone = d.alone
    BY <1>0, <2>2 DEF LoadRec
  <2>4. Set(l, rec)
    BY <2>1
  <2> HIDE DEF rec
  <2> QED
    BY <2>2, <2>3, <2>4, QuietStays
<1>4. CASE DeleteOrphans(l) \/ Fail(l)
  <2>1. l \in Active /\ Set(l, Idle)
    BY <1>4 DEF DeleteOrphans, Fail, End, Active
  <2> QED
    BY <2>1, QuietStays DEF Idle
<1> QED
  BY <1>1, <1>2, <1>3, <1>4 DEF DiffStep

(* run_db_batch_job.                                                       *)
LEMMA BatchStepStays ==
  ASSUME IInv, NEW b \in Load, BatchStep(b)
  PROVE  Solo' /\ AllLeft' /\ LoadedStays'
<1> DEFINE d == load[b]
<1>0. d \in LoadRec
  BY DEF IInv, TypeOK, LoadRec
<1>1. CASE BatchStart(b)
  BY <1>1, StartStays
<1>2. CASE Truncate(b)
  <2> DEFINE rec == [d EXCEPT !.at = IF d.mode = "diff" THEN "keys" ELSE "truncated"]
  <2>1. b \in Active /\ Set(b, rec)
    BY <1>2 DEF Truncate, Active
  <2>2. rec.at \in {"keys", "truncated"} /\ rec.alone = d.alone
    BY <1>0 DEF LoadRec
  <2> HIDE DEF rec
  <2> QED
    BY <2>1, <2>2, QuietStays
<1>3. CASE BatchExtract(b)
  <2> DEFINE S == AskedAgain(d.since)
             rec == [d EXCEPT !.at = "loading", !.how = "upsert",
                              !.read = Select(S), !.left = S]
  <2>1. b \in Active /\ Set(b, rec)
    BY <1>3 DEF BatchExtract, Active
  <2>2. S \in SUBSET RowsOf(source)
    BY DEF AskedAgain
  <2>3. rec.at = "loading" /\ rec.left = S /\ rec.read = Select(S) /\ rec.alone = d.alone
    BY <1>0 DEF LoadRec
  <2>4. RowsOf(rec.read) \ (rec.left \cup rec.lost) = {}
    BY <2>2, <2>3, SelectRows
  <2> HIDE DEF rec
  <2> QED
    BY <2>1, <2>3, <2>4, SetSolo, SetStays DEF IInv
<1>4. CASE BatchLoadRows(b)
  <2>1. PICK B \in kSubset(Min({d.size, Cardinality(d.left)}), d.left) :
          /\ table' = Onto(table, d.read, B)
          /\ Set(b, [d EXCEPT !.left = @ \ B, !.count = @ + Cardinality(B),
                              !.newest = Max({@, Newest(d.read, B)})])
    BY <1>4 DEF BatchLoadRows, BatchUpsert
  <2> DEFINE rec == [d EXCEPT !.left = @ \ B, !.count = @ + Cardinality(B),
                              !.newest = Max({@, Newest(d.read, B)})]
  <2>2. b \in Active /\ d.at = "loading"
    BY <1>4 DEF BatchLoadRows, Active
  <2>3. /\ rec.at = "loading" /\ rec.left = d.left \ B /\ rec.read = d.read
        /\ rec.lost = d.lost /\ rec.alone = d.alone
    BY <1>0, <2>2 DEF LoadRec
  <2>4. Set(b, rec)
    BY <2>1
  <2> HIDE DEF rec
  <2>5. d.alone => \A r \in RowsOf(d.read) \ (d.left \cup d.lost) : table[r] = d.read[r]
    BY <2>2 DEF IInv, LoadedStays
  <2>6. rec.alone => \A r \in RowsOf(rec.read) \ (rec.left \cup rec.lost) : table'[r] = rec.read[r]
    BY <2>1, <2>3, <2>5 DEF Onto, RowsOf
  <2> QED
    BY <2>2, <2>3, <2>4, <2>6, SetSolo, SetStays DEF IInv
<1>5. CASE BatchMark(b)
  <2>1. b \in Active
    BY <1>5 DEF BatchMark, Active
  <2>2. CASE Set(b, Idle)
    BY <2>1, <2>2, QuietStays DEF Idle
  <2>3. CASE Set(b, [d EXCEPT !.at = "marking"])
    <3> DEFINE rec == [d EXCEPT !.at = "marking"]
    <3>1. rec.at = "marking" /\ rec.alone = d.alone
      BY <1>0 DEF LoadRec
    <3> HIDE DEF rec
    <3>2. Set(b, rec)
      BY <2>3 DEF rec
    <3> QED
      BY <2>1, <3>1, <3>2, QuietStays
  <2> QED
    BY <1>5, <2>2, <2>3 DEF BatchMark, End
<1>6. CASE BatchMarkTable(b)
  <2>1. b \in Active /\ Set(b, Idle)
    BY <1>6 DEF BatchMarkTable, End, Active
  <2> QED
    BY <2>1, QuietStays DEF Idle
<1> QED
  BY <1>1, <1>2, <1>3, <1>4, <1>5, <1>6 DEF BatchStep

-----------------------------------------------------------------------------
(* The inductive invariant holds at first and is kept by every step.       *)
THEOREM Invariance == Spec => []IInv
<1>1. Init => IInv
  BY InitType DEF Init, IInv, Idle, Solo, AllLeft, LoadedStays
<1>2. IInv /\ [Next]_vars => IInv'
  <2> SUFFICES ASSUME IInv, [Next]_vars PROVE IInv'
    OBVIOUS
  <2>1. TypeOK'
    BY NextType DEF IInv
  <2>2. CASE UNCHANGED <<load, table>>
    BY <2>1, <2>2 DEF IInv, Solo, AllLeft, LoadedStays, Active, RowsOf
  <2>3. ASSUME NEW l \in EtlLoad, EtlStep(l) PROVE IInv'
    BY <2>1, <2>3, EtlStays DEF IInv, Load
  <2>4. ASSUME NEW b \in BatchLoad, BatchStep(b) PROVE IInv'
    BY <2>1, <2>4, BatchStepStays DEF IInv, Load
  <2>5. ASSUME NEW l \in Load, DiffStep(l) \/ Fail(l) PROVE IInv'
    BY <2>1, <2>5, DiffStays DEF IInv
  <2>6. CASE \/ \E r \in Row : SourceWrite(r) \/ SourceDelete(r)
             \/ Configure
             \/ UNCHANGED vars
    BY <2>2, <2>6 DEF SourceWrite, SourceDelete, Configure, vars
  <2> QED
    BY <2>3, <2>4, <2>5, <2>6 DEF Next
<1> QED
  BY <1>1, <1>2, PTL DEF Spec

(* LoadedStays: what an undisturbed load has read and not recorded as lost *)
(* is in the target as it was read, batch after batch, whatever the batch  *)
(* sizes, the row limit, refused rows and changes of the settings.         *)
THEOREM BatchesStay == Spec => []LoadedStays
BY Invariance, PTL DEF IInv

-----------------------------------------------------------------------------
(* The checkpoints: what the loads know, part by part.                     *)

(* The newest stamp a load can have recorded.                              *)
Top(d) == Newest(d.read, Row)

(* The rows of src that a checkpoint c vouches for: rows with its own      *)
(* stamp no longer after a tie.                                            *)
Passed(c, src, rk) ==
  {r \in RowsOf(src) : IF "tie" \in rk THEN Stamp[src[r]] < c ELSE Stamp[src[r]] <= c}

Vouched(src, rk, ls, bs) == Passed(ls, src, rk) \cup Passed(bs, src, rk)

(* What the phases say of the variables of load l.                         *)
Shape(l, d) ==
  /\ d.newest <= Top(d)
  /\ d.at \notin {"loading", "marking"} => d.newest = 0
  /\ d.since # 0 => d.mode = "incremental"
  /\ d.at \in {"keys", "compare", "copying"} => d.mode = "diff"
  /\ d.at \in {"opened", "loading", "copying"} => d.left \subseteq RowsOf(d.read)
  /\ d.at = "copying" => d.gone \cap RowsOf(d.read) = {}
  /\ d.at \in {"truncated", "marking"} => l \in BatchLoad
  /\ d.at = "opened" => l \in EtlLoad

Shapes == \A l \in Load : Shape(l, load[l])

(* Between its two marks a batch has the newest stamp of all, and no other *)
(* batch runs.                                                             *)
Marked == \A l \in Load : load[l].at = "marking" => load[l].newest = batchSynced
OneBatch == \A b, c \in BatchLoad \cap Active : b = c

(* Who needs the target table has it.                                      *)
NeedsTable(l, d) == d.mode = "diff" \/ (l \in EtlLoad /\ d.at = "loading")
MadeFirst ==
  /\ made \/ table = Nothing
  /\ \A l \in Active : NeedsTable(l, load[l]) => made

(* Versions and stamps that were read are not later than the last write.   *)
ReadBefore(d, c) == d.since <= Stamp[c] /\ \A r \in Row : d.read[r] <= c
Seen ==
  /\ \A r \in Row : source[r] <= clock
  /\ lastSynced <= Stamp[clock] /\ batchSynced <= Stamp[clock]
  /\ \A l \in Load : ReadBefore(load[l], clock)

(* The history knows of overlaps and of rows lost.                         *)
NotedFor(d, rk) ==
  /\ ~d.alone => "overlap" \in rk
  /\ d.lost # {} => rk \cap {"limit", "skip"} # {}
Noted == \A l \in Active : NotedFor(load[l], risk)

Structure == Shapes /\ Marked /\ OneBatch /\ MadeFirst /\ Seen /\ Noted

(* Before its SELECT: the rows an incremental load will not ask for.       *)
Asks(d, src, tab, rk) ==
  d.at \in {"started", "truncated"} /\ rk \subseteq {"tie"} =>
    \A r \in Passed(d.since, src, rk) : tab[r] = src[r]

(* After it: no row that a checkpoint vouches for, or that the load's own  *)
(* mark would, has changed since it was read, unless it needs no reading.  *)
Covers(d, src, tab, rk, ls, bs) ==
  /\ d.at \in {"opened", "loading", "compare", "copying"}
  /\ d.since = 0 \/ rk \subseteq {"tie"}
  => \A r \in Vouched(src, rk, ls, bs) \cup Passed(Top(d), src, rk) :
       \/ src[r] = d.read[r]
       \/ d.since # 0 /\ d.read[r] = 0 /\ tab[r] = src[r]

(* A full load: nothing is in the target but what it has read.             *)
Replaces(l, d, tab) ==
  d.mode = "full" =>
    /\ d.at = "truncated" => tab = Nothing
    /\ d.at = "loading" /\ (d.how = "copy" \/ l \in BatchLoad) =>
         \A r \in Row : tab[r] \in {0, d.read[r]}

(* A diff load: the new keys are copied, or have changed at the source;    *)
(* the orphans are known.                                                  *)
Compares(d, src, tab) ==
  d.at = "copying" =>
    /\ \A r \in RowsOf(d.read) \ d.left : tab[r] # 0 \/ src[r] # d.read[r]
    /\ d.orphans => RowsOf(tab) \subseteq RowsOf(d.read) \cup d.gone

Own(l, d, src, tab, rk, ls, bs) ==
  /\ Asks(d, src, tab, rk)
  /\ Covers(d, src, tab, rk, ls, bs)
  /\ Replaces(l, d, tab)
  /\ Compares(d, src, tab)

Undisturbed ==
  \A l \in Active : load[l].alone =>
    Own(l, load[l], source, table, risk, lastSynced, batchSynced)

(* A load among others: the rows that its mark would vouch for exist.      *)
Shares(d, src, tab, rk) ==
  /\ d.at \in {"started", "truncated"} =>
       \A r \in Passed(d.since, src, rk) : tab[r] # 0
  /\ d.at \in {"opened", "loading"} =>
       \A r \in Passed(Top(d), src, rk) : tab[r] # 0 \/ d.read[r] # 0
  /\ d.at = "loading" => \A r \in RowsOf(d.read) \ d.left : tab[r] # 0

Overlapped ==
  risk \subseteq {"overlap"} =>
    /\ \A r \in Vouched(source, risk, lastSynced, batchSynced) : table[r] # 0
    /\ \A l \in Active : Shares(load[l], source, table, risk)

CheckpointsHold ==
  risk \subseteq {"tie"} =>
    \A r \in Vouched(source, risk, lastSynced, batchSynced) : Fresh(r)

CInv == IInv /\ Structure /\ Undisturbed /\ Overlapped /\ CheckpointsHold

-----------------------------------------------------------------------------
(* Fewer rows have no newer stamp, and older rows no newer one than the    *)
(* last write.                                                             *)
LEMMA NewestWithin ==
  ASSUME NEW f \in [Row -> Version], NEW S \in SUBSET Row
  PROVE  /\ Newest(f, S) <= Newest(f, Row)
         /\ \A c \in Version : (\A r \in Row : f[r] <= c) => Newest(f, S) <= Stamp[c]
<1>1. Newest(f, S) \in Nat /\ Newest(f, Row) \in Nat
  BY NewestIs
<1>2. Newest(f, S) = 0 \/ \E r \in S : Newest(f, S) = Stamp[f[r]]
  BY NewestIs
<1>3. \A r \in Row : Stamp[f[r]] <= Newest(f, Row)
  BY NewestIs
<1>4. \A c \in Version : Stamp[c] \in Nat
  BY Stamps
<1>5. ASSUME NEW c \in Version, \A r \in Row : f[r] <= c
      PROVE  Newest(f, S) <= Stamp[c]
  <2>1. CASE Newest(f, S) = 0
    BY <1>4, <2>1
  <2>2. ASSUME NEW r \in S, Newest(f, S) = Stamp[f[r]] PROVE Newest(f, S) <= Stamp[c]
    BY <1>5, <2>2, Stamps
  <2> QED
    BY <1>2, <2>1, <2>2
<1> QED
  BY <1>1, <1>2, <1>3, <1>5

(* What a load can have recorded is no newer than the last write.          *)
LEMMA TopType ==
  ASSUME NEW d \in LoadRec
  PROVE  /\ Top(d) \in Nat
         /\ \A c \in Version : ReadBefore(d, c) => Top(d) <= Stamp[c]
BY NewestIs, NewestWithin DEF Top, LoadRec, ReadBefore

(* An older checkpoint vouches for no more rows, none at all for no row,   *)
(* and only a tie makes a difference in the history.                       *)
LEMMA PassedIs ==
  ASSUME NEW src \in [Row -> Version], NEW rk
  PROVE  /\ Passed(0, src, rk) = {}
         /\ \A c, d \in Nat : c <= d => Passed(c, src, rk) \subseteq Passed(d, src, rk)
         /\ \A c : Passed(c, src, rk) \subseteq RowsOf(src)
<1>1. \A r \in RowsOf(src) : Stamp[src[r]] \in Nat /\ Stamp[src[r]] # 0
  BY Stamps DEF RowsOf
<1> QED
  BY <1>1 DEF Passed

LEMMA PassedSame ==
  ASSUME NEW src, NEW rk, NEW rl, "tie" \in rk <=> "tie" \in rl
  PROVE  /\ \A c : Passed(c, src, rl) = Passed(c, src, rk)
         /\ \A c, d : Vouched(src, rl, c, d) = Vouched(src, rk, c, d)
BY DEF Passed, Vouched

(* The variables of a load at its end.                                     *)
LEMMA IdleShape ==
  /\ \A l : Shape(l, Idle)
  /\ \A c \in Version : ReadBefore(Idle, c)
  /\ Idle.at = "idle"
<1>1. /\ Idle.at = "idle" /\ Idle.newest = 0 /\ Idle.since = 0
      /\ Idle.read = [r \in Row |-> 0]
  BY DEF Idle
<1>2. Top(Idle) \in Nat
  BY IdleType, TopType
<1>3. \A c \in Version : Stamp[c] \in Nat /\ c \in Nat
  BY Stamps
<1> QED
  BY <1>1, <1>2, <1>3 DEF Shape, ReadBefore

-----------------------------------------------------------------------------
(* A step of one active load and the others.                               *)
LEMMA SetFields ==
  ASSUME TypeOK, NEW l \in Active, NEW rec, Set(l, rec)
  PROVE  /\ l \in Load /\ load'[l] = rec
         /\ \A m \in Load \ {l} : load'[m] = load[m]
         /\ \A m \in Active' : m = l \/ m \in Active
         /\ rec.at = "idle" => l \notin Active'
         /\ Active' \subseteq Load
<1>1. l \in Load /\ load' = [load EXCEPT ![l] = rec]
  BY DEF Active, Set
<1>2. load'[l] = rec /\ \A m \in Load \ {l} : load'[m] = load[m]
  BY <1>1 DEF TypeOK
<1> QED
  BY <1>1, <1>2 DEF Active

(* Only a load that is the only one can be undisturbed after its step.     *)
LEMMA OnlyOwn ==
  ASSUME TypeOK, Solo, NEW l \in Active, NEW rec, Set(l, rec),
         rec.at = "idle" \/ rec.alone = load[l].alone,
         NEW k \in Active', load'[k].alone
  PROVE  k = l /\ load'[k] = rec /\ rec.alone /\ rec.at # "idle"
<1>1. k = l
  <2> SUFFICES ASSUME k # l PROVE FALSE
    OBVIOUS
  <2>1. k \in Active /\ load'[k] = load[k] /\ k \in Load
    BY SetFields
  <2>2. Active = {k}
    BY <2>1 DEF Solo, Active
  <2> QED
    BY <2>2
<1> QED
  BY <1>1, SetFields

(* The structure after a step of a load.                                   *)
LEMMA SetStructure ==
  ASSUME TypeOK, Structure, NEW l \in Active, NEW rec, Set(l, rec),
         Shape(l, rec), ReadBefore(rec, clock),
         UNCHANGED <<source, clock>>,
         lastSynced' <= Stamp[clock], batchSynced' <= Stamp[clock],
         batchSynced' = batchSynced \/ l \in BatchLoad,
         rec.at = "marking" => rec.newest = batchSynced',
         made => made', made' \/ table' = Nothing,
         rec.at # "idle" /\ NeedsTable(l, rec) => made',
         rec.at # "idle" => NotedFor(rec, risk'),
         risk \subseteq risk' \/ Active = {l}
  PROVE  Structure'
<1>1. Shapes'
  BY SetFields DEF Structure, Shapes
<1>2. OneBatch'
  BY SetFields DEF Structure, OneBatch
<1>3. Marked'
  <2> SUFFICES ASSUME NEW k \in Load, load'[k].at = "marking"
               PROVE  load'[k].newest = batchSynced'
    BY DEF Marked
  <2>1. CASE k = l
    BY <2>1, SetFields
  <2>2. CASE k # l
    <3>1. load'[k] = load[k] /\ k \in Active /\ k \in BatchLoad
      BY <2>2, SetFields DEF Structure, Shapes, Shape, Active
    <3>2. batchSynced' = batchSynced
      BY <2>2, <3>1 DEF Structure, OneBatch
    <3> QED
      BY <3>1, <3>2 DEF Structure, Marked
  <2> QED
    BY <2>1, <2>2
<1>4. MadeFirst'
  <2>1. \A k \in Active' : NeedsTable(k, load'[k]) => made'
    <3> SUFFICES ASSUME NEW k \in Active', NeedsTable(k, load'[k]) PROVE made'
      OBVIOUS
    <3>1. CASE k = l
      BY <3>1, SetFields
    <3>2. CASE k # l
      BY <3>2, SetFields DEF Structure, MadeFirst
    <3> QED
      BY <3>1, <3>2
  <2> QED
    BY <2>1 DEF MadeFirst
<1>5. Seen'
  BY SetFields DEF Structure, Seen
<1>6. Noted'
  <2> SUFFICES ASSUME NEW k \in Active' PROVE NotedFor(load'[k], risk')
    BY DEF Noted
  <2>1. CASE k = l
    BY <2>1, SetFields
  <2>2. CASE k # l
    <3>1. k \in Active /\ load'[k] = load[k] /\ risk \subseteq risk'
      BY <2>2, SetFields
    <3>2. NotedFor(load[k], risk)
      BY <3>1 DEF Structure, Noted
    <3> QED
      BY <3>1, <3>2 DEF NotedFor
  <2> QED
    BY <2>1, <2>2
<1> QED
  BY <1>1, <1>2, <1>3, <1>4, <1>5, <1>6 DEF Structure

(* A step that marks nothing: what it writes to the target, as far as a    *)
(* checkpoint vouches for it, is fresh.                                    *)
LEMMA HoldKept ==
  ASSUME CheckpointsHold, "tie" \in risk <=> "tie" \in risk',
         UNCHANGED <<source, lastSynced, batchSynced>>,
         risk' \subseteq {"tie"} =>
           /\ risk \subseteq {"tie"}
           /\ \A r \in Vouched(source, risk, lastSynced, batchSynced) :
                table'[r] \in {table[r], source[r]}
  PROVE  CheckpointsHold'
<1> SUFFICES ASSUME risk' \subseteq {"tie"},
                    NEW r \in Vouched(source', risk', lastSynced', batchSynced')
             PROVE  table'[r] = source'[r]
  BY DEF CheckpointsHold, Fresh
<1>1. r \in Vouched(source, risk, lastSynced, batchSynced)
  BY DEF Vouched, Passed
<1> QED
  BY <1>1 DEF CheckpointsHold, Fresh

(* The same among overlapping loads: no row leaves the target.             *)
LEMMA OverlapKept ==
  ASSUME TypeOK, Overlapped, NEW l \in Active, NEW rec, Set(l, rec),
         "tie" \in risk <=> "tie" \in risk',
         UNCHANGED <<source, lastSynced, batchSynced>>,
         risk' \subseteq {"overlap"} =>
           /\ risk \subseteq {"overlap"}
           /\ \A r \in Row : table[r] # 0 => table'[r] # 0
           /\ rec.at # "idle" => Shares(rec, source, table', risk)
  PROVE  Overlapped'
<1> SUFFICES ASSUME risk' \subseteq {"overlap"}
             PROVE  /\ \A r \in Vouched(source', risk', lastSynced', batchSynced') : table'[r] # 0
                    /\ \A k \in Active' : Shares(load'[k], source', table', risk')
  BY DEF Overlapped
<1>1. \A c : Passed(c, source', risk') = Passed(c, source, risk) /\ Passed(c, source, risk) \subseteq Row
  BY DEF Passed, RowsOf
<1>2. \A r \in Vouched(source', risk', lastSynced', batchSynced') : table'[r] # 0
  BY <1>1 DEF Overlapped, Vouched
<1>3. ASSUME NEW d PROVE Shares(d, source, table', risk) => Shares(d, source', table', risk')
  BY <1>1 DEF Shares
<1>4. ASSUME NEW k \in Active' PROVE Shares(load'[k], source', table', risk')
  <2>1. CASE k = l
    BY <1>3, <2>1, SetFields
  <2>2. CASE k # l
    <3>1. k \in Active /\ load'[k] = load[k]
      BY <2>2, SetFields
    <3>2. Shares(load[k], source, table, risk)
      BY <3>1 DEF Overlapped
    <3>3. Shares(load[k], source, table', risk)
      BY <1>1, <3>2 DEF Shares, RowsOf
    <3> QED
      BY <1>3, <3>1, <3>3
  <2> QED
    BY <2>1, <2>2
<1> QED
  BY <1>2, <1>4

(* What an undisturbed load knows, after its step.                         *)
LEMMA OwnKept ==
  ASSUME TypeOK, Solo, NEW l \in Active, NEW rec, Set(l, rec),
         rec.at = "idle" \/ rec.alone = load[l].alone,
         rec.alone /\ rec.at # "idle" =>
           Own(l, rec, source', table', risk', lastSynced', batchSynced')
  PROVE  Undisturbed'
<1> SUFFICES ASSUME NEW k \in Active', load'[k].alone
             PROVE  Own(k, load'[k], source', table', risk', lastSynced', batchSynced')
  BY DEF Undisturbed
<1> QED
  BY OnlyOwn

(* Nothing is known of a load that ends.                                   *)
LEMMA OwnAtEnd ==
  ASSUME TypeOK, Solo, NEW l \in Active, End(l)
  PROVE  Undisturbed'
<1>1. Set(l, Idle) /\ Idle.at = "idle"
  BY DEF End, Idle
<1> QED
  BY <1>1, OwnKept

(* An undisturbed history has only undisturbed loads, and no row lost.     *)
LEMMA Quiet ==
  ASSUME Noted, NEW l \in Active
  PROVE  /\ risk \subseteq {"tie"} => load[l].alone
         /\ risk \subseteq {"tie", "overlap"} => load[l].lost = {}
BY DEF Noted, NotedFor

(* The ways out.                                                           *)
LEMMA EndKeeps ==
  ASSUME CInv, NEW l \in Load, Fail(l) \/ Cancel(l)
  PROVE  Structure' /\ Undisturbed' /\ Overlapped' /\ CheckpointsHold'
<1>1. /\ l \in Active /\ Set(l, Idle) /\ End(l)
      /\ UNCHANGED <<source, clock, table, made, lastSynced, batchSynced, risk>>
  BY DEF Fail, Cancel, End, Active
<1>2. clock \in Version /\ TypeOK /\ Solo
  BY DEF CInv, IInv, TypeOK
<1>3. Structure'
  <2>1. Shape(l, Idle) /\ ReadBefore(Idle, clock) /\ Idle.at = "idle"
    BY <1>2, IdleShape
  <2>2. /\ lastSynced' <= Stamp[clock] /\ batchSynced' <= Stamp[clock]
        /\ made' \/ table' = Nothing
    BY <1>1 DEF CInv, Structure, Seen, MadeFirst
  <2> QED
    BY <1>1, <1>2, <2>1, <2>2, SetStructure DEF CInv
<1>4. Undisturbed'
  BY <1>1, <1>2, OwnAtEnd
<1>5. Overlapped'
  BY <1>1, <1>2, IdleShape, OverlapKept DEF CInv
<1>6. CheckpointsHold'
  BY <1>1, HoldKept DEF CInv
<1> QED
  BY <1>3, <1>4, <1>5, <1>6

(* A step that marks nothing, and what has to be seen of it.               *)
LEMMA StepKeeps ==
  ASSUME CInv, NEW l \in Active, NEW rec, Set(l, rec),
         Shape(l, rec), ReadBefore(rec, clock), rec.alone = load[l].alone,
         rec.at \notin {"idle", "marking"}, NotedFor(rec, risk'),
         UNCHANGED <<source, clock, lastSynced, batchSynced>>,
         made => made', made' \/ table' = Nothing, NeedsTable(l, rec) => made',
         risk \subseteq risk', "tie" \in risk <=> "tie" \in risk',
         rec.alone => Own(l, rec, source, table', risk', lastSynced, batchSynced),
         risk' \subseteq {"tie"} =>
           \A r \in Vouched(source, risk, lastSynced, batchSynced) :
             table'[r] \in {table[r], source[r]},
         risk' \subseteq {"overlap"} =>
           /\ \A r \in Row : table[r] # 0 => table'[r] # 0
           /\ Shares(rec, source, table', risk)
  PROVE  Structure' /\ Undisturbed' /\ Overlapped' /\ CheckpointsHold'
<1>1. TypeOK /\ Solo
  BY DEF CInv, IInv
<1>2. Structure'
  <2>1. lastSynced' <= Stamp[clock] /\ batchSynced' <= Stamp[clock]
    BY DEF CInv, Structure, Seen
  <2> QED
    BY <1>1, <2>1, SetStructure DEF CInv
<1>3. Undisturbed'
  BY <1>1, OwnKept
<1>4. Overlapped'
  <2>1. risk' \subseteq {"overlap"} => risk \subseteq {"overlap"}
    OBVIOUS
  <2> QED
    BY <1>1, <2>1, OverlapKept DEF CInv
<1>5. CheckpointsHold'
  <2>1. risk' \subseteq {"tie"} => risk \subseteq {"tie"}
    OBVIOUS
  <2> QED
    BY <2>1, HoldKept DEF CInv
<1> QED
  BY <1>2, <1>3, <1>4, <1>5

(* A step that only reads.                                                 *)
LEMMA ReadKeeps ==
  ASSUME CInv, NEW l \in Active, NEW rec, Set(l, rec),
         Shape(l, rec), ReadBefore(rec, clock), rec.alone = load[l].alone,
         rec.lost = load[l].lost, rec.at \notin {"idle", "marking"},
         NeedsTable(l, rec) => made,
         UNCHANGED <<source, clock, table, made, lastSynced, batchSynced>>,
         risk \subseteq risk', "tie" \in risk <=> "tie" \in risk',
         rec.alone => Own(l, rec, source, table, risk', lastSynced, batchSynced),
         risk' \subseteq {"overlap"} => Shares(rec, source, table, risk)
  PROVE  Structure' /\ Undisturbed' /\ Overlapped' /\ CheckpointsHold'
<1>1. NotedFor(rec, risk')
  BY DEF CInv, Structure, Noted, NotedFor
<1>2. made' \/ table' = Nothing
  BY DEF CInv, Structure, MadeFirst
<1> QED
  BY <1>1, <1>2, StepKeeps

(* The SELECT of run_db_load leaves out what its checkpoint vouches for.   *)
LEMMA ExtractKeeps ==
  ASSUME CInv, NEW l \in EtlLoad, Extract(l)
  PROVE  Structure' /\ Undisturbed' /\ Overlapped' /\ CheckpointsHold'
<1> DEFINE d == load[l]
           S == Asked(d.since)
           rec == [d EXCEPT !.at = "opened", !.read = Select(S), !.left = S]
<1>1. /\ l \in Load /\ d \in LoadRec /\ l \in Active /\ Set(l, rec) /\ d.at = "started"
      /\ source \in [Row -> Version] /\ clock \in Version
      /\ UNCHANGED <<source, clock, table, made, lastSynced, batchSynced>>
      /\ risk' = risk \cup (IF d.since # 0 /\ "tie" \in risk THEN {"passed"} ELSE {})
  BY DEF Extract, Active, CInv, IInv, TypeOK, LoadRec, Load
<1>2. /\ rec.at = "opened" /\ rec.read = Select(S) /\ rec.left = S /\ rec.since = d.since
      /\ rec.mode = d.mode /\ rec.newest = d.newest /\ rec.lost = d.lost
      /\ rec.alone = d.alone /\ rec \in LoadRec
  <2>1. S \in SUBSET Row
    BY TableType DEF Asked
  <2>2. Select(S) \in [Row -> Version]
    BY <1>1, <2>1, TableType
  <2> QED
    BY <1>1, <2>1, <2>2 DEF LoadRec, At
<1>3. S \in SUBSET RowsOf(source)
  BY DEF Asked
<1>4. /\ \A r \in S : Select(S)[r] = source[r] /\ source[r] # 0
      /\ \A r \in Row \ S : Select(S)[r] = 0
  BY <1>3 DEF Select, RowsOf
<1>5. ASSUME NEW r \in RowsOf(source) \ S
      PROVE  d.since # 0 /\ ("tie" \notin risk => r \in Passed(d.since, source, risk))
  <2>1. Stamp[source[r]] \in Nat /\ d.since \in Nat
    BY <1>1, Stamps DEF RowsOf, LoadRec
  <2> QED
    BY <2>1 DEF Asked, Passed
<1>6. Shape(l, rec)
  <2>1. Shape(l, d)
    BY <1>1 DEF CInv, Structure, Shapes
  <2>2. d.newest = 0
    BY <1>1, <2>1 DEF Shape
  <2> HIDE DEF rec
  <2>3. Top(rec) \in Nat
    BY <1>2, TopType
  <2> QED
    BY <1>2, <1>3, <2>1, <2>2, <2>3, SelectRows DEF Shape
<1>7. ReadBefore(rec, clock)
  <2>1. ReadBefore(d, clock) /\ \A r \in Row : source[r] <= clock
    BY <1>1 DEF CInv, Structure, Seen, Active
  <2>2. \A r \in Row : Select(S)[r] <= clock
    BY <1>1, <1>4, <2>1, Stamps DEF Version
  <2> HIDE DEF rec
  <2> QED
    BY <1>2, <2>1, <2>2 DEF ReadBefore
<1>8. ASSUME d.alone PROVE Own(l, rec, source, table, risk', lastSynced, batchSynced)
  <2>1. Asks(d, source, table, risk)
    BY <1>1, <1>8 DEF CInv, Undisturbed, Own
  <2>2. ASSUME d.since = 0 \/ risk' \subseteq {"tie"}, NEW r \in RowsOf(source)
        PROVE  \/ source[r] = Select(S)[r]
               \/ d.since # 0 /\ Select(S)[r] = 0 /\ table[r] = source[r]
    <3>1. CASE r \in S
      BY <1>4, <3>1
    <3>2. CASE r \notin S
      <4>1. d.since # 0 /\ Select(S)[r] = 0
        BY <1>4, <1>5, <3>2 DEF RowsOf
      <4>2. "tie" \notin risk /\ risk \subseteq {"tie"}
        BY <1>1, <2>2, <4>1
      <4>3. table[r] = source[r]
        BY <1>1, <1>5, <2>1, <3>2, <4>2 DEF Asks
      <4> QED
        BY <4>1, <4>3
    <3> QED
      BY <3>1, <3>2
  <2>3. Vouched(source, risk', lastSynced, batchSynced) \cup Passed(Top(rec), source, risk')
          \subseteq RowsOf(source)
    BY DEF Vouched, Passed
  <2> HIDE DEF rec
  <2> QED
    BY <1>2, <2>2, <2>3 DEF Own, Asks, Covers, Replaces, Compares
<1>9. ASSUME risk' \subseteq {"overlap"} PROVE Shares(rec, source, table, risk)
  <2>1. Shares(d, source, table, risk) /\ "tie" \notin risk
    BY <1>1, <1>9 DEF CInv, Overlapped
  <2>2. \A r \in RowsOf(source) : table[r] # 0 \/ Select(S)[r] # 0
    BY <1>1, <1>4, <1>5, <2>1 DEF Shares
  <2> HIDE DEF rec
  <2> QED
    BY <1>2, <2>2 DEF Shares, Passed
<1>10. ~NeedsTable(l, rec) \/ made
  BY <1>1, <1>2 DEF NeedsTable, CInv, Structure, MadeFirst
<1> HIDE DEF rec
<1> QED
  BY <1>1, <1>2, <1>6, <1>7, <1>8, <1>9, <1>10, ReadKeeps

(* That of run_db_batch_job, which asks for its checkpoint's stamp again.  *)
LEMMA BatchExtractKeeps ==
  ASSUME CInv, NEW l \in BatchLoad, BatchExtract(l)
  PROVE  Structure' /\ Undisturbed' /\ Overlapped' /\ CheckpointsHold'
<1> DEFINE d == load[l]
           S == AskedAgain(d.since)
           rec == [d EXCEPT !.at = "loading", !.how = "upsert", !.read = Select(S), !.left = S]
<1>1. /\ l \in Load /\ d \in LoadRec /\ l \in Active /\ Set(l, rec) /\ d.at = "truncated"
      /\ source \in [Row -> Version] /\ clock \in Version
      /\ UNCHANGED <<source, clock, table, made, lastSynced, batchSynced, risk>>
  BY DEF BatchExtract, Active, CInv, IInv, TypeOK, LoadRec, Load
<1>2. /\ rec.at = "loading" /\ rec.read = Select(S) /\ rec.left = S /\ rec.since = d.since
      /\ rec.mode = d.mode /\ rec.newest = d.newest /\ rec.lost = d.lost
      /\ rec.alone = d.alone /\ rec \in LoadRec
  <2>1. S \in SUBSET Row
    BY TableType DEF AskedAgain
  <2>2. Select(S) \in [Row -> Version]
    BY <1>1, <2>1, TableType
  <2> QED
    BY <1>1, <2>1, <2>2 DEF LoadRec, At
<1>3. S \in SUBSET RowsOf(source)
  BY DEF AskedAgain
<1>4. /\ \A r \in S : Select(S)[r] = source[r] /\ source[r] # 0
      /\ \A r \in Row \ S : Select(S)[r] = 0
  BY <1>3 DEF Select, RowsOf
<1>5. ASSUME NEW r \in RowsOf(source) \ S
      PROVE  d.since # 0 /\ r \in Passed(d.since, source, risk)
  <2>1. Stamp[source[r]] \in Nat /\ d.since \in Nat
    BY <1>1, Stamps DEF RowsOf, LoadRec
  <2> QED
    BY <2>1 DEF AskedAgain, Passed
<1>6. Shape(l, rec)
  <2>1. Shape(l, d)
    BY <1>1 DEF CInv, Structure, Shapes
  <2>2. d.newest = 0
    BY <1>1, <2>1 DEF Shape
  <2> HIDE DEF rec
  <2>3. Top(rec) \in Nat
    BY <1>2, TopType
  <2> QED
    BY <1>2, <1>3, <2>1, <2>2, <2>3, SelectRows DEF Shape
<1>7. ReadBefore(rec, clock)
  <2>1. ReadBefore(d, clock) /\ \A r \in Row : source[r] <= clock
    BY <1>1 DEF CInv, Structure, Seen, Active
  <2>2. \A r \in Row : Select(S)[r] <= clock
    BY <1>1, <1>4, <2>1, Stamps DEF Version
  <2> HIDE DEF rec
  <2> QED
    BY <1>2, <2>1, <2>2 DEF ReadBefore
<1>8. ASSUME d.alone PROVE Own(l, rec, source, table, risk, lastSynced, batchSynced)
  <2>1. Asks(d, source, table, risk) /\ Replaces(l, d, table)
    BY <1>1, <1>8 DEF CInv, Undisturbed, Own
  <2>2. ASSUME d.since = 0 \/ risk \subseteq {"tie"}, NEW r \in RowsOf(source)
        PROVE  \/ source[r] = Select(S)[r]
               \/ d.since # 0 /\ Select(S)[r] = 0 /\ table[r] = source[r]
    <3>1. CASE r \in S
      BY <1>4, <3>1
    <3>2. CASE r \notin S
      <4>1. d.since # 0 /\ Select(S)[r] = 0
        BY <1>4, <1>5, <3>2 DEF RowsOf
      <4>2. table[r] = source[r]
        BY <1>1, <1>5, <2>1, <2>2, <3>2, <4>1 DEF Asks
      <4> QED
        BY <4>1, <4>2
    <3> QED
      BY <3>1, <3>2
  <2>3. Vouched(source, risk, lastSynced, batchSynced) \cup Passed(Top(rec), source, risk)
          \subseteq RowsOf(source)
    BY DEF Vouched, Passed
  <2>4. d.mode = "full" => \A r \in Row : table[r] = 0
    BY <1>1, <2>1 DEF Replaces, Nothing
  <2> HIDE DEF rec
  <2>5. Covers(rec, source, table, risk, lastSynced, batchSynced)
    BY <1>2, <2>2, <2>3 DEF Covers
  <2>6. Replaces(l, rec, table)
    BY <1>2, <2>4 DEF Replaces
  <2> QED
    BY <1>2, <2>5, <2>6 DEF Own, Asks, Compares
<1>9. ASSUME risk \subseteq {"overlap"} PROVE Shares(rec, source, table, risk)
  <2>1. Shares(d, source, table, risk)
    BY <1>1, <1>9 DEF CInv, Overlapped
  <2>2. \A r \in RowsOf(source) : table[r] # 0 \/ Select(S)[r] # 0
    BY <1>1, <1>4, <1>5, <2>1 DEF Shares
  <2>3. RowsOf(Select(S)) = S
    BY <1>3, SelectRows
  <2> HIDE DEF rec
  <2> QED
    BY <1>2, <2>2, <2>3 DEF Shares, Passed
<1>10. NeedsTable(l, rec) => made
  <2>1. l \notin EtlLoad
    BY DbLoadAssumption
  <2> HIDE DEF rec
  <2> QED
    BY <1>1, <1>2, <2>1 DEF NeedsTable, CInv, Structure, MadeFirst
<1> HIDE DEF rec
<1> QED
  BY <1>1, <1>2, <1>6, <1>7, <1>8, <1>9, <1>10, ReadKeeps

(* The first rows are in hand: the target stays, or is known to be empty.  *)
LEMMA PrepareKeeps ==
  ASSUME CInv, NEW l \in EtlLoad, Prepare(l)
  PROVE  Structure' /\ Undisturbed' /\ Overlapped' /\ CheckpointsHold'
<1> DEFINE d == load[l]
           full == settings.mode = "full"
           how == How(IF d.mode = "full" /\ ~full THEN "incremental" ELSE d.mode)
           rec == [d EXCEPT !.at = "loading", !.how = how]
<1>1. /\ l \in Load /\ d \in LoadRec /\ l \in Active /\ Set(l, rec) /\ d.at = "opened"
      /\ made' = TRUE /\ table' = TableFor(full)
      /\ UNCHANGED <<source, clock, lastSynced, batchSynced>>
      /\ risk' = risk \cup (IF full THEN {"emptied"} ELSE {})
  BY DEF Prepare, Active, CInv, IInv, TypeOK, LoadRec, Load
<1>2. /\ rec.at = "loading" /\ rec.how = how /\ rec.read = d.read /\ rec.left = d.left
      /\ rec.since = d.since /\ rec.mode = d.mode /\ rec.newest = d.newest
      /\ rec.lost = d.lost /\ rec.alone = d.alone /\ Top(rec) = Top(d)
  BY <1>1 DEF LoadRec, Top
<1>3. how = "copy" /\ d.mode = "full" => full
  BY DEF How
<1>4. Shape(l, d) /\ ReadBefore(d, clock) /\ NotedFor(d, risk)
  BY <1>1 DEF CInv, Structure, Shapes, Seen, Noted
<1>5. d.left = RowsOf(d.read)
  BY <1>1 DEF CInv, IInv, AllLeft
<1>6. table' = table \/ (full /\ table' = Nothing)
  BY <1>1 DEF TableFor
<1>7. full => ~(risk' \subseteq {"tie"}) /\ ~(risk' \subseteq {"overlap"})
  BY <1>1
<1>8. l \notin BatchLoad
  BY DbLoadAssumption
<1> HIDE DEF rec, how, full
<1>9. Shape(l, rec) /\ ReadBefore(rec, clock) /\ NotedFor(rec, risk')
  BY <1>1, <1>2, <1>4 DEF Shape, ReadBefore, NotedFor
<1>10. ASSUME d.alone PROVE Own(l, rec, source, table', risk', lastSynced, batchSynced)
  <2>1. Covers(d, source, table, risk, lastSynced, batchSynced)
    BY <1>1, <1>10 DEF CInv, Undisturbed, Own
  <2>2. Covers(rec, source, table', risk', lastSynced, batchSynced)
    <3>1. "tie" \in risk <=> "tie" \in risk'
      BY <1>1
    <3>2. /\ Vouched(source, risk', lastSynced, batchSynced) = Vouched(source, risk, lastSynced, batchSynced)
          /\ Passed(Top(d), source, risk') = Passed(Top(d), source, risk)
      BY <3>1, PassedSame
    <3>3. ASSUME d.since = 0 \/ risk' \subseteq {"tie"}
          PROVE  (d.since = 0 \/ risk \subseteq {"tie"}) /\ (d.since # 0 => table' = table)
      BY <1>1, <1>6, <1>7, <3>3
    <3> QED
      BY <1>1, <1>2, <2>1, <3>2, <3>3 DEF Covers
  <2>3. Replaces(l, rec, table')
    BY <1>2, <1>3, <1>6, <1>8, <1>1 DEF Replaces, Nothing, TableFor
  <2> QED
    BY <1>2, <2>2, <2>3 DEF Own, Asks, Compares
<1>11. ASSUME risk' \subseteq {"overlap"} PROVE Shares(rec, source, table', risk)
  <2>1. Shares(d, source, table, risk)
    BY <1>1, <1>11 DEF CInv, Overlapped
  <2> QED
    BY <1>1, <1>2, <1>5, <1>6, <1>7, <1>11, <2>1 DEF Shares
<1>12. "tie" \in risk <=> "tie" \in risk'
  BY <1>1
<1> QED
  BY <1>1, <1>2, <1>6, <1>7, <1>9, <1>10, <1>11, <1>12, StepKeeps

(* A full batch empties the target; a diff batch goes for its keys.        *)
LEMMA TruncateKeeps ==
  ASSUME CInv, NEW l \in BatchLoad, Truncate(l)
  PROVE  Structure' /\ Undisturbed' /\ Overlapped' /\ CheckpointsHold'
<1> DEFINE d == load[l]
           full == d.mode = "full" /\ made
           rec == [d EXCEPT !.at = IF d.mode = "diff" THEN "keys" ELSE "truncated"]
<1>1. /\ l \in Load /\ d \in LoadRec /\ l \in Active /\ Set(l, rec) /\ d.at = "started"
      /\ table' = IF full THEN Nothing ELSE table
      /\ UNCHANGED <<source, clock, made, lastSynced, batchSynced>>
      /\ risk' = risk \cup (IF full THEN {"emptied"} ELSE {})
  BY DEF Truncate, Active, CInv, IInv, TypeOK, LoadRec, Load
<1>2. /\ rec.at = IF d.mode = "diff" THEN "keys" ELSE "truncated"
      /\ rec.read = d.read /\ rec.left = d.left
      /\ rec.since = d.since /\ rec.mode = d.mode /\ rec.newest = d.newest
      /\ rec.lost = d.lost /\ rec.alone = d.alone /\ Top(rec) = Top(d)
  BY <1>1 DEF LoadRec, Top
<1>3. Shape(l, d) /\ ReadBefore(d, clock) /\ NotedFor(d, risk)
  BY <1>1 DEF CInv, Structure, Shapes, Seen, Noted
<1>4. made \/ table = Nothing
  BY DEF CInv, Structure, MadeFirst
<1>5. full => ~(risk' \subseteq {"tie"}) /\ ~(risk' \subseteq {"overlap"})
  BY <1>1
<1>6. d.mode = "full" => table' = Nothing
  BY <1>1, <1>4
<1>7. made \/ table' = Nothing
  BY <1>1, <1>4
<1>8. NeedsTable(l, rec) => made
  <2>1. l \notin EtlLoad
    BY DbLoadAssumption
  <2>2. NeedsTable(l, d) => made
    BY <1>1 DEF CInv, Structure, MadeFirst
  <2> HIDE DEF rec
  <2> QED
    BY <1>2, <2>1, <2>2 DEF NeedsTable
<1>9. "tie" \in risk <=> "tie" \in risk'
  BY <1>1
<1>10. risk \subseteq risk'
  BY <1>1
<1> HIDE DEF rec, full
<1>11. Shape(l, rec) /\ ReadBefore(rec, clock) /\ NotedFor(rec, risk')
  BY <1>1, <1>2, <1>3, <1>10 DEF Shape, ReadBefore, NotedFor
<1>12. ASSUME d.alone PROVE Own(l, rec, source, table', risk', lastSynced, batchSynced)
  <2>1. Asks(d, source, table, risk)
    BY <1>1, <1>12 DEF CInv, Undisturbed, Own
  <2>2. Asks(rec, source, table', risk')
    <3>1. Passed(d.since, source, risk') = Passed(d.since, source, risk)
      BY <1>9, PassedSame
    <3>2. risk' \subseteq {"tie"} => risk \subseteq {"tie"} /\ table' = table
      BY <1>1, <1>5, <1>10
    <3> QED
      BY <1>1, <1>2, <2>1, <3>1, <3>2 DEF Asks
  <2>3. Replaces(l, rec, table')
    BY <1>2, <1>6 DEF Replaces
  <2> QED
    BY <1>2, <2>2, <2>3 DEF Own, Covers, Compares
<1>13. ASSUME risk' \subseteq {"overlap"} PROVE Shares(rec, source, table', risk) /\ table' = table
  <2>1. Shares(d, source, table, risk)
    BY <1>1, <1>10, <1>13 DEF CInv, Overlapped
  <2>2. table' = table
    BY <1>1, <1>5, <1>13
  <2> QED
    BY <1>1, <1>2, <2>1, <2>2 DEF Shares
<1>14. risk' \subseteq {"tie"} => table' = table
  BY <1>1, <1>5
<1> QED
  BY <1>1, <1>2, <1>7, <1>8, <1>9, <1>10, <1>11, <1>12, <1>13, <1>14, StepKeeps

(* The keys of the source, and what they say of the target.                *)
LEMMA KeysKeep ==
  ASSUME CInv, NEW l \in Load, ReadSourceKeys(l) \/ Compare(l)
  PROVE  Structure' /\ Undisturbed' /\ Overlapped' /\ CheckpointsHold'
<1> DEFINE d == load[l]
<1>1. /\ d \in LoadRec /\ l \in Active /\ d.at \in {"keys", "compare"}
      /\ source \in [Row -> Version] /\ clock \in Version
      /\ UNCHANGED <<source, clock, table, made, lastSynced, batchSynced, risk>>
  BY DEF ReadSourceKeys, Compare, Active, CInv, IInv, TypeOK, LoadRec
<1>2. Shape(l, d) /\ ReadBefore(d, clock)
  BY <1>1 DEF CInv, Structure, Shapes, Seen
<1>3. d.mode = "diff" /\ d.since = 0 /\ d.newest = 0
  BY <1>1, <1>2 DEF Shape
<1>4. made
  BY <1>1, <1>3 DEF CInv, Structure, MadeFirst, NeedsTable
<1>5. CASE ReadSourceKeys(l)
  <2> DEFINE rec == [d EXCEPT !.at = "compare", !.read = source]
  <2>1. Set(l, rec)
    BY <1>5 DEF ReadSourceKeys
  <2>2. /\ rec.at = "compare" /\ rec.read = source /\ rec.since = 0 /\ rec.mode = "diff"
        /\ rec.newest = 0 /\ rec.lost = d.lost /\ rec.alone = d.alone /\ rec \in LoadRec
    BY <1>1, <1>3 DEF LoadRec, At
  <2> HIDE DEF rec
  <2>3. Shape(l, rec) /\ ReadBefore(rec, clock)
    <3>1. Top(rec) \in Nat
      BY <2>2, TopType
    <3>2. \A r \in Row : source[r] <= clock
      BY DEF CInv, Structure, Seen
    <3> QED
      BY <1>2, <1>3, <2>2, <3>1, <3>2 DEF Shape, ReadBefore
  <2>4. Own(l, rec, source, table, risk, lastSynced, batchSynced)
    BY <2>2 DEF Own, Asks, Covers, Replaces, Compares
  <2>5. Shares(rec, source, table, risk)
    BY <2>2 DEF Shares
  <2> QED
    BY <1>1, <1>4, <2>1, <2>2, <2>3, <2>4, <2>5, ReadKeeps
<1>6. CASE Compare(l)
  <2> DEFINE L == RowsOf(d.read) \ RowsOf(table)
             rec == [d EXCEPT !.at = "copying", !.left = L, !.gone = Orphans(d)]
  <2>1. Set(l, rec)
    BY <1>6 DEF Compare
  <2>2. /\ rec.at = "copying" /\ rec.read = d.read /\ rec.since = 0 /\ rec.mode = "diff"
        /\ rec.newest = 0 /\ rec.lost = d.lost /\ rec.alone = d.alone /\ Top(rec) = Top(d)
        /\ rec.left = L /\ rec.gone = Orphans(d) /\ rec.orphans = d.orphans
    BY <1>1, <1>3 DEF LoadRec, At, Top
  <2>3. /\ Orphans(d) \cap RowsOf(d.read) = {}
        /\ d.orphans => RowsOf(table) \subseteq RowsOf(d.read) \cup Orphans(d)
    BY DEF Orphans
  <2> HIDE DEF rec
  <2>4. Shape(l, rec) /\ ReadBefore(rec, clock)
    BY <1>1, <1>2, <1>3, <2>2, <2>3 DEF Shape, ReadBefore
  <2>5. ASSUME d.alone PROVE Own(l, rec, source, table, risk, lastSynced, batchSynced)
    <3>1. d.at = "compare"
      BY <1>6 DEF Compare
    <3>2. Covers(d, source, table, risk, lastSynced, batchSynced)
      BY <1>1, <2>5 DEF CInv, Undisturbed, Own
    <3>3. Covers(rec, source, table, risk, lastSynced, batchSynced)
      BY <1>3, <2>2, <3>1, <3>2 DEF Covers
    <3>4. Compares(rec, source, table)
      BY <2>2, <2>3 DEF Compares, RowsOf
    <3> QED
      BY <2>2, <3>3, <3>4 DEF Own, Asks, Replaces
  <2>6. Shares(rec, source, table, risk)
    BY <2>2 DEF Shares
  <2> QED
    BY <1>1, <1>4, <2>1, <2>2, <2>4, <2>5, <2>6, ReadKeeps
<1> QED
  BY <1>5, <1>6

(* Rows of the cursor written to the target.                               *)
LEMMA WriteKeeps ==
  ASSUME CInv, NEW l \in Active, NEW rec, Set(l, rec),
         NEW K \in SUBSET load[l].left,
         load[l].at = "loading", rec.at = "loading",
         table' = Onto(table, load[l].read, K),
         rec.read = load[l].read, rec.since = load[l].since, rec.mode = load[l].mode,
         rec.how = load[l].how, rec.alone = load[l].alone,
         rec.left \subseteq load[l].left, rec.newest <= Top(load[l]),
         NotedFor(rec, risk'), made',
         UNCHANGED <<source, clock, lastSynced, batchSynced>>,
         risk \subseteq risk', "tie" \in risk <=> "tie" \in risk',
         risk' \subseteq {"overlap"} => rec.left = load[l].left \ K
  PROVE  Structure' /\ Undisturbed' /\ Overlapped' /\ CheckpointsHold'
<1> DEFINE d == load[l]
<1>1. Shape(l, d) /\ ReadBefore(d, clock) /\ l \in Load
  BY DEF CInv, Structure, Shapes, Seen, Active
<1>2. Top(rec) = Top(d)
  BY DEF Top
<1>3. Shape(l, rec) /\ ReadBefore(rec, clock)
  BY <1>1, <1>2 DEF Shape, ReadBefore
<1>4. K \subseteq RowsOf(d.read)
  BY <1>1 DEF Shape
<1>5. \A r \in Row : table'[r] = IF r \in K THEN d.read[r] ELSE table[r]
  BY DEF Onto
<1>6. \A r \in K : d.read[r] # 0 /\ r \in Row
  BY <1>4 DEF RowsOf
<1>7. ASSUME d.alone PROVE Own(l, rec, source, table', risk', lastSynced, batchSynced)
  <2>1. Covers(d, source, table, risk, lastSynced, batchSynced) /\ Replaces(l, d, table)
    BY <1>7 DEF CInv, Undisturbed, Own
  <2>2. Covers(rec, source, table', risk', lastSynced, batchSynced)
    <3>1. /\ Vouched(source, risk', lastSynced, batchSynced) = Vouched(source, risk, lastSynced, batchSynced)
          /\ Passed(Top(d), source, risk') = Passed(Top(d), source, risk)
      BY PassedSame
    <3>2. Vouched(source, risk, lastSynced, batchSynced) \cup Passed(Top(d), source, risk)
            \subseteq Row
      BY DEF Vouched, Passed, RowsOf
    <3>3. \A r \in Row : d.read[r] = 0 => table'[r] = table[r]
      BY <1>5, <1>6
    <3> QED
      BY <1>2, <2>1, <3>1, <3>2, <3>3 DEF Covers
  <2>3. Replaces(l, rec, table')
    BY <1>5, <2>1 DEF Replaces
  <2> QED
    BY <2>2, <2>3 DEF Own, Asks, Compares
<1>8. ASSUME risk' \subseteq {"tie"},
             NEW r \in Vouched(source, risk, lastSynced, batchSynced)
      PROVE  table'[r] \in {table[r], source[r]}
  <2>1. risk \subseteq {"tie"} /\ d.alone
    BY <1>8, Quiet DEF CInv, Structure
  <2>2. Covers(d, source, table, risk, lastSynced, batchSynced)
    BY <2>1 DEF CInv, Undisturbed, Own
  <2>3. source[r] = d.read[r] \/ d.read[r] = 0
    BY <2>1, <2>2 DEF Covers
  <2>4. r \in Row
    BY DEF Vouched, Passed, RowsOf
  <2> QED
    BY <1>5, <1>6, <2>3, <2>4
<1>9. ASSUME risk' \subseteq {"overlap"}
      PROVE  /\ \A r \in Row : table[r] # 0 => table'[r] # 0
             /\ Shares(rec, source, table', risk)
  <2>1. Shares(d, source, table, risk)
    BY <1>9 DEF CInv, Overlapped
  <2>2. \A r \in Row : table[r] # 0 => table'[r] # 0
    BY <1>5, <1>6
  <2>3. \A r \in Passed(Top(d), source, risk) : table'[r] # 0 \/ d.read[r] # 0
    <3>1. Passed(Top(d), source, risk) \subseteq Row
      BY DEF Passed, RowsOf
    <3> QED
      BY <2>1, <2>2, <3>1 DEF Shares
  <2>4. \A r \in RowsOf(d.read) \ rec.left : table'[r] # 0
    BY <1>5, <1>6, <1>9, <2>1, <2>2 DEF Shares, RowsOf
  <2> QED
    BY <1>2, <2>2, <2>3, <2>4 DEF Shares
<1> QED
  BY <1>3, <1>7, <1>8, <1>9, StepKeeps

(* The newest stamp recorded after some rows.                              *)
LEMMA NewestTaken ==
  ASSUME NEW d \in LoadRec, d.newest <= Top(d), NEW B \in SUBSET Row
  PROVE  Max({d.newest, Newest(d.read, B)}) <= Top(d)
<1>1. /\ Newest(d.read, B) \in Nat /\ Newest(d.read, B) <= Top(d)
      /\ d.newest \in Nat
  BY NewestIs, NewestWithin DEF Top, LoadRec
<1>2. Max({d.newest, Newest(d.read, B)}) \in {d.newest, Newest(d.read, B)}
  BY <1>1, MaxIs
<1> QED
  BY <1>1, <1>2

(* A batch of run_db_load.                                                 *)
LEMMA LoadBatchKeeps ==
  ASSUME CInv, NEW l \in EtlLoad, LoadBatch(l)
  PROVE  Structure' /\ Undisturbed' /\ Overlapped' /\ CheckpointsHold'
<1> DEFINE d == load[l]
<1>1. PICK F \in Fetch(l) : \E B \in Room(l, F) : LoadAll(l, F, B) \/ LoadEach(l, F, B)
  BY DEF LoadBatch
<1>2. PICK B \in Room(l, F) : LoadAll(l, F, B) \/ LoadEach(l, F, B)
  BY <1>1
<1>3. /\ l \in Load /\ d \in LoadRec /\ l \in Active /\ d.at = "loading"
      /\ UNCHANGED <<source, clock, made, lastSynced, batchSynced>>
  BY DEF LoadBatch, Active, CInv, IInv, TypeOK, LoadRec, Load
<1>4. F \subseteq d.left /\ B \subseteq F /\ d.left \in SUBSET Row
  BY <1>2, <1>3, Fetched DEF LoadRec
<1>5. Shape(l, d) /\ NotedFor(d, risk) /\ made
  BY <1>3 DEF CInv, Structure, Shapes, Noted, MadeFirst, NeedsTable
<1>6. Max({d.newest, Newest(d.read, B)}) <= Top(d)
  BY <1>3, <1>4, <1>5, NewestTaken DEF Shape
<1> DEFINE t == Taken(d, F, B)
<1>7. /\ t.at = "loading" /\ t.read = d.read /\ t.since = d.since /\ t.mode = d.mode
      /\ t.how = d.how /\ t.alone = d.alone /\ t.left = d.left \ F
      /\ t.lost = d.lost \cup (F \ B) /\ t.newest = Max({d.newest, Newest(d.read, B)})
  BY <1>3 DEF LoadRec, Taken
<1>8. CASE LoadAll(l, F, B)
  <2> DEFINE rec == [t EXCEPT !.count = @ + Cardinality(B)]
  <2>1. /\ Set(l, rec) /\ table' = Onto(table, d.read, B) /\ risk' = risk \cup Cut(F, B)
    BY <1>8 DEF LoadAll
  <2>2. /\ rec.at = "loading" /\ rec.read = d.read /\ rec.since = d.since /\ rec.mode = d.mode
        /\ rec.how = d.how /\ rec.alone = d.alone /\ rec.left = d.left \ F
        /\ rec.lost = d.lost \cup (F \ B) /\ rec.newest = Max({d.newest, Newest(d.read, B)})
    BY <1>7 DEF Taken
  <2> HIDE DEF rec
  <2>3. risk \subseteq risk' /\ ("tie" \in risk <=> "tie" \in risk')
    BY <2>1 DEF Cut
  <2>4. NotedFor(rec, risk')
    BY <1>4, <1>5, <2>1, <2>2 DEF NotedFor, Cut
  <2>5. risk' \subseteq {"overlap"} => rec.left = d.left \ B
    BY <2>1, <2>2 DEF Cut
  <2> QED
    BY <1>3, <1>4, <1>5, <1>6, <2>1, <2>2, <2>3, <2>4, <2>5, WriteKeeps
<1>9. CASE LoadEach(l, F, B)
  <2>1. PICK seq \in SetToSeqs(B) :
          LET out == Fallback(seq, d.read)
          IN /\ table' = Onto(table, d.read, out.kept)
             /\ Set(l, [Taken(d, F, B) EXCEPT !.count = @ + out.counted,
                                              !.failed = @ \cup out.failed,
                                              !.lost = @ \cup (B \ out.kept)])
    BY <1>9 DEF LoadEach
  <2> DEFINE out == Fallback(seq, d.read)
             rec == [t EXCEPT !.count = @ + out.counted,
                              !.failed = @ \cup out.failed,
                              !.lost = @ \cup (B \ out.kept)]
  <2>2. out.kept \subseteq B
    BY <1>4, FallbackType
  <2>3. Set(l, rec) /\ table' = Onto(table, d.read, out.kept)
    BY <2>1
  <2> HIDE DEF out
  <2>4. /\ rec.at = "loading" /\ rec.read = d.read /\ rec.since = d.since /\ rec.mode = d.mode
        /\ rec.how = d.how /\ rec.alone = d.alone /\ rec.left = d.left \ F
        /\ rec.newest = Max({d.newest, Newest(d.read, B)})
    BY <1>7 DEF Taken
  <2> HIDE DEF rec
  <2>5. risk' = risk \cup Cut(F, B) \cup {"skip"}
    BY <1>9 DEF LoadEach
  <2>6. /\ risk \subseteq risk' /\ ("tie" \in risk <=> "tie" \in risk')
        /\ ~(risk' \subseteq {"overlap"})
    BY <2>5 DEF Cut
  <2>7. NotedFor(rec, risk')
    BY <1>5, <2>4, <2>5 DEF NotedFor
  <2> QED
    BY <1>3, <1>4, <1>5, <1>6, <2>2, <2>3, <2>4, <2>6, <2>7, WriteKeeps, SMTT(30)
<1> QED
  BY <1>2, <1>8, <1>9

(* A batch of run_db_batch_job.                                            *)
LEMMA BatchLoadKeeps ==
  ASSUME CInv, NEW l \in BatchLoad, BatchLoadRows(l)
  PROVE  Structure' /\ Undisturbed' /\ Overlapped' /\ CheckpointsHold'
<1> DEFINE d == load[l]
<1>1. PICK B \in kSubset(Min({d.size, Cardinality(d.left)}), d.left) :
        /\ table' = Onto(table, d.read, B)
        /\ Set(l, [d EXCEPT !.left = @ \ B, !.count = @ + Cardinality(B),
                            !.newest = Max({@, Newest(d.read, B)})])
  BY DEF BatchLoadRows, BatchUpsert
<1> DEFINE rec == [d EXCEPT !.left = @ \ B, !.count = @ + Cardinality(B),
                            !.newest = Max({@, Newest(d.read, B)})]
<1>2. /\ l \in Load /\ d \in LoadRec /\ l \in Active /\ d.at = "loading"
      /\ made' = TRUE
      /\ UNCHANGED <<source, clock, lastSynced, batchSynced, risk>>
  BY DEF BatchLoadRows, Active, CInv, IInv, TypeOK, LoadRec, Load
<1>3. B \subseteq d.left /\ d.left \in SUBSET Row
  BY <1>2 DEF kSubset, LoadRec
<1>4. Shape(l, d) /\ NotedFor(d, risk)
  BY <1>2 DEF CInv, Structure, Shapes, Noted
<1>5. Max({d.newest, Newest(d.read, B)}) <= Top(d)
  BY <1>2, <1>3, <1>4, NewestTaken DEF Shape
<1>6. /\ rec.at = "loading" /\ rec.read = d.read /\ rec.since = d.since /\ rec.mode = d.mode
      /\ rec.how = d.how /\ rec.alone = d.alone /\ rec.left = d.left \ B
      /\ rec.lost = d.lost /\ rec.newest = Max({d.newest, Newest(d.read, B)})
  BY <1>2 DEF LoadRec
<1>7. Set(l, rec)
  BY <1>1
<1> HIDE DEF rec
<1>8. NotedFor(rec, risk')
  BY <1>2, <1>4, <1>6 DEF NotedFor
<1> QED
  BY <1>1, <1>2, <1>3, <1>5, <1>6, <1>7, <1>8, WriteKeeps

(* New keys copied as they are at the source now.                          *)
LEMMA CopyKeeps ==
  ASSUME CInv, NEW l \in Load, CopyNew(l)
  PROVE  Structure' /\ Undisturbed' /\ Overlapped' /\ CheckpointsHold'
<1> DEFINE d == load[l]
<1>1. PICK B \in kSubset(Min({d.size, Cardinality(d.left)}), d.left) :
        /\ table' = Onto(table, source, B \cap RowsOf(source))
        /\ Set(l, [d EXCEPT !.left = @ \ B,
                            !.count = @ + Cardinality(B \cap RowsOf(source))])
  BY DEF CopyNew
<1> DEFINE K == B \cap RowsOf(source)
           rec == [d EXCEPT !.left = @ \ B, !.count = @ + Cardinality(K)]
<1>2. /\ d \in LoadRec /\ l \in Active /\ d.at = "copying"
      /\ UNCHANGED <<source, clock, made, lastSynced, batchSynced, risk>>
  BY DEF CopyNew, Active, CInv, IInv, TypeOK, LoadRec
<1>3. Shape(l, d) /\ ReadBefore(d, clock) /\ NotedFor(d, risk)
  BY <1>2 DEF CInv, Structure, Shapes, Seen, Noted
<1>4. d.mode = "diff" /\ d.since = 0 /\ d.left \subseteq RowsOf(d.read)
  BY <1>2, <1>3 DEF Shape
<1>5. B \subseteq d.left /\ d.left \in SUBSET Row
  BY <1>2 DEF kSubset, LoadRec
<1>6. /\ rec.at = "copying" /\ rec.read = d.read /\ rec.since = d.since /\ rec.mode = d.mode
      /\ rec.alone = d.alone /\ rec.left = d.left \ B /\ rec.gone = d.gone
      /\ rec.lost = d.lost /\ rec.newest = d.newest /\ rec.orphans = d.orphans
      /\ Top(rec) = Top(d)
  BY <1>2 DEF LoadRec, Top
<1>7. Set(l, rec) /\ table' = Onto(table, source, K)
  BY <1>1
<1>8. \A r \in Row : table'[r] = IF r \in K THEN source[r] ELSE table[r]
  BY <1>7 DEF Onto
<1>9. made
  BY <1>2, <1>4 DEF CInv, Structure, MadeFirst, NeedsTable
<1>10. \A r \in Row : table[r] # 0 => table'[r] # 0
  BY <1>8 DEF RowsOf
<1> HIDE DEF rec
<1>11. Shape(l, rec) /\ ReadBefore(rec, clock) /\ NotedFor(rec, risk')
  BY <1>2, <1>3, <1>4, <1>6 DEF Shape, ReadBefore, NotedFor
<1>12. ASSUME d.alone PROVE Own(l, rec, source, table', risk', lastSynced, batchSynced)
  <2>1. Covers(d, source, table, risk, lastSynced, batchSynced) /\ Compares(d, source, table)
    BY <1>2, <1>12 DEF CInv, Undisturbed, Own
  <2>2. Covers(rec, source, table', risk', lastSynced, batchSynced)
    BY <1>2, <1>4, <1>6, <2>1 DEF Covers
  <2>3. \A r \in RowsOf(d.read) \ rec.left : table'[r] # 0 \/ source[r] # d.read[r]
    <3> SUFFICES ASSUME NEW r \in RowsOf(d.read) \ rec.left
                 PROVE  table'[r] # 0 \/ source[r] # d.read[r]
      OBVIOUS
    <3>1. r \in Row /\ d.read[r] # 0
      BY DEF RowsOf
    <3>2. CASE r \in B
      BY <1>8, <3>1, <3>2 DEF RowsOf
    <3>3. CASE r \notin B
      BY <1>2, <1>6, <1>10, <2>1, <3>1, <3>3 DEF Compares
    <3> QED
      BY <3>2, <3>3
  <2>4. d.orphans => RowsOf(table') \subseteq RowsOf(d.read) \cup d.gone
    <3>1. K \subseteq RowsOf(d.read)
      BY <1>4, <1>5
    <3>2. RowsOf(table') \subseteq RowsOf(table) \cup K
      BY <1>8 DEF RowsOf
    <3> QED
      BY <1>2, <2>1, <3>1, <3>2 DEF Compares
  <2> QED
    BY <1>6, <2>2, <2>3, <2>4 DEF Own, Asks, Replaces, Compares
<1>13. \A r \in Vouched(source, risk, lastSynced, batchSynced) : table'[r] \in {table[r], source[r]}
  BY <1>8 DEF Vouched, Passed, RowsOf
<1>14. Shares(rec, source, table', risk)
  BY <1>6 DEF Shares
<1> QED
  BY <1>2, <1>6, <1>7, <1>9, <1>10, <1>11, <1>12, <1>13, <1>14, StepKeeps

(* The orphans go: no checkpoint vouches for them.                         *)
LEMMA DeleteKeeps ==
  ASSUME CInv, NEW l \in Load, DeleteOrphans(l)
  PROVE  Structure' /\ Undisturbed' /\ Overlapped' /\ CheckpointsHold'
<1> DEFINE d == load[l]
           V == Vouched(source, risk, lastSynced, batchSynced)
<1>1. /\ d \in LoadRec /\ l \in Active /\ d.at = "copying" /\ Set(l, Idle) /\ End(l)
      /\ table' = Onto(table, Nothing, d.gone)
      /\ risk' = risk \cup (IF d.gone # {} /\ ~d.alone THEN {"emptied"} ELSE {})
      /\ UNCHANGED <<source, clock, made, lastSynced, batchSynced>>
  BY DEF DeleteOrphans, End, Active, CInv, IInv, TypeOK, LoadRec
<1>2. TypeOK /\ Solo /\ clock \in Version
  BY DEF CInv, IInv, TypeOK
<1>3. Shape(l, d) /\ made
  <2>1. Shape(l, d)
    BY <1>1 DEF CInv, Structure, Shapes
  <2> QED
    BY <1>1, <2>1 DEF CInv, Structure, MadeFirst, NeedsTable, Shape
<1>4. \A r \in Row : table'[r] = IF r \in d.gone THEN 0 ELSE table[r]
  BY <1>1 DEF Onto, Nothing
<1>5. V \subseteq RowsOf(source) /\ V \subseteq Row
  BY DEF Vouched, Passed, RowsOf
<1>6. d.alone => \A r \in V : table'[r] = table[r]
  <2> SUFFICES ASSUME d.alone, NEW r \in V PROVE table'[r] = table[r]
    OBVIOUS
  <2>1. Covers(d, source, table, risk, lastSynced, batchSynced)
    BY <1>1 DEF CInv, Undisturbed, Own
  <2>2. d.since = 0 /\ d.gone \cap RowsOf(d.read) = {}
    BY <1>1, <1>3 DEF Shape
  <2>3. source[r] = d.read[r]
    BY <1>1, <2>1, <2>2 DEF Covers
  <2>4. r \in RowsOf(d.read) /\ r \in Row
    BY <1>5, <2>3 DEF RowsOf
  <2> QED
    BY <1>4, <2>2, <2>4
<1>7. "emptied" \notin risk' => d.alone \/ \A r \in Row : table'[r] = table[r]
  BY <1>1, <1>4
<1>8. Structure'
  <2>1. Shape(l, Idle) /\ ReadBefore(Idle, clock) /\ Idle.at = "idle"
    BY <1>2, IdleShape
  <2>2. lastSynced' <= Stamp[clock] /\ batchSynced' <= Stamp[clock] /\ made'
    BY <1>1, <1>3 DEF CInv, Structure, Seen
  <2>3. risk \subseteq risk'
    BY <1>1
  <2> QED
    BY <1>1, <1>2, <2>1, <2>2, <2>3, SetStructure DEF CInv
<1>9. Undisturbed'
  BY <1>1, <1>2, OwnAtEnd
<1>10. "tie" \in risk <=> "tie" \in risk'
  BY <1>1
<1>11. CheckpointsHold'
  <2>1. ASSUME risk' \subseteq {"tie"}, NEW r \in V PROVE table'[r] = table[r]
    BY <1>5, <1>6, <1>7, <2>1
  <2>2. risk' \subseteq {"tie"} => risk \subseteq {"tie"}
    BY <1>1
  <2> QED
    BY <1>1, <1>10, <2>1, <2>2, HoldKept DEF CInv
<1>12. Overlapped'
  <2>1. CASE d.alone
    <3>1. Active' = {}
      <4>1. Active = {l}
        BY <1>1, <1>2, <2>1 DEF Solo
      <4> QED
        BY <1>1, <1>2, <4>1, SetFields, IdleShape
    <3>2. Vouched(source', risk', lastSynced', batchSynced') = V
      BY <1>1, <1>10, PassedSame
    <3>3. risk' \subseteq {"overlap"} => \A r \in V : table'[r] # 0
      BY <1>1, <1>6, <2>1 DEF CInv, Overlapped
    <3> QED
      BY <3>1, <3>2, <3>3 DEF Overlapped
  <2>2. CASE ~d.alone
    <3>1. risk' \subseteq {"overlap"} =>
            risk \subseteq {"overlap"} /\ \A r \in Row : table[r] # 0 => table'[r] # 0
      BY <1>1, <1>7, <2>2
    <3> QED
      BY <1>1, <1>2, <1>10, <3>1, OverlapKept, IdleShape DEF CInv
  <2> QED
    BY <2>1, <2>2
<1> QED
  BY <1>8, <1>9, <1>11, <1>12

(* A load records its newest stamp: the new checkpoint vouches for rows    *)
(* that the load has read and written, or that the old ones vouched for.   *)
LEMMA MarkKeeps ==
  ASSUME CInv, NEW l \in Active, NEW rec, Set(l, rec),
         rec.at \in {"idle", "marking"}, rec.at = "idle" \/ rec.alone = load[l].alone,
         load[l].at \in {"opened", "loading"},
         lastSynced' \in {lastSynced, load[l].newest},
         batchSynced' \in {batchSynced, load[l].newest},
         UNCHANGED <<source, table>>, risk' = RiskAfter(l)
  PROVE  Undisturbed' /\ Overlapped' /\ CheckpointsHold'
<1> DEFINE d == load[l]
           V == Vouched(source, risk, lastSynced, batchSynced) \cup Passed(Top(d), source, risk)
<1>1. /\ l \in Load /\ d \in LoadRec /\ TypeOK /\ Solo
      /\ source \in [Row -> Version] /\ lastSynced \in Nat /\ batchSynced \in Nat
  BY DEF Active, CInv, IInv, TypeOK, LoadRec
<1>2. Shape(l, d)
  BY <1>1 DEF CInv, Structure, Shapes
<1>3. "tie" \in risk <=> "tie" \in risk'
  BY DEF RiskAfter
<1>4. Vouched(source', risk', lastSynced', batchSynced') \subseteq V
  <2>1. Passed(d.newest, source, risk) \subseteq Passed(Top(d), source, risk)
    BY <1>1, <1>2, TopType, PassedIs DEF Shape, LoadRec
  <2>2. \A c : Passed(c, source, risk') = Passed(c, source, risk)
    BY <1>3, PassedSame
  <2> QED
    BY <2>1, <2>2 DEF Vouched
<1>5. V \subseteq RowsOf(source) /\ V \subseteq Row
  BY DEF Vouched, Passed, RowsOf
<1>6. Undisturbed'
  <2>1. rec.alone /\ rec.at # "idle" =>
          Own(l, rec, source', table', risk', lastSynced', batchSynced')
    BY DEF Own, Asks, Covers, Replaces, Compares
  <2> QED
    BY <1>1, <2>1, OwnKept
<1>7. d.left = {} => (\A r \in RowsOf(d.read) : d.at = "loading")
  BY <1>1 DEF CInv, IInv, AllLeft
<1>8. CheckpointsHold'
  <2> SUFFICES ASSUME risk' \subseteq {"tie"}, NEW r \in V PROVE table[r] = source[r]
    BY <1>4 DEF CheckpointsHold, Fresh
  <2>1. d.alone /\ d.left = {} /\ d.lost = {} /\ (d.since = 0 \/ risk \subseteq {"tie"})
    <3>1. CASE Whole(l)
      BY <1>2, <3>1 DEF Whole, Shape
    <3>2. CASE ~Whole(l)
      <4>1. risk \subseteq {"tie"} /\ d.left = {}
        BY <3>2 DEF RiskAfter
      <4> QED
        BY <4>1, Quiet DEF CInv, Structure
    <3> QED
      BY <3>1, <3>2
  <2>2. Covers(d, source, table, risk, lastSynced, batchSynced)
    BY <2>1 DEF CInv, Undisturbed, Own
  <2>3. source[r] = d.read[r] \/ table[r] = source[r]
    BY <2>1, <2>2 DEF Covers
  <2>4. CASE source[r] = d.read[r]
    <3>1. r \in RowsOf(d.read) /\ d.at = "loading"
      BY <1>5, <1>7, <2>1, <2>4 DEF RowsOf
    <3>2. table[r] = d.read[r]
      BY <1>1, <2>1, <3>1 DEF CInv, IInv, LoadedStays
    <3> QED
      BY <2>4, <3>2
  <2> QED
    BY <2>3, <2>4
<1>9. Overlapped'
  <2> SUFFICES ASSUME risk' \subseteq {"overlap"}
               PROVE  /\ \A r \in Vouched(source', risk', lastSynced', batchSynced') : table'[r] # 0
                      /\ \A k \in Active' : Shares(load'[k], source', table', risk')
    BY DEF Overlapped
  <2>1. Shares(rec, source', table', risk')
    BY DEF Shares
  <2>2. CASE Whole(l)
    <3>1. risk' = {}
      BY <2>2 DEF RiskAfter
    <3>2. ASSUME NEW r \in Vouched(source', risk', lastSynced', batchSynced') PROVE table'[r] # 0
      <4>1. table'[r] = source'[r]
        BY <1>8, <3>1 DEF CheckpointsHold, Fresh
      <4>2. source'[r] # 0
        BY <1>4, <1>5 DEF RowsOf
      <4> QED
        BY <4>1, <4>2
    <3>3. Active = {l}
      BY <1>1, <2>2 DEF Whole, Solo, Active
    <3>4. \A k \in Active' : Shares(load'[k], source', table', risk')
      BY <1>1, <2>1, <3>3, SetFields
    <3> QED
      BY <3>2, <3>4
  <2>3. CASE ~Whole(l)
    <3>1. risk \subseteq {"overlap"} /\ d.left = {}
      BY <2>3 DEF RiskAfter
    <3>2. Shares(d, source, table, risk)
      BY <3>1 DEF CInv, Overlapped
    <3>3. ASSUME NEW r \in V PROVE table[r] # 0
      <4>1. table[r] # 0 \/ d.read[r] # 0
        BY <3>1, <3>2 DEF CInv, Overlapped, Shares
      <4>2. d.read[r] # 0 => r \in RowsOf(d.read) /\ d.at = "loading"
        BY <1>5, <1>7, <3>1 DEF RowsOf
      <4> QED
        BY <3>1, <3>2, <4>1, <4>2 DEF Shares
    <3>4. ASSUME NEW k \in Active' PROVE Shares(load'[k], source', table', risk')
      <4>1. CASE k = l
        BY <1>1, <2>1, <4>1, SetFields
      <4>2. CASE k # l
        <5>1. k \in Active /\ load'[k] = load[k]
          BY <1>1, <4>2, SetFields
        <5>2. Shares(load[k], source, table, risk)
          BY <3>1, <5>1 DEF CInv, Overlapped
        <5>3. \A c : Passed(c, source, risk') = Passed(c, source, risk)
          BY <1>3, PassedSame
        <5> QED
          BY <5>1, <5>2, <5>3 DEF Shares
      <4> QED
        BY <4>1, <4>2
    <3> QED
      BY <1>4, <3>3, <3>4
  <2> QED
    BY <2>2, <2>3
<1> QED
  BY <1>6, <1>8, <1>9

(* What a load records is no newer than the last write.                    *)
LEMMA MarkSeen ==
  ASSUME CInv, NEW l \in Active
  PROVE  /\ load[l].newest <= Stamp[clock]
         /\ lastSynced <= Stamp[clock] /\ batchSynced <= Stamp[clock]
         /\ Shape(l, load[l]) /\ ReadBefore(load[l], clock) /\ NotedFor(load[l], risk)
<1> DEFINE d == load[l]
<1>1. /\ Shape(l, d) /\ ReadBefore(d, clock) /\ NotedFor(d, risk)
      /\ lastSynced <= Stamp[clock] /\ batchSynced <= Stamp[clock]
  BY DEF CInv, Structure, Shapes, Seen, Noted, Active
<1>2. d \in LoadRec /\ clock \in Version
  BY DEF CInv, IInv, TypeOK, LoadRec, Active
<1>3. d.newest <= Top(d) /\ Top(d) <= Stamp[clock] /\ Top(d) \in Nat /\ d.newest \in Nat
  BY <1>1, <1>2, TopType DEF Shape, LoadRec
<1>4. Stamp[clock] \in Nat
  BY <1>2, Stamps
<1> QED
  BY <1>1, <1>3, <1>4

(* The end of run_db_load.                                                 *)
LEMMA FinishKeeps ==
  ASSUME CInv, NEW l \in EtlLoad, Finish(l)
  PROVE  Structure' /\ Undisturbed' /\ Overlapped' /\ CheckpointsHold'
<1> DEFINE d == load[l]
<1>1. /\ l \in Load /\ l \in Active /\ d.at \in {"opened", "loading"} /\ Set(l, Idle)
      /\ lastSynced' \in {lastSynced, d.newest} /\ risk' = RiskAfter(l)
      /\ UNCHANGED <<source, clock, table, made, batchSynced>>
  BY DEF Finish, End, Active, Load
<1>2. TypeOK /\ Solo /\ clock \in Version
  BY DEF CInv, IInv, TypeOK
<1>3. Shape(l, Idle) /\ ReadBefore(Idle, clock) /\ Idle.at = "idle"
  BY <1>2, IdleShape
<1>4. Structure'
  <2>1. lastSynced' <= Stamp[clock] /\ batchSynced' <= Stamp[clock]
    BY <1>1, MarkSeen
  <2>2. made' \/ table' = Nothing
    BY <1>1 DEF CInv, Structure, MadeFirst
  <2>3. risk \subseteq risk' \/ Active = {l}
    BY <1>1, <1>2 DEF RiskAfter, Whole, Solo, Active
  <2> QED
    BY <1>1, <1>2, <1>3, <2>1, <2>2, <2>3, SetStructure DEF CInv
<1>5. Undisturbed' /\ Overlapped' /\ CheckpointsHold'
  BY <1>1, <1>3, MarkKeeps
<1> QED
  BY <1>4, <1>5

(* The first mark of a batch, or the only one.                             *)
LEMMA BatchMarkKeeps ==
  ASSUME CInv, NEW l \in BatchLoad, BatchMark(l)
  PROVE  Structure' /\ Undisturbed' /\ Overlapped' /\ CheckpointsHold'
<1> DEFINE d == load[l]
           rec == IF d.newest # 0 THEN [d EXCEPT !.at = "marking"] ELSE Idle
<1>1. /\ l \in Load /\ l \in Active /\ d \in LoadRec /\ d.at = "loading" /\ Set(l, rec)
      /\ batchSynced' = (IF d.newest # 0 THEN d.newest ELSE batchSynced)
      /\ risk' = IF d.left # {} THEN risk \cup {"cut"} ELSE RiskAfter(l)
      /\ UNCHANGED <<source, clock, table, made, lastSynced>>
  BY DEF BatchMark, End, Active, Load, CInv, IInv, TypeOK, LoadRec
<1>2. TypeOK /\ Solo /\ clock \in Version
  BY DEF CInv, IInv, TypeOK
<1>3. /\ Shape(l, d) /\ ReadBefore(d, clock) /\ NotedFor(d, risk)
      /\ lastSynced' <= Stamp[clock] /\ batchSynced' <= Stamp[clock]
  BY <1>1, MarkSeen
<1>4. /\ rec = Idle \/ (/\ rec.at = "marking" /\ rec.newest = d.newest /\ d.newest # 0
                        /\ rec.read = d.read /\ rec.since = d.since /\ rec.mode = d.mode
                        /\ rec.alone = d.alone /\ rec.lost = d.lost /\ Top(rec) = Top(d))
  BY <1>1 DEF LoadRec, Top
<1> HIDE DEF rec
<1>5. Shape(l, rec) /\ ReadBefore(rec, clock)
  BY <1>2, <1>3, <1>4, IdleShape DEF Shape, ReadBefore
<1>6. rec.at \in {"idle", "marking"} /\ (rec.at = "idle" \/ rec.alone = d.alone)
  BY <1>4, IdleShape
<1>7. Structure'
  <2>1. rec.at = "marking" => rec.newest = batchSynced'
    BY <1>1, <1>4, IdleShape
  <2>2. made' \/ table' = Nothing
    BY <1>1 DEF CInv, Structure, MadeFirst
  <2>3. risk \subseteq risk' \/ Active = {l}
    BY <1>1, <1>2 DEF RiskAfter, Whole, Solo, Active
  <2>4. rec.at # "idle" => NotedFor(rec, risk')
    BY <1>1, <1>3, <1>4, IdleShape DEF NotedFor, RiskAfter, Whole
  <2>5. rec.at # "idle" /\ NeedsTable(l, rec) => made'
    <3>1. rec.at # "idle" => rec.at = "marking" /\ rec.mode = d.mode
      BY <1>4, IdleShape
    <3>2. NeedsTable(l, d) => made
      BY <1>1 DEF CInv, Structure, MadeFirst
    <3> QED
      BY <1>1, <3>1, <3>2 DEF NeedsTable
  <2> QED
    BY <1>1, <1>2, <1>3, <1>5, <1>6, <2>1, <2>2, <2>3, <2>4, <2>5, SetStructure DEF CInv
<1>8. Undisturbed' /\ Overlapped' /\ CheckpointsHold'
  <2>1. CASE d.left = {}
    BY <1>1, <1>6, <2>1, MarkKeeps
  <2>2. CASE d.left # {}
    <3>1. ~(risk' \subseteq {"tie"}) /\ ~(risk' \subseteq {"overlap"})
      BY <1>1, <2>2
    <3>2. rec.alone /\ rec.at # "idle" =>
            Own(l, rec, source', table', risk', lastSynced', batchSynced')
      BY <1>6 DEF Own, Asks, Covers, Replaces, Compares
    <3>3. Undisturbed'
      BY <1>1, <1>2, <1>6, <3>2, OwnKept
    <3> QED
      BY <3>1, <3>3 DEF Overlapped, CheckpointsHold
  <2> QED
    BY <2>1, <2>2
<1> QED
  BY <1>7, <1>8

(* The second mark repeats the first.                                      *)
LEMMA BatchMarkTableKeeps ==
  ASSUME CInv, NEW l \in BatchLoad, BatchMarkTable(l)
  PROVE  Structure' /\ Undisturbed' /\ Overlapped' /\ CheckpointsHold'
<1>1. /\ l \in Load /\ l \in Active /\ load[l].at = "marking" /\ Set(l, Idle) /\ End(l)
      /\ lastSynced' = load[l].newest
      /\ UNCHANGED <<source, clock, table, made, batchSynced, risk>>
  BY DEF BatchMarkTable, End, Active, Load
<1>2. TypeOK /\ Solo /\ clock \in Version
  BY DEF CInv, IInv, TypeOK
<1>3. lastSynced' = batchSynced
  BY <1>1 DEF CInv, Structure, Marked
<1>4. Structure'
  <2>1. Shape(l, Idle) /\ ReadBefore(Idle, clock) /\ Idle.at = "idle"
    BY <1>2, IdleShape
  <2>2. /\ lastSynced' <= Stamp[clock] /\ batchSynced' <= Stamp[clock]
        /\ made' \/ table' = Nothing
    BY <1>1, <1>3 DEF CInv, Structure, Seen, MadeFirst
  <2> QED
    BY <1>1, <1>2, <2>1, <2>2, SetStructure DEF CInv
<1>5. Undisturbed'
  BY <1>1, <1>2, OwnAtEnd
<1>6. Vouched(source', risk', lastSynced', batchSynced')
        \subseteq Vouched(source, risk, lastSynced, batchSynced)
  BY <1>1, <1>3 DEF Vouched
<1>7. Overlapped'
  <2>1. \A k \in Active' : k \in Active /\ load'[k] = load[k]
    BY <1>1, <1>2, SetFields, IdleShape
  <2> QED
    BY <1>1, <1>6, <2>1 DEF CInv, Overlapped
<1>8. CheckpointsHold'
  BY <1>1, <1>6 DEF CInv, CheckpointsHold, Fresh
<1> QED
  BY <1>4, <1>5, <1>7, <1>8

(* ReadUpTo is as new as the checkpoints and everything the loads read.    *)
LEMMA ReadUpToIs ==
  ASSUME CInv
  PROVE  /\ ReadUpTo \in Nat /\ lastSynced <= ReadUpTo /\ batchSynced <= ReadUpTo
         /\ \A l \in Active : load[l].since <= ReadUpTo /\ Top(load[l]) <= ReadUpTo
<1> DEFINE T == {lastSynced, batchSynced}
                \cup UNION {{load[l].since, Newest(load[l].read, Row)} : l \in Active}
<1>1. lastSynced \in Nat /\ batchSynced \in Nat /\ clock \in Version /\ Stamp[clock] \in Nat
  BY Stamps DEF CInv, IInv, TypeOK
<1>2. lastSynced <= Stamp[clock] /\ batchSynced <= Stamp[clock]
  BY DEF CInv, Structure, Seen
<1>3. ASSUME NEW l \in Active
      PROVE  /\ load[l].since \in Nat /\ load[l].since <= Stamp[clock]
             /\ Newest(load[l].read, Row) \in Nat /\ Newest(load[l].read, Row) <= Stamp[clock]
  <2>1. load[l] \in LoadRec /\ ReadBefore(load[l], clock)
    BY DEF CInv, IInv, TypeOK, LoadRec, Structure, Seen, Active
  <2> QED
    BY <1>1, <2>1, TopType DEF Top, LoadRec, ReadBefore
<1>4. T \in SUBSET Nat /\ T # {} /\ \A x \in T : x <= Stamp[clock]
  BY <1>1, <1>2, <1>3
<1>5. Max(T) \in T /\ \A x \in T : x <= Max(T)
  <2> HIDE DEF T
  <2> QED
    BY <1>1, <1>4, MaxNat
<1>6. /\ lastSynced \in T /\ batchSynced \in T
      /\ \A l \in Active : load[l].since \in T /\ Top(load[l]) \in T
  BY DEF Top
<1>7. ReadUpTo = Max(T)
  BY DEF ReadUpTo
<1> HIDE DEF T
<1> QED
  BY <1>4, <1>5, <1>6, <1>7

(* A change of one row at the source that no checkpoint vouches for, nor   *)
(* any load that runs.                                                     *)
LEMMA ChangeKeeps ==
  ASSUME CInv, NEW r \in Row,
         UNCHANGED <<table, made, lastSynced, batchSynced, load>>,
         clock' \in Version, clock <= clock',
         \A q \in Row \ {r} : source'[q] = source[q],
         source'[r] \in {0, clock'}, source'[r] # 0 => clock < clock',
         risk \subseteq risk',
         \A c \in {lastSynced, batchSynced}
                  \cup UNION {{load[l].since, Top(load[l])} : l \in Active} :
           Passed(c, source', risk') \subseteq Passed(c, source, risk) \ {r}
  PROVE  Structure' /\ Undisturbed' /\ Overlapped' /\ CheckpointsHold'
<1>1. /\ \A l \in Load : load[l] \in LoadRec
      /\ source \in [Row -> Version] /\ clock \in Version
      /\ clock \in Nat /\ clock' \in Nat
      /\ lastSynced \in Nat /\ batchSynced \in Nat
  BY Stamps DEF CInv, IInv, TypeOK, LoadRec
<1>2. Stamp[clock] <= Stamp[clock'] /\ Stamp[clock] \in Nat /\ Stamp[clock'] \in Nat
  BY <1>1, Stamps
<1>3. Active' = Active /\ Active \subseteq Load
  BY DEF Active
<1>4. Structure'
  <2>1. Shapes' /\ Marked' /\ OneBatch' /\ MadeFirst'
    BY <1>3 DEF CInv, Structure, Shapes, Marked, OneBatch, MadeFirst
  <2>2. Noted'
    BY <1>3 DEF CInv, Structure, Noted, NotedFor
  <2>3. Seen'
    <3>1. ASSUME NEW l \in Load PROVE ReadBefore(load[l], clock')
      <4>1. ReadBefore(load[l], clock) /\ load[l].since \in Nat
            /\ load[l].read \in [Row -> Version]
        BY <1>1 DEF CInv, Structure, Seen, LoadRec
      <4>2. \A q \in Row : load[l].read[q] \in Nat
        BY <4>1, Stamps
      <4> QED
        BY <1>1, <1>2, <4>1, <4>2 DEF ReadBefore
    <3>2. ASSUME NEW q \in Row PROVE source'[q] <= clock'
      <4>1. source[q] <= clock /\ source[q] \in Nat
        BY <1>1, Stamps DEF CInv, Structure, Seen
      <4> QED
        BY <1>1, <4>1
    <3>3. lastSynced <= Stamp[clock'] /\ batchSynced <= Stamp[clock']
      BY <1>1, <1>2 DEF CInv, Structure, Seen
    <3> QED
      BY <3>1, <3>2, <3>3 DEF Seen
  <2> QED
    BY <2>1, <2>2, <2>3 DEF Structure
<1>5. Vouched(source', risk', lastSynced, batchSynced)
        \subseteq Vouched(source, risk, lastSynced, batchSynced) \ {r}
  BY DEF Vouched
<1>6. ASSUME NEW l \in Active
      PROVE  /\ Passed(load[l].since, source', risk') \subseteq Passed(load[l].since, source, risk) \ {r}
             /\ Passed(Top(load[l]), source', risk') \subseteq Passed(Top(load[l]), source, risk) \ {r}
  OBVIOUS
<1>7. \A c : Passed(c, source, risk) \subseteq Row
  BY DEF Passed, RowsOf
<1>8. CheckpointsHold'
  <2> SUFFICES ASSUME risk' \subseteq {"tie"},
                      NEW q \in Vouched(source', risk', lastSynced, batchSynced)
               PROVE  table[q] = source'[q]
    BY DEF CheckpointsHold, Fresh
  <2>1. q \in Row \ {r} /\ q \in Vouched(source, risk, lastSynced, batchSynced)
    BY <1>5, <1>7 DEF Vouched
  <2> QED
    BY <2>1 DEF CInv, CheckpointsHold, Fresh
<1>9. Undisturbed'
  <2> SUFFICES ASSUME NEW l \in Active, load[l].alone
               PROVE  Own(l, load[l], source', table, risk', lastSynced, batchSynced)
    BY <1>3 DEF Undisturbed
  <2> DEFINE d == load[l]
  <2>1. /\ Asks(d, source, table, risk) /\ Replaces(l, d, table) /\ Compares(d, source, table)
        /\ Covers(d, source, table, risk, lastSynced, batchSynced)
    BY DEF CInv, Undisturbed, Own
  <2>2. /\ Passed(d.since, source', risk') \subseteq Passed(d.since, source, risk) \ {r}
        /\ Passed(Top(d), source', risk') \subseteq Passed(Top(d), source, risk) \ {r}
    BY <1>6
  <2>3. Asks(d, source', table, risk')
    BY <1>7, <2>1, <2>2 DEF Asks
  <2>4. Covers(d, source', table, risk', lastSynced, batchSynced)
    <3> DEFINE V == Vouched(source, risk, lastSynced, batchSynced) \cup Passed(Top(d), source, risk)
               W == Vouched(source', risk', lastSynced, batchSynced) \cup Passed(Top(d), source', risk')
    <3>1. W \subseteq V \ {r} /\ V \subseteq Row
      BY <1>5, <1>7, <2>2 DEF Vouched
    <3>2. \A q \in W : source'[q] = source[q] /\ q \in V
      BY <3>1
    <3> QED
      BY <2>1, <3>2 DEF Covers
  <2>5. Compares(d, source', table)
    <3>1. d.read \in [Row -> Version] /\ \A q \in Row : d.read[q] <= clock
      BY <1>1, <1>3 DEF CInv, Structure, Seen, ReadBefore, LoadRec
    <3>2. r \in RowsOf(d.read) => source'[r] # d.read[r]
      BY <1>1, <3>1, Stamps DEF RowsOf
    <3>3. \A q \in RowsOf(d.read) : q \in Row
      BY DEF RowsOf
    <3> QED
      BY <2>1, <3>2, <3>3 DEF Compares
  <2> QED
    BY <2>1, <2>3, <2>4, <2>5 DEF Own
<1>10. Overlapped'
  <2> SUFFICES ASSUME risk' \subseteq {"overlap"}
               PROVE  /\ \A q \in Vouched(source', risk', lastSynced, batchSynced) : table[q] # 0
                      /\ \A l \in Active : Shares(load[l], source', table, risk')
    BY <1>3 DEF Overlapped
  <2>1. ASSUME NEW l \in Active PROVE Shares(load[l], source', table, risk')
    <3>1. Shares(load[l], source, table, risk)
      BY DEF CInv, Overlapped
    <3> QED
      BY <1>6, <3>1 DEF Shares
  <2> QED
    BY <1>5, <2>1 DEF CInv, Overlapped
<1> QED
  BY <1>4, <1>8, <1>9, <1>10

(* Writes and deletions at the source.                                     *)
LEMMA SourceKeeps ==
  ASSUME CInv, NEW r \in Row, SourceWrite(r) \/ SourceDelete(r)
  PROVE  Structure' /\ Undisturbed' /\ Overlapped' /\ CheckpointsHold'
<1> DEFINE C == {lastSynced, batchSynced}
                \cup UNION {{load[l].since, Top(load[l])} : l \in Active}
<1>1. /\ source \in [Row -> Version] /\ clock \in Version /\ clock \in Nat /\ MaxVersion \in Nat
      /\ lastSynced \in Nat /\ batchSynced \in Nat
  BY Stamps, Bounds DEF CInv, IInv, TypeOK
<1>2. clock' = clock + 1 /\ clock' \in Version
  BY <1>1 DEF SourceWrite, SourceDelete, Version
<1>3. UNCHANGED <<table, made, lastSynced, batchSynced, load>>
  BY DEF SourceWrite, SourceDelete
<1>4. risk \subseteq risk'
  BY DEF SourceWrite, SourceDelete
<1>5. ASSUME NEW c \in C PROVE c \in Nat /\ c <= ReadUpTo /\ c <= Stamp[clock]
  <2>1. ASSUME NEW l \in Active
        PROVE  /\ load[l].since \in Nat /\ Top(load[l]) \in Nat
               /\ load[l].since <= Stamp[clock] /\ Top(load[l]) <= Stamp[clock]
    <3>1. load[l] \in LoadRec /\ ReadBefore(load[l], clock)
      BY DEF CInv, IInv, TypeOK, LoadRec, Structure, Seen, Active
    <3> QED
      BY <1>1, <3>1, TopType DEF LoadRec, ReadBefore
  <2>2. lastSynced <= Stamp[clock] /\ batchSynced <= Stamp[clock]
    BY DEF CInv, Structure, Seen
  <2> QED
    BY <1>1, <2>1, <2>2, ReadUpToIs
<1>6. CASE SourceWrite(r)
  <2>1. source' = [source EXCEPT ![r] = clock']
        /\ risk' = risk \cup (IF Stamp[clock'] <= ReadUpTo THEN {"tie"} ELSE {})
    BY <1>6 DEF SourceWrite
  <2>2. source'[r] = clock' /\ \A q \in Row \ {r} : source'[q] = source[q]
    BY <1>1, <2>1
  <2>3. ASSUME NEW c \in C PROVE Passed(c, source', risk') \subseteq Passed(c, source, risk) \ {r}
    <3>1. c \in Nat /\ c <= ReadUpTo /\ c <= Stamp[clock] /\ ReadUpTo \in Nat
      BY <1>5, ReadUpToIs
    <3>2. Stamp[clock] <= Stamp[clock'] /\ Stamp[clock] \in Nat /\ Stamp[clock'] \in Nat
      BY <1>1, <1>2, Stamps
    <3>3. r \notin Passed(c, source', risk')
      <4>1. CASE "tie" \in risk'
        BY <2>2, <3>1, <3>2, <4>1 DEF Passed
      <4>2. CASE "tie" \notin risk'
        <5>1. ~(Stamp[clock'] <= ReadUpTo)
          BY <2>1, <4>2
        <5> QED
          BY <2>2, <3>1, <3>2, <4>2, <5>1 DEF Passed
      <4> QED
        BY <4>1, <4>2
    <3>4. ASSUME NEW q \in Passed(c, source', risk'), q # r PROVE q \in Passed(c, source, risk)
      <4>1. q \in Row /\ source'[q] = source[q] /\ source[q] # 0
        BY <2>2, <3>4 DEF Passed, RowsOf
      <4>2. Stamp[source[q]] \in Nat
        BY <1>1, <4>1, Stamps
      <4> QED
        BY <1>4, <3>1, <4>1, <4>2 DEF Passed, RowsOf
    <3> QED
      BY <3>3, <3>4
  <2>4. clock <= clock' /\ clock < clock' /\ source'[r] \in {0, clock'}
    BY <1>1, <1>2, <2>2
  <2> QED
    BY <1>2, <1>3, <1>4, <2>2, <2>3, <2>4, ChangeKeeps
<1>7. CASE SourceDelete(r)
  <2>1. source' = [source EXCEPT ![r] = 0] /\ risk' = risk
    BY <1>7 DEF SourceDelete
  <2>2. source'[r] = 0 /\ \A q \in Row \ {r} : source'[q] = source[q]
    BY <1>1, <2>1
  <2>3. \A c \in C : Passed(c, source', risk') \subseteq Passed(c, source, risk) \ {r}
    BY <2>1, <2>2 DEF Passed, RowsOf
  <2> QED
    BY <1>1, <1>2, <1>3, <1>4, <2>2, <2>3, ChangeKeeps
<1> QED
  BY <1>6, <1>7

(* The settings change, and perhaps the checkpoint goes back to NULL.      *)
LEMMA ConfigureKeeps ==
  ASSUME CInv, Configure
  PROVE  Structure' /\ Undisturbed' /\ Overlapped' /\ CheckpointsHold'
<1>1. /\ UNCHANGED <<source, clock, table, made, batchSynced, load, risk>>
      /\ lastSynced' \in {lastSynced, 0}
      /\ source \in [Row -> Version] /\ clock \in Version /\ Active' = Active
  BY DEF Configure, CInv, IInv, TypeOK, Active
<1>2. Vouched(source, risk, lastSynced', batchSynced) \subseteq Vouched(source, risk, lastSynced, batchSynced)
  BY <1>1, PassedIs DEF Vouched
<1>3. Structure'
  <2>1. 0 <= Stamp[clock]
    BY <1>1, Stamps
  <2>2. Shapes' /\ Marked' /\ OneBatch' /\ MadeFirst' /\ Noted'
    BY <1>1 DEF CInv, Structure, Shapes, Marked, OneBatch, MadeFirst, Noted
  <2>3. Seen'
    BY <1>1, <2>1 DEF CInv, Structure, Seen
  <2> QED
    BY <2>2, <2>3 DEF Structure
<1>4. CheckpointsHold'
  BY <1>1, <1>2 DEF CInv, CheckpointsHold, Fresh
<1>5. Overlapped'
  BY <1>1, <1>2 DEF CInv, Overlapped
<1>6. Undisturbed'
  <2> SUFFICES ASSUME NEW l \in Active, load[l].alone
               PROVE  Own(l, load[l], source, table, risk, lastSynced', batchSynced)
    BY <1>1 DEF Undisturbed
  <2>1. Own(l, load[l], source, table, risk, lastSynced, batchSynced)
    BY DEF CInv, Undisturbed
  <2>2. Covers(load[l], source, table, risk, lastSynced', batchSynced)
    BY <1>2, <2>1 DEF Own, Covers
  <2> QED
    BY <2>1, <2>2 DEF Own
<1> QED
  BY <1>3, <1>4, <1>5, <1>6

(* What Begin writes, in full.                                             *)
LEMMA BeginWrites ==
  ASSUME TypeOK, NEW l \in Load, NEW rec \in LoadRec, Begin(l, rec)
  PROVE  /\ l \notin Active /\ Active' = Active \cup (IF rec.at = "idle" THEN {} ELSE {l})
         /\ load'[l] = [rec EXCEPT !.alone = (Active = {})]
         /\ load'[l].alone <=> Active = {}
         /\ \A k \in Active : load'[k] = [load[k] EXCEPT !.alone = FALSE] /\ k \in Load \ {l}
         /\ \A k \in Load \ Active : k # l => load'[k] = load[k]
<1>1. \A k \in Load : load[k] \in LoadRec
  BY DEF TypeOK, LoadRec
<1>2. l \notin Active /\ load'[l] = [rec EXCEPT !.alone = (Active = {})]
  BY DEF Begin, Active
<1>3. load'[l].at = rec.at /\ (load'[l].alone <=> Active = {})
  BY <1>2 DEF LoadRec
<1>4. \A k \in Active : load'[k] = [load[k] EXCEPT !.alone = FALSE] /\ k \in Load \ {l}
  BY <1>2 DEF Begin, Active
<1>5. \A k \in Load \ Active : k # l => load'[k] = load[k]
  BY DEF Begin
<1>6. \A k \in Load \ {l} : load'[k].at = load[k].at
  BY BeginFields
<1>7. Active' = Active \cup (IF rec.at = "idle" THEN {} ELSE {l})
  BY <1>2, <1>3, <1>6 DEF Active
<1> QED
  BY <1>2, <1>3, <1>4, <1>5, <1>7

(* The mark alone is no part of what a load knows.                         *)
LEMMA AloneSame ==
  ASSUME NEW d \in LoadRec, NEW x \in BOOLEAN, NEW e, e = [d EXCEPT !.alone = x]
  PROVE  /\ e.at = d.at /\ e.newest = d.newest /\ e.lost = d.lost /\ e.mode = d.mode
         /\ \A l : Shape(l, e) <=> Shape(l, d)
         /\ \A c : ReadBefore(e, c) <=> ReadBefore(d, c)
         /\ \A l : NeedsTable(l, e) <=> NeedsTable(l, d)
         /\ \A src, tab, rk : Shares(e, src, tab, rk) <=> Shares(d, src, tab, rk)
         /\ \A src, tab, rk : Asks(e, src, tab, rk) <=> Asks(d, src, tab, rk)
<1>1. /\ e.at = d.at /\ e.newest = d.newest /\ e.lost = d.lost /\ e.mode = d.mode
      /\ e.since = d.since /\ e.read = d.read /\ e.left = d.left /\ e.gone = d.gone
      /\ Top(e) = Top(d)
  BY DEF LoadRec, Top
<1>2. \A l : Shape(l, e) <=> Shape(l, d)
  BY <1>1 DEF Shape
<1>3. \A c : ReadBefore(e, c) <=> ReadBefore(d, c)
  BY <1>1 DEF ReadBefore
<1>4. \A l : NeedsTable(l, e) <=> NeedsTable(l, d)
  BY <1>1 DEF NeedsTable
<1>5. \A src, tab, rk : Shares(e, src, tab, rk) <=> Shares(d, src, tab, rk)
  BY <1>1 DEF Shares
<1>6. \A src, tab, rk : Asks(e, src, tab, rk) <=> Asks(d, src, tab, rk)
  BY <1>1 DEF Asks
<1> QED
  BY <1>1, <1>2, <1>3, <1>4, <1>5, <1>6

(* The start of a load: its checkpoint is one that holds.                  *)
LEMMA BeginKeeps ==
  ASSUME CInv, NEW l \in Load, NEW rec \in LoadRec, Begin(l, rec),
         rec.at \in {"started", "keys"}, rec.newest = 0, rec.lost = {}, rec.read = Nothing,
         rec.at = "keys" => rec.mode = "diff", rec.mode = "diff" => made,
         rec.since # 0 => rec.mode = "incremental",
         rec.since \in {0, lastSynced, batchSynced},
         l \in BatchLoad => BatchLoad \cap Active = {},
         UNCHANGED <<source, clock, table, made, lastSynced, batchSynced>>,
         risk' = risk \cup Overlapping
  PROVE  Structure' /\ Undisturbed' /\ Overlapped' /\ CheckpointsHold'
<1>1. /\ TypeOK /\ \A k \in Load : load[k] \in LoadRec
      /\ source \in [Row -> Version] /\ clock \in Version
  BY DEF CInv, IInv, TypeOK, LoadRec
<1>2. load'[l] = [rec EXCEPT !.alone = (Active = {})] /\ (load'[l].alone <=> Active = {})
  BY <1>1, BeginWrites
<1>3. /\ Active' = Active \cup {l} /\ l \notin Active /\ Active \subseteq Load \ {l}
      /\ \A k \in Active : load'[k] = [load[k] EXCEPT !.alone = FALSE]
      /\ \A k \in Load \ Active : k # l => load'[k] = load[k]
  BY <1>1, BeginWrites
<1>4. ASSUME NEW k \in Load \ {l}
      PROVE  /\ load'[k].at = load[k].at /\ load'[k].newest = load[k].newest
             /\ load'[k].lost = load[k].lost
             /\ Shape(k, load'[k]) <=> Shape(k, load[k])
             /\ ReadBefore(load'[k], clock) <=> ReadBefore(load[k], clock)
             /\ NeedsTable(k, load'[k]) <=> NeedsTable(k, load[k])
             /\ \A tab, rk : Shares(load'[k], source, tab, rk) <=> Shares(load[k], source, tab, rk)
  <2>1. CASE k \in Active
    BY <1>1, <1>3, <2>1, AloneSame, ZenonT(40)
  <2>2. CASE k \notin Active
    BY <1>3, <2>2
  <2> QED
    BY <2>1, <2>2
<1>5. /\ load'[l].at = rec.at /\ load'[l].newest = rec.newest /\ load'[l].lost = rec.lost
      /\ load'[l].mode = rec.mode
      /\ Shape(l, load'[l]) <=> Shape(l, rec)
      /\ ReadBefore(load'[l], clock) <=> ReadBefore(rec, clock)
      /\ NeedsTable(l, load'[l]) <=> NeedsTable(l, rec)
      /\ \A tab, rk : Shares(load'[l], source, tab, rk) <=> Shares(rec, source, tab, rk)
      /\ \A tab, rk : Asks(load'[l], source, tab, rk) <=> Asks(rec, source, tab, rk)
  <2>1. (Active = {}) \in BOOLEAN
    OBVIOUS
  <2> QED
    BY <1>2, <2>1, AloneSame, ZenonT(40)
<1>6. risk \subseteq risk' /\ ("tie" \in risk <=> "tie" \in risk')
      /\ (Active # {} => "overlap" \in risk')
  BY DEF Overlapping
<1>7. Shape(l, rec)
  BY TopType DEF Shape
<1>8. ReadBefore(rec, clock)
  <2>1. rec.since <= Stamp[clock]
    BY <1>1, Stamps DEF CInv, Structure, Seen
  <2>2. \A r \in Row : rec.read[r] <= clock
    BY <1>1, Stamps DEF Nothing
  <2> QED
    BY <2>1, <2>2 DEF ReadBefore
<1>9. Structure'
  <2>1. Shapes'
    BY <1>4, <1>5, <1>7 DEF CInv, Structure, Shapes
  <2>2. Marked'
    BY <1>4, <1>5 DEF CInv, Structure, Marked
  <2>3. OneBatch'
    BY <1>3 DEF CInv, Structure, OneBatch
  <2>4. MadeFirst'
    <3>1. ASSUME NEW k \in Active', NeedsTable(k, load'[k]) PROVE made'
      <4>1. CASE k = l
        BY <1>5, <3>1, <4>1 DEF NeedsTable
      <4>2. CASE k # l
        BY <1>3, <1>4, <3>1, <4>2 DEF CInv, Structure, MadeFirst
      <4> QED
        BY <4>1, <4>2
    <3>2. made' \/ table' = Nothing
      BY DEF CInv, Structure, MadeFirst
    <3> QED
      BY <3>1, <3>2 DEF MadeFirst
  <2>5. Seen'
    BY <1>4, <1>5, <1>8 DEF CInv, Structure, Seen
  <2>6. Noted'
    <3> SUFFICES ASSUME NEW k \in Active' PROVE NotedFor(load'[k], risk')
      BY DEF Noted
    <3>1. CASE k = l
      BY <1>2, <1>5, <1>6, <3>1 DEF NotedFor
    <3>2. CASE k # l
      <4>1. k \in Active /\ NotedFor(load[k], risk) /\ load'[k].lost = load[k].lost
        BY <1>3, <1>4, <3>2 DEF CInv, Structure, Noted
      <4> QED
        BY <1>6, <4>1 DEF NotedFor
    <3> QED
      BY <3>1, <3>2
  <2> QED
    BY <2>1, <2>2, <2>3, <2>4, <2>5, <2>6 DEF Structure
<1>10. /\ \A c : Passed(c, source, risk') = Passed(c, source, risk)
       /\ \A c, d : Vouched(source, risk', c, d) = Vouched(source, risk, c, d)
  BY <1>6, PassedSame
<1>11. Passed(rec.since, source, risk) \subseteq Vouched(source, risk, lastSynced, batchSynced)
  BY <1>1, PassedIs DEF Vouched
<1>12. CheckpointsHold'
  BY <1>6, <1>10 DEF CInv, CheckpointsHold, Fresh
<1>13. Undisturbed'
  <2> SUFFICES ASSUME NEW k \in Active', load'[k].alone
               PROVE  Own(k, load'[k], source, table, risk', lastSynced, batchSynced)
    BY DEF Undisturbed
  <2>1. k = l
    <3> SUFFICES ASSUME k # l PROVE FALSE
      OBVIOUS
    <3>1. k \in Active /\ load[k] \in LoadRec /\ load'[k] = [load[k] EXCEPT !.alone = FALSE]
      BY <1>1, <1>3
    <3> QED
      BY <3>1 DEF LoadRec
  <2>2. Asks(rec, source, table, risk')
    BY <1>6, <1>10, <1>11 DEF Asks, CInv, CheckpointsHold, Fresh
  <2>3. Covers(load'[l], source, table, risk', lastSynced, batchSynced)
        /\ Replaces(l, load'[l], table) /\ Compares(load'[l], source, table)
    BY <1>5 DEF Covers, Replaces, Compares
  <2> QED
    BY <1>5, <2>1, <2>2, <2>3 DEF Own
<1>14. Overlapped'
  <2> SUFFICES ASSUME risk' \subseteq {"overlap"}
               PROVE  /\ \A r \in Vouched(source, risk', lastSynced, batchSynced) : table[r] # 0
                      /\ \A k \in Active' : Shares(load'[k], source, table, risk')
    BY DEF Overlapped
  <2>1. risk \subseteq {"overlap"}
    BY <1>6
  <2>2. \A r \in Vouched(source, risk, lastSynced, batchSynced) : table[r] # 0
    BY <2>1 DEF CInv, Overlapped
  <2>3. Shares(rec, source, table, risk')
    BY <1>10, <1>11, <2>2 DEF Shares
  <2>4. ASSUME NEW k \in Active PROVE Shares(load'[k], source, table, risk')
    <3>1. Shares(load[k], source, table, risk)
      BY <2>1 DEF CInv, Overlapped
    <3>2. Shares(load[k], source, table, risk')
      BY <1>10, <3>1 DEF Shares
    <3> QED
      BY <1>3, <1>4, <3>2
  <2> QED
    BY <1>3, <1>5, <1>10, <2>2, <2>3, <2>4, SMTT(30)
<1> QED
  BY <1>9, <1>12, <1>13, <1>14

(* The starts of both kinds of load.                                       *)
LEMMA StartKeeps ==
  ASSUME CInv, NEW l \in Load,
         (l \in EtlLoad /\ Start(l)) \/ (l \in BatchLoad /\ BatchStart(l))
  PROVE  Structure' /\ Undisturbed' /\ Overlapped' /\ CheckpointsHold'
<1> DEFINE at == IF settings.mode = "diff" THEN "keys" ELSE "started"
           since == IF settings.mode = "incremental" THEN lastSynced ELSE 0
           bsince == IF settings.mode = "incremental" THEN batchSynced ELSE 0
           rec == [Idle EXCEPT !.at = at, !.mode = settings.mode,
                           !.skip = settings.skip, !.orphans = settings.orphans,
                           !.size = settings.size, !.since = since]
           brec == [Idle EXCEPT !.at = "started", !.mode = settings.mode,
                           !.orphans = settings.orphans, !.size = settings.size,
                           !.since = bsince]
<1>1. /\ settings.mode \in Mode /\ settings.skip \in BOOLEAN
      /\ settings.orphans \in BOOLEAN /\ settings.size \in Sizes
  BY DEF CInv, IInv, TypeOK, Settings
<1>2. at \in At /\ "started" \in At /\ since \in Nat /\ bsince \in Nat
  BY DEF CInv, IInv, TypeOK, At
<1>3. rec \in LoadRec /\ brec \in LoadRec
  <2> HIDE DEF at, since, bsince
  <2>1. rec \in LoadRec
    BY <1>1, <1>2, IdleType DEF LoadRec
  <2>2. brec \in LoadRec
    BY <1>1, <1>2, IdleType DEF LoadRec
  <2> QED
    BY <2>1, <2>2
<1>4. /\ rec.at = at /\ rec.newest = 0 /\ rec.lost = {} /\ rec.read = Nothing
      /\ rec.mode = settings.mode /\ rec.since = since
      /\ brec.at = "started" /\ brec.newest = 0 /\ brec.lost = {} /\ brec.read = Nothing
      /\ brec.mode = settings.mode /\ brec.since = bsince
  BY DEF Idle, Nothing
<1>5. l \notin EtlLoad \/ l \notin BatchLoad
  BY DbLoadAssumption
<1>6. CASE l \in EtlLoad /\ Start(l)
  <2>1. /\ Begin(l, rec) /\ risk' = risk \cup Overlapping
        /\ settings.mode = "diff" => made
        /\ UNCHANGED <<source, clock, table, made, lastSynced, batchSynced>>
    BY <1>6 DEF Start
  <2>2. /\ rec.at \in {"started", "keys"} /\ (rec.at = "keys" => rec.mode = "diff")
        /\ (rec.since # 0 => rec.mode = "incremental")
        /\ rec.since \in {0, lastSynced, batchSynced}
    BY <1>4
  <2> HIDE DEF rec
  <2> QED
    BY <1>3, <1>4, <1>5, <1>6, <2>1, <2>2, BeginKeeps
<1>7. CASE l \in BatchLoad /\ BatchStart(l)
  <2>1. /\ Begin(l, brec) /\ risk' = risk \cup Overlapping
        /\ settings.mode = "diff" => made
        /\ UNCHANGED <<source, clock, table, made, lastSynced, batchSynced>>
        /\ BatchLoad \cap Active = {}
    BY <1>7 DEF BatchStart, Active
  <2>2. /\ brec.at \in {"started", "keys"} /\ (brec.at = "keys" => brec.mode = "diff")
        /\ (brec.since # 0 => brec.mode = "incremental")
        /\ brec.since \in {0, lastSynced, batchSynced}
    BY <1>4
  <2> HIDE DEF brec
  <2> QED
    BY <1>3, <1>4, <2>1, <2>2, BeginKeeps
<1> QED
  BY <1>6, <1>7

-----------------------------------------------------------------------------
(* Every step keeps what the loads know.                                   *)
LEMMA NextKeeps ==
  ASSUME CInv, [Next]_vars
  PROVE  Structure' /\ Undisturbed' /\ Overlapped' /\ CheckpointsHold'
<1>1. CASE UNCHANGED vars
  <2>1. Active' = Active
    BY <1>1 DEF vars, Active
  <2>2. Structure'
    BY <1>1, <2>1 DEF vars, CInv, Structure, Shapes, Marked, OneBatch, MadeFirst, Seen, Noted
  <2>3. Undisturbed' /\ Overlapped' /\ CheckpointsHold'
    BY <1>1, <2>1 DEF vars, CInv, Undisturbed, Overlapped, CheckpointsHold, Fresh
  <2> QED
    BY <2>2, <2>3
<1>2. ASSUME NEW r \in Row, SourceWrite(r) \/ SourceDelete(r)
      PROVE  Structure' /\ Undisturbed' /\ Overlapped' /\ CheckpointsHold'
  BY <1>2, SourceKeeps
<1>3. CASE Configure
  BY <1>3, ConfigureKeeps
<1>4. ASSUME NEW l \in EtlLoad, EtlStep(l)
      PROVE  Structure' /\ Undisturbed' /\ Overlapped' /\ CheckpointsHold'
  <2>1. l \in Load
    BY DEF Load
  <2>2. CASE Start(l)
    BY <2>1, <2>2, StartKeeps
  <2>3. CASE Extract(l) \/ Prepare(l) \/ LoadBatch(l)
    BY <2>3, ExtractKeeps, PrepareKeeps, LoadBatchKeeps
  <2>4. CASE Cancel(l) \/ Finish(l)
    BY <2>1, <2>4, EndKeeps, FinishKeeps
  <2> QED
    BY <1>4, <2>2, <2>3, <2>4 DEF EtlStep
<1>5. ASSUME NEW b \in BatchLoad, BatchStep(b)
      PROVE  Structure' /\ Undisturbed' /\ Overlapped' /\ CheckpointsHold'
  <2>1. b \in Load
    BY DEF Load
  <2>2. CASE BatchStart(b)
    BY <2>1, <2>2, StartKeeps
  <2>3. CASE Truncate(b) \/ BatchExtract(b) \/ BatchLoadRows(b)
    BY <2>3, TruncateKeeps, BatchExtractKeeps, BatchLoadKeeps
  <2>4. CASE BatchMark(b) \/ BatchMarkTable(b)
    BY <2>4, BatchMarkKeeps, BatchMarkTableKeeps
  <2> QED
    BY <1>5, <2>2, <2>3, <2>4 DEF BatchStep
<1>6. ASSUME NEW l \in Load, DiffStep(l) \/ Fail(l)
      PROVE  Structure' /\ Undisturbed' /\ Overlapped' /\ CheckpointsHold'
  BY <1>6, KeysKeep, CopyKeeps, DeleteKeeps, EndKeeps DEF DiffStep
<1> QED
  BY <1>1, <1>2, <1>3, <1>4, <1>5, <1>6 DEF Next

(* No load runs at first, and no checkpoint vouches for any row.           *)
LEMMA InitKeeps == Init => Structure /\ Undisturbed /\ Overlapped /\ CheckpointsHold
<1> SUFFICES ASSUME Init PROVE Structure /\ Undisturbed /\ Overlapped /\ CheckpointsHold
  OBVIOUS
<1>1. \A l \in Load : load[l] = Idle
  BY DEF Init
<1>2. Active = {}
  BY <1>1, IdleShape DEF Active
<1>3. clock \in Version /\ Stamp[clock] \in Nat /\ source \in [Row -> Version]
  BY Bounds, Stamps DEF Init
<1>4. Structure
  <2>1. Shapes
    BY <1>1, IdleShape DEF Shapes
  <2>2. Marked /\ OneBatch /\ Noted /\ MadeFirst
    BY <1>1, <1>2, IdleShape DEF Marked, OneBatch, Noted, MadeFirst, Init, Nothing
  <2>3. Seen
    <3>1. \A l \in Load : ReadBefore(load[l], clock)
      BY <1>1, <1>3, IdleShape
    <3>2. lastSynced <= Stamp[clock] /\ batchSynced <= Stamp[clock] /\ \A r \in Row : source[r] <= clock
      BY <1>3 DEF Init
    <3> QED
      BY <3>1, <3>2 DEF Seen
  <2> QED
    BY <2>1, <2>2, <2>3 DEF Structure
<1>5. Vouched(source, risk, lastSynced, batchSynced) = {}
  BY <1>3, PassedIs DEF Vouched, Init
<1> QED
  BY <1>2, <1>4, <1>5 DEF Undisturbed, Overlapped, CheckpointsHold

(* The inductive invariant, with the checkpoints.                          *)
THEOREM CheckpointInvariance == Spec => []CInv
<1>1. Init => Structure /\ Undisturbed /\ Overlapped /\ CheckpointsHold
  BY InitKeeps
<1>2. CInv /\ [Next]_vars => Structure' /\ Undisturbed' /\ Overlapped' /\ CheckpointsHold'
  BY NextKeeps
<1>3. IInv /\ Structure /\ Undisturbed /\ Overlapped /\ CheckpointsHold <=> CInv
  BY DEF CInv
<1> QED
  BY Invariance, <1>1, <1>2, <1>3, PTL DEF Spec

(* CheckpointFresh: as long as nothing has happened that may hurt, a row   *)
(* of the source not newer than last_synced_at of the table or of its      *)
(* batch is in the target as it is at the source.                          *)
THEOREM CheckpointsAreFresh == Spec => []CheckpointFresh
<1>1. CInv => CheckpointFresh
  BY DEF CInv, CheckpointFresh, CheckpointsHold, Vouched, Passed, UpTo
<1> QED
  BY <1>1, CheckpointInvariance, PTL

(* TiesReadAgain: after writes that share a stamp with one that was read,  *)
(* this holds of the rows older than the checkpoint.                       *)
THEOREM TiesAreReadAgain == Spec => []TiesReadAgain
<1>1. CInv => TiesReadAgain
  <2> SUFFICES ASSUME CInv, risk \subseteq {"tie"},
                      NEW r \in Older(lastSynced) \cup Older(batchSynced)
               PROVE  Fresh(r)
    BY DEF TiesReadAgain
  <2>1. r \in RowsOf(source) /\ Stamp[source[r]] \in Nat
    BY Stamps DEF CInv, IInv, TypeOK, Older, RowsOf
  <2>2. lastSynced \in Nat /\ batchSynced \in Nat
    BY DEF CInv, IInv, TypeOK
  <2>3. r \in Vouched(source, risk, lastSynced, batchSynced)
    BY <2>1, <2>2 DEF Vouched, Passed, Older
  <2> QED
    BY <2>3 DEF CInv, CheckpointsHold
<1> QED
  BY <1>1, CheckpointInvariance, PTL

(* OverlapKeepsRows: loads of one table that overlap lose no row that a    *)
(* checkpoint vouches for, though it may be an older version.              *)
THEOREM OverlapsKeepRows == Spec => []OverlapKeepsRows
<1>1. CInv => OverlapKeepsRows
  <2> SUFFICES ASSUME CInv, risk \subseteq {"overlap"},
                      NEW r \in UpTo(lastSynced) \cup UpTo(batchSynced)
               PROVE  table[r] # 0
    BY DEF OverlapKeepsRows
  <2>1. r \in Vouched(source, risk, lastSynced, batchSynced)
    BY DEF Vouched, Passed, UpTo
  <2> QED
    BY <2>1 DEF CInv, Overlapped
<1> QED
  BY <1>1, CheckpointInvariance, PTL

(* FullReplaces: a full load that nothing disturbed leaves the rows it     *)
(* read and no others.                                                     *)
THEOREM FullLoadsReplace == Spec => FullReplaces
<1> DEFINE Replaced(l) ==
      /\ load[l].mode = "full" /\ load[l].at = "loading" /\ load[l].alone
      /\ load[l].how = "copy" \/ l \in BatchLoad
      /\ load[l].left = {} /\ load[l].lost = {}
      => table = load[l].read
<1>1. CInv => \A l \in Load : Replaced(l)
  <2> SUFFICES ASSUME CInv, NEW l \in Load,
                      load[l].mode = "full", load[l].at = "loading", load[l].alone,
                      load[l].how = "copy" \/ l \in BatchLoad,
                      load[l].left = {}, load[l].lost = {}
               PROVE  table = load[l].read
    OBVIOUS
  <2> DEFINE d == load[l]
  <2>1. d \in LoadRec /\ table \in [Row -> Version] /\ l \in Active
    BY DEF CInv, IInv, TypeOK, LoadRec, Active
  <2>2. \A r \in Row : table[r] \in {0, d.read[r]}
    BY <2>1 DEF CInv, Undisturbed, Own, Replaces
  <2>3. \A r \in RowsOf(d.read) : table[r] = d.read[r]
    BY DEF CInv, IInv, LoadedStays
  <2>4. \A r \in Row : table[r] = d.read[r]
    BY <2>2, <2>3 DEF RowsOf
  <2>5. d.read \in [Row -> Version]
    BY <2>1 DEF LoadRec
  <2> QED
    BY <2>1, <2>4, <2>5
<1>2. CInv /\ [Next]_vars =>
        [\A l \in Load :
           /\ load[l].mode = "full" /\ load[l].at = "loading" /\ load[l].alone
           /\ load[l].how = "copy" \/ l \in BatchLoad
           /\ load[l].left = {} /\ load[l].lost = {}
           /\ load'[l].at # "loading"
           => table = load[l].read]_vars
  BY <1>1
<1> QED
  BY <1>2, CheckpointInvariance, PTL DEF Spec, FullReplaces

(* DiffConverges: a diff load that nothing disturbed leaves the keys of a  *)
(* source that did not change.                                             *)
THEOREM DiffsConverge == Spec => DiffConverges
<1>1. ASSUME CInv, NEW l \in Load, DeleteOrphans(l), load[l].alone, load[l].read = source
      PROVE  /\ RowsOf(source) \subseteq RowsOf(table')
             /\ load[l].orphans => RowsOf(table') = RowsOf(source)
  <2> DEFINE d == load[l]
  <2>1. l \in Active /\ d.at = "copying" /\ d.left = {} /\ table' = Onto(table, Nothing, d.gone)
    BY <1>1 DEF DeleteOrphans, Active
  <2>2. Compares(d, source, table)
    BY <1>1, <2>1 DEF CInv, Undisturbed, Own
  <2>3. d.gone \cap RowsOf(source) = {}
    BY <1>1, <2>1 DEF CInv, Structure, Shapes, Shape
  <2>4. \A r \in Row : table'[r] = IF r \in d.gone THEN 0 ELSE table[r]
    BY <2>1 DEF Onto, Nothing
  <2>5. \A r \in RowsOf(source) : table[r] # 0 /\ r \in Row
    BY <1>1, <2>1, <2>2 DEF Compares, RowsOf
  <2>6. d.orphans => RowsOf(table) \subseteq RowsOf(source) \cup d.gone
    BY <1>1, <2>1, <2>2 DEF Compares
  <2>7. RowsOf(source) \subseteq RowsOf(table')
    BY <2>3, <2>4, <2>5 DEF RowsOf
  <2>8. RowsOf(table') \subseteq RowsOf(table) \ d.gone
    BY <2>4 DEF RowsOf
  <2> QED
    BY <2>6, <2>7, <2>8
<1>2. CInv /\ [Next]_vars =>
        [\A l \in Load :
           DeleteOrphans(l) /\ load[l].alone /\ load[l].read = source =>
             /\ RowsOf(source) \subseteq RowsOf(table')
             /\ load[l].orphans => RowsOf(table') = RowsOf(source)]_vars
  BY <1>1
<1> QED
  BY <1>2, CheckpointInvariance, PTL DEF Spec, DiffConverges
=============================================================================
