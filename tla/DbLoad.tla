------------------------------- MODULE DbLoad -------------------------------
(***************************************************************************)
(* One row of etl_tables with a database source: the source table, the     *)
(* target table, the row's settings and checkpoint, the loads that jobs    *)
(* run (run_db_load) and those a batch job runs (run_db_batch_job).        *)
(*                                                                         *)
(* A source row is a key and a version.  Versions count the writes at the  *)
(* source; the incremental column holds a time stamp, which writes in a    *)
(* row may share.  What a load commits in one transaction is one step.     *)
(***************************************************************************)
EXTENDS Naturals, FiniteSets, SequencesExt

CONSTANTS
  Row,          \* the keys
  Rejected,     \* versions that the target refuses (a value it cannot hold)
  EtlLoad,      \* threads that run a job of this row
  BatchLoad,    \* threads that run the batch job of this row, one at a time
  Stamp,        \* the incremental column of each version, 0 for no row at all
  Sizes,        \* batch_size the row may ask for
  Limits,       \* max_rows_per_load of the installation, 0 for none
  SameErrors,   \* equal errors in a row after which the row fallback gives up
  MaxVersion,   \* bound: writes at the source
  MaxStart,     \* bound: loads started
  MaxChange     \* bound: changes of the settings

Load == EtlLoad \cup BatchLoad
Version == 0..MaxVersion

ASSUME DbLoadAssumption ==
  /\ IsFiniteSet(Row) /\ Rejected \subseteq Nat \ {0}
  /\ EtlLoad \cap BatchLoad = {}
  /\ Stamp \in [Version -> Nat]
  /\ \A v \in Version : Stamp[v] = 0 <=> v = 0
  /\ \A v, w \in Version : v <= w => Stamp[v] <= Stamp[w]
  /\ Sizes \subseteq Nat \ {0}
  /\ Limits \subseteq Nat
  /\ SameErrors \in Nat \ {0}
  /\ {MaxVersion, MaxStart, MaxChange} \subseteq Nat

Mode == {"full", "incremental", "diff"}

VARIABLES
  source,       \* version of each row at the source, 0 for no row
  clock,        \* writes at the source so far
  table,        \* version of each row in the target, 0 for no row
  made,         \* the target table exists
  settings,     \* sync_mode, on_row_error, diff_delete_orphans, batch_size
  lastSynced,   \* etl_tables.last_synced_at, 0 for NULL
  batchSynced,  \* batch_jobs.last_synced_at
  limit,        \* max_rows_per_load
  load,         \* the variables of each load
  started, changes,
  risk          \* history: what has happened since the target was last known to be whole

vars == <<source, clock, table, made, settings, lastSynced, batchSynced, limit,
          load, started, changes, risk>>

Risk == {"tie",      \* a write got the stamp of one that a load had read
         "passed",   \* a load asked for later stamps only, after a tie
         "overlap",  \* two loads of the row at once
         "emptied",  \* a load dropped or emptied the target
         "skip",     \* rows were skipped, or undone with a skipped one
         "limit",    \* a load stopped at max_rows_per_load
         "cut"}      \* a batch was cancelled between two reads

Settings == [mode : Mode, skip : BOOLEAN, orphans : BOOLEAN, size : Sizes]

Idle == [at |-> "idle", mode |-> "full", how |-> "none", skip |-> FALSE,
         orphans |-> FALSE, size |-> 0, since |-> 0, read |-> [r \in Row |-> 0],
         left |-> {}, gone |-> {}, newest |-> 0, count |-> 0, failed |-> {},
         lost |-> {}, alone |-> TRUE]

At == {"idle", "started", "truncated", "opened", "loading", "keys", "compare",
       "copying", "marking"}

TypeOK ==
  /\ source \in [Row -> Version]
  /\ clock \in Version
  /\ table \in [Row -> Version]
  /\ made \in BOOLEAN
  /\ settings \in Settings
  /\ lastSynced \in Nat /\ batchSynced \in Nat
  /\ limit \in Limits
  /\ load \in [Load -> [at : At, mode : Mode, how : {"none", "copy", "upsert"},
                        skip : BOOLEAN, orphans : BOOLEAN, size : Sizes \cup {0},
                        since : Nat, read : [Row -> Version], left : SUBSET Row,
                        gone : SUBSET Row, newest : Nat, count : Nat,
                        failed : SUBSET Row, lost : SUBSET Row, alone : BOOLEAN]]
  /\ started \in 0..MaxStart
  /\ changes \in 0..MaxChange
  /\ risk \subseteq Risk

(* A registered row without a target table; sync_mode 'diff' would only     *)
(* fail as long as there is none.                                          *)
Init ==
  /\ source = [r \in Row |-> 0] /\ clock = 0
  /\ table = [r \in Row |-> 0] /\ made = FALSE
  /\ settings \in {s \in Settings : s.mode # "diff"}
  /\ lastSynced = 0 /\ batchSynced = 0
  /\ limit \in Limits
  /\ load = [l \in Load |-> Idle]
  /\ started = 0 /\ changes = 0 /\ risk = {}

-----------------------------------------------------------------------------
Active == {l \in Load : load[l].at # "idle"}
RowsOf(f) == {r \in Row : f[r] # 0}
Newest(f, S) == Max({Stamp[f[r]] : r \in S} \cup {0})
Onto(f, g, S) == [r \in Row |-> IF r \in S THEN g[r] ELSE f[r]]
Nothing == [r \in Row |-> 0]
Refused(f, S) == {r \in S : f[r] \in Rejected}

Set(l, rec) == load' = [load EXCEPT ![l] = rec]
End(l) == Set(l, Idle)

(* The stamps that the loads have read, recorded or passed over so far.    *)
ReadUpTo ==
  Max({lastSynced, batchSynced}
      \cup UNION {{load[l].since, Newest(load[l].read, Row)} : l \in Active})

-----------------------------------------------------------------------------
(* The source and the settings.                                            *)

SourceWrite(r) ==
  /\ clock < MaxVersion
  /\ clock' = clock + 1
  /\ source' = [source EXCEPT ![r] = clock']
  /\ risk' = risk \cup (IF Stamp[clock'] <= ReadUpTo THEN {"tie"} ELSE {})
  /\ UNCHANGED <<table, made, settings, lastSynced, batchSynced, limit, load, started, changes>>

SourceDelete(r) ==
  /\ source[r] # 0
  /\ clock < MaxVersion
  /\ clock' = clock + 1
  /\ source' = [source EXCEPT ![r] = 0]
  /\ UNCHANGED <<table, made, settings, lastSynced, batchSynced, limit, load,
                 started, changes, risk>>

(* update_etl_table: another sync_mode, and perhaps the checkpoint back to  *)
(* NULL.                                                                    *)
Configure ==
  /\ changes < MaxChange
  /\ changes' = changes + 1
  /\ \E m \in Mode : settings' = [settings EXCEPT !.mode = m]
  /\ lastSynced' \in {lastSynced, 0}
  /\ UNCHANGED <<source, clock, table, made, batchSynced, limit, load, started, risk>>

-----------------------------------------------------------------------------
(* Both kinds of load.                                                     *)

(* A load that starts beside another one disturbs it and is disturbed.     *)
Begin(l, rec) ==
  /\ load[l].at = "idle" /\ started < MaxStart
  /\ started' = started + 1
  /\ load' = [k \in Load |->
       IF k = l THEN [rec EXCEPT !.alone = (Active = {})]
       ELSE IF k \in Active THEN [load[k] EXCEPT !.alone = FALSE]
       ELSE load[k]]

Overlapping == IF Active = {} THEN {} ELSE {"overlap"}

(* The rows the SELECT returns: the cursor sees the source as it is now.   *)
Select(S) == [r \in Row |-> IF r \in S THEN source[r] ELSE 0]

(* A load that has read all the rows of the source and has written all of  *)
(* them, undisturbed, makes the target whole again.                        *)
Whole(l) ==
  LET d == load[l] IN
  /\ d.alone /\ d.left = {} /\ d.lost = {} /\ d.failed = {}
  /\ d.mode = "full" \/ d.since = 0
RiskAfter(l) ==
  IF Whole(l) THEN risk \cap {"tie", "passed"}
  ELSE risk \cup (IF load[l].left # {} THEN {"limit"} ELSE {})

(* Mutant of Fail: the checkpoint is written on the way out as well.       *)
FailAndMark(l) ==
  /\ l \in Active
  /\ lastSynced' = IF load[l].newest # 0 THEN load[l].newest ELSE lastSynced
  /\ End(l)
  /\ UNCHANGED <<source, clock, table, made, settings, batchSynced, limit,
                 started, changes, risk>>

(* An exception, or the end of the process: the transaction is rolled      *)
(* back, and nothing else happens to the row and the table.                *)
Fail(l) ==
  /\ l \in Active
  /\ End(l)
  /\ UNCHANGED <<source, clock, table, made, settings, lastSynced, batchSynced, limit,
                 started, changes, risk>>

-----------------------------------------------------------------------------
(* run_db_load.                                                            *)

(* The row of etl_tables, read once.                                       *)
Start(l) ==
  /\ settings.mode = "diff" => made
  /\ Begin(l, [Idle EXCEPT !.at = IF settings.mode = "diff" THEN "keys" ELSE "started",
                           !.mode = settings.mode, !.skip = settings.skip,
                           !.orphans = settings.orphans, !.size = settings.size,
                           !.since = IF settings.mode = "incremental" THEN lastSynced ELSE 0])
  /\ risk' = risk \cup Overlapping
  /\ UNCHANGED <<source, clock, table, made, settings, lastSynced, batchSynced, limit, changes>>

(* An incremental load asks for the stamps after its checkpoint.           *)
Asked(since) == {r \in RowsOf(source) : since = 0 \/ Stamp[source[r]] > since}

Extract(l) ==
  LET d == load[l]
  IN /\ d.at = "started"
     /\ Set(l, [d EXCEPT !.at = "opened", !.read = Select(Asked(d.since)),
                         !.left = Asked(d.since)])
     /\ risk' = risk \cup (IF d.since # 0 /\ "tie" \in risk THEN {"passed"} ELSE {})
     /\ UNCHANGED <<source, clock, table, made, settings, lastSynced, batchSynced, limit,
                    started, changes>>

(* Mutant of TableFor: DROP TABLE IF EXISTS is missing.                    *)
TableKept(full) == table

(* DROP and CREATE, or CREATE if the table is not there.                   *)
TableFor(full) == IF full THEN Nothing ELSE table

(* Mutant of How: the statement goes by the sync_mode of the row.          *)
HowByMode(mode) == mode

How(mode) == IF mode = "full" THEN "copy" ELSE "upsert"

(* With the first rows in hand sync_mode is read again: 'full' replaces    *)
(* the table, anything else leaves it and makes sure that it is there.     *)
Prepare(l) ==
  LET d == load[l]
      full == settings.mode = "full"
      mode == IF d.mode = "full" /\ ~full THEN "incremental" ELSE d.mode
  IN /\ d.at = "opened" /\ d.left # {}
     /\ Set(l, [d EXCEPT !.at = "loading", !.how = How(mode)])
     /\ made' = TRUE
     /\ table' = TableFor(full)
     /\ risk' = risk \cup (IF full THEN {"emptied"} ELSE {})
     /\ UNCHANGED <<source, clock, settings, lastSynced, batchSynced, limit, started, changes>>

(* fetchmany: the next rows, in the order the source likes; of these only  *)
(* as many as max_rows_per_load leaves room for.                           *)
Fetch(l) == kSubset(Min({load[l].size, Cardinality(load[l].left)}), load[l].left)
Room(l, B) ==
  IF limit = 0 THEN {B}
  ELSE kSubset(Min({Cardinality(B), limit - load[l].count}), B)
AtLimit(l) == limit # 0 /\ load[l].count >= limit

(* _row_fallback: row after row in one transaction; an error rolls it      *)
(* back, with the rows before it, and a series of errors ends it.          *)
GivesUp(bad, i) == i >= SameErrors /\ (i - SameErrors + 1)..i \subseteq bad
Tried(seq, bad) ==
  Min({Len(seq)} \cup {i \in 1..Len(seq) : SameErrors > 1 /\ GivesUp(bad, i)})
Fallback(seq, f) ==
  LET bad == {i \in 1..Len(seq) : f[seq[i]] \in Rejected}
      tried == 1..Tried(seq, bad)
  IN [kept    |-> {seq[i] : i \in {k \in tried : \A j \in bad \cap tried : j < k}},
      counted |-> Cardinality(tried \ bad),
      failed  |-> {seq[i] : i \in tried \cap bad}]

Taken(d, F, B) ==
  [d EXCEPT !.left = @ \ F, !.lost = @ \cup (F \ B),
            !.newest = Max({@, Newest(d.read, B)})]
Cut(F, B) == IF F # B THEN {"limit"} ELSE {}

(* The rows B of the fetched F in one transaction.                         *)
LoadAll(l, F, B) ==
  LET d == load[l]
  IN /\ Refused(d.read, B) = {}
     /\ d.how = "copy" => B \cap RowsOf(table) = {}
     /\ table' = Onto(table, d.read, B)
     /\ Set(l, [Taken(d, F, B) EXCEPT !.count = @ + Cardinality(B)])
     /\ risk' = risk \cup Cut(F, B)

(* One of them is refused, and the load skips.                             *)
LoadEach(l, F, B) ==
  LET d == load[l]
  IN /\ Refused(d.read, B) # {} /\ d.how = "upsert" /\ d.skip
     /\ \E seq \in SetToSeqs(B) :
          LET out == Fallback(seq, d.read)
          IN /\ table' = Onto(table, d.read, out.kept)
             /\ Set(l, [Taken(d, F, B) EXCEPT !.count = @ + out.counted,
                                              !.failed = @ \cup out.failed,
                                              !.lost = @ \cup (B \ out.kept)])
     /\ risk' = risk \cup Cut(F, B) \cup {"skip"}

(* A batch, committed.  A refused row, or a key that is there already,     *)
(* ends a load that does not skip: see Fail.                               *)
LoadBatch(l) ==
  /\ load[l].at = "loading" /\ load[l].left # {} /\ ~AtLimit(l)
  /\ \E F \in Fetch(l) : \E B \in Room(l, F) : LoadAll(l, F, B) \/ LoadEach(l, F, B)
  /\ UNCHANGED <<source, clock, made, settings, lastSynced, batchSynced, limit,
                 started, changes>>

(* Mutant of Cancel: the loop is left and the checkpoint written.          *)
CancelAndMark(l) ==
  /\ load[l].at \in {"loading", "copying"} /\ load[l].left # {} /\ l \in EtlLoad
  /\ lastSynced' = IF load[l].newest # 0 THEN load[l].newest ELSE lastSynced
  /\ End(l)
  /\ UNCHANGED <<source, clock, table, made, settings, batchSynced, limit,
                 started, changes, risk>>

(* is_job_cancelled, before each batch.                                    *)
Cancel(l) ==
  /\ load[l].at \in {"loading", "copying"} /\ load[l].left # {} /\ l \in EtlLoad
  /\ End(l)
  /\ UNCHANGED <<source, clock, table, made, settings, lastSynced, batchSynced, limit,
                 started, changes, risk>>

(* The end of the loop: update_last_synced_at, if any row had a stamp.     *)
Finish(l) ==
  LET d == load[l]
  IN /\ d.at \in {"opened", "loading"} /\ l \in EtlLoad
     /\ d.left = {} \/ AtLimit(l)
     /\ lastSynced' = IF d.newest # 0 THEN d.newest ELSE lastSynced
     /\ risk' = RiskAfter(l)
     /\ End(l)
     /\ UNCHANGED <<source, clock, table, made, settings, batchSynced, limit, started, changes>>

-----------------------------------------------------------------------------
(* _run_diff_sync.                                                         *)

ReadSourceKeys(l) ==
  /\ load[l].at = "keys"
  /\ Set(l, [load[l] EXCEPT !.at = "compare", !.read = source])
  /\ UNCHANGED <<source, clock, table, made, settings, lastSynced, batchSynced, limit,
                 started, changes, risk>>

(* Mutant of Orphans: the difference the wrong way round.                  *)
OrphansSwapped(d) == IF d.orphans THEN RowsOf(d.read) \ RowsOf(table) ELSE {}

Orphans(d) == IF d.orphans THEN RowsOf(table) \ RowsOf(d.read) ELSE {}

Compare(l) ==
  LET d == load[l]
  IN /\ d.at = "compare"
     /\ Set(l, [d EXCEPT !.at = "copying",
                         !.left = RowsOf(d.read) \ RowsOf(table),
                         !.gone = Orphans(d)])
     /\ UNCHANGED <<source, clock, table, made, settings, lastSynced, batchSynced, limit,
                    started, changes, risk>>

(* The new keys are selected again, so many at a time (the code has a      *)
(* constant for it), and the rows still there are inserted.                *)
CopyNew(l) ==
  LET d == load[l]
  IN /\ d.at = "copying" /\ d.left # {}
     /\ \E B \in kSubset(Min({d.size, Cardinality(d.left)}), d.left) :
          /\ Refused(source, B) = {}
          /\ B \cap RowsOf(source) \cap RowsOf(table) = {}
          /\ table' = Onto(table, source, B \cap RowsOf(source))
          /\ Set(l, [d EXCEPT !.left = @ \ B,
                              !.count = @ + Cardinality(B \cap RowsOf(source))])
     /\ UNCHANGED <<source, clock, made, settings, lastSynced, batchSynced, limit,
                    started, changes, risk>>

DeleteOrphans(l) ==
  LET d == load[l]
  IN /\ d.at = "copying" /\ d.left = {}
     /\ table' = Onto(table, Nothing, d.gone)
     /\ risk' = risk \cup (IF d.gone # {} /\ ~d.alone THEN {"emptied"} ELSE {})
     /\ End(l)
     /\ UNCHANGED <<source, clock, made, settings, lastSynced, batchSynced, limit,
                    started, changes>>

-----------------------------------------------------------------------------
(* run_db_batch_job.                                                       *)

BatchStart(b) ==
  /\ \A c \in BatchLoad : load[c].at = "idle"
  /\ settings.mode = "diff" => made
  /\ Begin(b, [Idle EXCEPT !.at = "started", !.mode = settings.mode,
                           !.orphans = settings.orphans, !.size = settings.size,
                           !.since = IF settings.mode = "incremental" THEN batchSynced ELSE 0])
  /\ risk' = risk \cup Overlapping
  /\ UNCHANGED <<source, clock, table, made, settings, lastSynced, batchSynced, limit, changes>>

(* Full: the table is emptied, and that committed, before anything is read. *)
Truncate(b) ==
  LET d == load[b]
      full == d.mode = "full" /\ made
  IN /\ d.at = "started"
     /\ Set(b, [d EXCEPT !.at = IF d.mode = "diff" THEN "keys" ELSE "truncated"])
     /\ table' = IF full THEN Nothing ELSE table
     /\ risk' = risk \cup (IF full THEN {"emptied"} ELSE {})
     /\ UNCHANGED <<source, clock, made, settings, lastSynced, batchSynced, limit,
                    started, changes>>

(* Mutant of AskedAgain: the comparison of run_db_load.                    *)
AskedLater(since) == {r \in RowsOf(source) : since = 0 \/ Stamp[source[r]] > since}

(* An incremental batch asks for its checkpoint's stamp as well.           *)
AskedAgain(since) == {r \in RowsOf(source) : Stamp[source[r]] >= since}

BatchExtract(b) ==
  LET d == load[b]
  IN /\ d.at = "truncated"
     /\ Set(b, [d EXCEPT !.at = "loading", !.how = "upsert",
                         !.read = Select(AskedAgain(d.since)), !.left = AskedAgain(d.since)])
     /\ UNCHANGED <<source, clock, table, made, settings, lastSynced, batchSynced, limit,
                    started, changes, risk>>

(* Mutant of BatchUpsert: the UPDATE of the rows that are there is missing. *)
BatchInsert(f, B) == Onto(table, f, B \ RowsOf(table))

(* _batch_upsert: INSERT ... DO NOTHING, then UPDATE the others.           *)
BatchUpsert(f, B) == Onto(table, f, B)

BatchLoadRows(b) ==
  LET d == load[b]
  IN /\ d.at = "loading" /\ d.left # {}
     /\ \E B \in kSubset(Min({d.size, Cardinality(d.left)}), d.left) :
          /\ Refused(d.read, B) = {}
          /\ table' = BatchUpsert(d.read, B)
          /\ Set(b, [d EXCEPT !.left = @ \ B, !.count = @ + Cardinality(B),
                              !.newest = Max({@, Newest(d.read, B)})])
     /\ made' = TRUE
     /\ UNCHANGED <<source, clock, settings, lastSynced, batchSynced, limit,
                    started, changes, risk>>

(* The loop is over, or left at a cancellation: both record the newest     *)
(* stamp that was loaded.                                                  *)
BatchMark(b) ==
  LET d == load[b]
  IN /\ d.at = "loading"
     /\ batchSynced' = IF d.newest # 0 THEN d.newest ELSE batchSynced
     /\ risk' = IF d.left # {} THEN risk \cup {"cut"} ELSE RiskAfter(b)
     /\ IF d.newest # 0 THEN Set(b, [d EXCEPT !.at = "marking"]) ELSE End(b)
     /\ UNCHANGED <<source, clock, table, made, settings, lastSynced, limit, started, changes>>

BatchMarkTable(b) ==
  /\ load[b].at = "marking"
  /\ lastSynced' = load[b].newest
  /\ End(b)
  /\ UNCHANGED <<source, clock, table, made, settings, batchSynced, limit, started, changes, risk>>

-----------------------------------------------------------------------------
DiffStep(l) == ReadSourceKeys(l) \/ Compare(l) \/ CopyNew(l) \/ DeleteOrphans(l)
EtlStep(l) ==
  Start(l) \/ Extract(l) \/ Prepare(l) \/ LoadBatch(l) \/ Cancel(l) \/ Finish(l)
BatchStep(b) ==
  \/ BatchStart(b) \/ Truncate(b) \/ BatchExtract(b) \/ BatchLoadRows(b)
  \/ BatchMark(b) \/ BatchMarkTable(b)

Next ==
  \/ \E r \in Row : SourceWrite(r) \/ SourceDelete(r)
  \/ Configure
  \/ \E l \in EtlLoad : EtlStep(l)
  \/ \E b \in BatchLoad : BatchStep(b)
  \/ \E l \in Load : DiffStep(l) \/ Fail(l)

Spec == Init /\ [][Next]_vars

-----------------------------------------------------------------------------
Fresh(r) == table[r] = source[r]
Older(c) == {r \in RowsOf(source) : Stamp[source[r]] < c}
UpTo(c) == {r \in RowsOf(source) : Stamp[source[r]] <= c}

(* What a load that nothing has disturbed has read and not lost is in the  *)
(* target as it was read: nothing it does later takes a committed batch    *)
(* back (run_db_load and run_db_batch_job commit batch by batch).          *)
LoadedStays ==
  \A l \in Load : load[l].alone /\ load[l].at = "loading" =>
    \A r \in RowsOf(load[l].read) \ (load[l].left \cup load[l].lost) :
      table[r] = load[l].read[r]

(* The checkpoints are safe: a row of the source that is not newer than    *)
(* one of them is in the target as it is at the source, so no incremental  *)
(* load has to read it.  Loads that fail or are cancelled, changes of the  *)
(* settings and checkpoints set back do not hurt; what may, is in risk.    *)
CheckpointFresh ==
  risk = {} => \A r \in UpTo(lastSynced) \cup UpTo(batchSynced) : Fresh(r)

(* Rows that share their stamp with one that was read are not lost to      *)
(* batches, which ask for the stamp of the checkpoint again.               *)
TiesReadAgain ==
  risk \subseteq {"tie"} => \A r \in Older(lastSynced) \cup Older(batchSynced) : Fresh(r)

(* Loads of one row that overlap may leave an older version in the target, *)
(* but no row missing.                                                     *)
OverlapKeepsRows ==
  risk \subseteq {"overlap"} =>
    \A r \in UpTo(lastSynced) \cup UpTo(batchSynced) : table[r] # 0

(* A full load that read to the end, undisturbed, leaves the target with   *)
(* the rows it read and no others.                                         *)
FullReplaces ==
  [][\A l \in Load :
       /\ load[l].mode = "full" /\ load[l].at = "loading" /\ load[l].alone
       /\ load[l].how = "copy" \/ l \in BatchLoad
       /\ load[l].left = {} /\ load[l].lost = {}
       /\ load'[l].at # "loading"
       => table = load[l].read]_vars

(* A diff load, undisturbed, over a source that did not change meanwhile,  *)
(* leaves the keys of the source in the target, and no other key if it     *)
(* deletes orphans.                                                        *)
DiffConverges ==
  [][\A l \in Load :
       DeleteOrphans(l) /\ load[l].alone /\ load[l].read = source =>
         /\ RowsOf(source) \subseteq RowsOf(table')
         /\ load[l].orphans => RowsOf(table') = RowsOf(source)]_vars

(* on_row_error = 'skip': of the rows a load has read, those it has        *)
(* recorded as failed are missing, and only those.                         *)
SkipCostsOnlyItsRow ==
  \A l \in Load : load[l].alone /\ load[l].at = "loading" =>
    \A r \in RowsOf(load[l].read) \ load[l].left :
      r \in load[l].failed \/ table[r] = load[l].read[r]
=============================================================================
