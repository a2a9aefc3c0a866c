------------------------------ MODULE TableProofs ------------------------------
(***************************************************************************)
(* Proofs about the tables of the main database, for any number of tables, *)
(* registrations, batches, queued queries and workers.  Three parts of the *)
(* system write tables: the projects' mappings, the ETL, the save workers. *)
(* Each keeps an invariant of its own; of the others it needs to know only *)
(* what they do to tables, which is stated and proved once.  A save that    *)
(* failed or was cancelled leaves no table behind, and one that says it has *)
(* a table has it, until a full load makes another one of its name.         *)
(***************************************************************************)
EXTENDS WorkspaceProofs, WellFoundedInduction

Made == {NotMade, Loaded} \cup {Saved(j) : j \in Job}

TableType ==
  /\ project \in [Project -> Undertaking]
  /\ table \in [Table -> Made]
  /\ master \subseteq Table /\ map \in [Project -> [Table -> Usage]]
  /\ gone \subseteq Table /\ dropped \subseteq Table /\ replaced \subseteq Table

LoadType ==
  /\ conn \in [Conn -> Source] /\ etl \in [Etl -> Registration] /\ batch \in [Batch -> BatchJob]
  /\ load \in [Etl -> {"idle", "fresh", "made", "noted"}]
  /\ registry \in [Table -> Batch \cup {NoBatch}] /\ scheduled \subseteq Batch
  /\ deleting \in {Nothing} \cup ({"etl"} \X Etl \X (SUBSET Batch) \X BOOLEAN) \cup ({"conn"} \X Conn)
  /\ listing \subseteq Batch /\ leaving \subseteq Batch \X (Table \cup {NoTable}) /\ overtaken \subseteq Batch

SaveType == job \in [Job -> Save] /\ worker \in [Worker -> Saver] /\ unsure \subseteq Job

-----------------------------------------------------------------------------
(* The ETL.  A registration that was made has a target; one that is being   *)
(* deleted has lost its table, and while the deletion holds the table's     *)
(* master no project uses it.                                               *)
Dropping(e) == deleting[1] = "etl" /\ deleting[2] = e
Targets ==
  /\ \A e \in Etl : /\ etl[e].at # "new" => etl[e].target \in Table
                    /\ load[e] # "idle" => etl[e].at # "new"
  /\ slow[1] = "load" => slow[2] \in Etl /\ etl[slow[2]].at # "new"
Deleted ==
  \A e \in Etl : Dropping(e) =>
    /\ etl[e].at # "new" /\ etl[e].target \in gone
    /\ apart => etl[e].target \in dropped
    /\ deleting[4] => \A p \in Project : map[p][etl[e].target] = {}

(* A load that has made its table, and a registration that says so or is    *)
(* about to, have it.                                                       *)
Loading(e) == load[e] \in {"fresh", "made"}
Fills(e) == etl[e].at = "there" /\ (etl[e].loaded \/ load[e] = "noted")
Filled ==
  \A e \in Etl :
    /\ Loading(e) => table[etl[e].target] # NotMade \/ etl[e].target \in dropped
    /\ Fills(e) /\ ~Dropping(e) =>
         table[etl[e].target] # NotMade \/ etl[e].target \in dropped \cup unchecked

(* A table that can be given to projects is there, but in a deletion that   *)
(* holds its master and so keeps everybody from giving it.                  *)
MastersExist ==
  /\ \A p \in Project, t \in Table : map[p][t] # {} => t \in master
  /\ \A t \in master \ dropped :
       table[t] = NotMade => \E e \in Etl : Dropping(e) /\ etl[e].target = t /\ deleting[4]

(* What is entered as a target is one batch's; a batch that is gone, or on  *)
(* its way, is entered only if it was overtaken.                            *)
Entries ==
  /\ \A t \in Table, b \in Batch : registry[t] = b =>
       /\ batch[b].at # "new" /\ batch[b].target = t
       /\ b \in overtaken \/ (batch[b].at = "there" /\ ~Leaving(b))
  /\ \A b \in Batch : InHand(b) => batch[b].at # "new" /\ (batch[b].at = "there" \/ b \in overtaken)

LoadInv ==
  /\ TableType /\ LoadType
  /\ Targets /\ Deleted /\ Filled /\ MastersExist /\ Entries

(* Steps that leave the list of targets and the batches alone.              *)
LEMMA EntriesSame ==
  ASSUME Entries, UNCHANGED <<batch, registry, listing, leaving, overtaken>>
  PROVE  Entries'
BY DEF Entries, InHand, Leaving

(* Tables that have been filled stay, or are known to be dropped.           *)
LEMMA FilledKept ==
  ASSUME Filled, Targets, dropped \subseteq dropped', unchecked \subseteq unchecked',
         \A t \in Table : table'[t] = NotMade => table[t] = NotMade \/ t \in dropped',
         \A e \in Etl :
           /\ Loading(e)' => \/ table'[etl'[e].target] # NotMade \/ etl'[e].target \in dropped'
                             \/ Loading(e) /\ etl'[e].target = etl[e].target
           /\ Fills(e)' /\ ~Dropping(e)' =>
                \/ etl'[e].target \in dropped'
                \/ etl'[e].target = etl[e].target /\ (Loading(e) \/ (Fills(e) /\ ~Dropping(e)))
  PROVE  Filled'
<1>1. \A e \in Etl : Loading(e) \/ Fills(e) => etl[e].target \in Table
  BY DEF Targets, Loading, Fills
<1>2. ASSUME NEW e \in Etl, Loading(e)'
      PROVE  table'[etl'[e].target] # NotMade \/ etl'[e].target \in dropped'
  BY <1>1, <1>2 DEF Filled
<1>3. ASSUME NEW e \in Etl, Fills(e)', ~Dropping(e)'
      PROVE  table'[etl'[e].target] # NotMade \/ etl'[e].target \in dropped' \cup unchecked'
  BY <1>1, <1>3 DEF Filled
<1> QED BY <1>2, <1>3 DEF Filled

(* What the others do to the tables, as the ETL sees it.                    *)
TablesKept ==
  /\ TableType'
  /\ gone' = gone /\ dropped \subseteq dropped' /\ master \subseteq master'
  /\ \A t \in Table : table'[t] = NotMade => table[t] = NotMade \/ t \in dropped'
  /\ \A t \in master' \ master : t \in dropped' \/ table'[t] # NotMade
  /\ \A p \in Project, t \in Table :
       map'[p][t] # {} => t \in master' /\ (map[p][t] # {} \/ Free(t))
  /\ unchecked \subseteq unchecked'
  /\ slow' = slow \/ slow'[1] # "load"
  /\ UNCHANGED <<loads, apart>>

LEMMA TablesKeptLoadInv == LoadInv /\ TablesKept => LoadInv'
<1> SUFFICES ASSUME LoadInv, TablesKept PROVE LoadInv'
  OBVIOUS
<1>1. UNCHANGED <<conn, etl, load, batch, registry, scheduled, deleting, listing, leaving, overtaken, apart>>
  BY DEF TablesKept, loads, batches
<1>2. \A e \in Etl : /\ Dropping(e)' <=> Dropping(e)
                     /\ Loading(e)' <=> Loading(e)
                     /\ Fills(e)' <=> Fills(e)
  BY <1>1 DEF Dropping, Loading, Fills
<1>3. LoadType' /\ Entries' /\ TableType'
  BY <1>1, EntriesSame DEF LoadInv, LoadType, TablesKept
<1>4. Targets'
  BY <1>1 DEF LoadInv, Targets, TablesKept
<1>5. Deleted'
  <2> SUFFICES ASSUME NEW e \in Etl, Dropping(e)
               PROVE  /\ etl'[e].at # "new" /\ etl'[e].target \in gone'
                      /\ apart' => etl'[e].target \in dropped'
                      /\ deleting'[4] => \A p \in Project : map'[p][etl'[e].target] = {}
    BY <1>2 DEF Deleted
  <2>1. /\ etl[e].at # "new" /\ etl[e].target \in gone /\ etl[e].target \in Table
        /\ apart => etl[e].target \in dropped
        /\ deleting[4] => \A p \in Project : map[p][etl[e].target] = {}
    BY DEF LoadInv, Deleted, Targets
  <2>2. deleting[4] => ~Free(etl[e].target)
    BY DEF Free, Dropping
  <2> QED BY <1>1, <2>1, <2>2 DEF TablesKept
<1>6. MastersExist'
  <2>1. ASSUME NEW t \in master' \ dropped', table'[t] = NotMade
        PROVE  \E e \in Etl : Dropping(e)' /\ etl'[e].target = t /\ deleting'[4]
    <3>1. t \in master \ dropped /\ t \in Table
      BY <2>1 DEF TablesKept, TableType
    <3>2. table[t] = NotMade
      BY <2>1, <3>1 DEF TablesKept
    <3> QED BY <1>1, <1>2, <3>1, <3>2 DEF LoadInv, MastersExist
  <2> QED BY <2>1 DEF MastersExist, TablesKept
<1>7. Filled'
  BY <1>1, <1>2, FilledKept DEF LoadInv, TablesKept
<1> QED BY <1>3, <1>4, <1>5, <1>6, <1>7 DEF LoadInv

(* A step that leaves tables and loads alone.                               *)
LEMMA UnmovedKept ==
  ASSUME LoadInv, UNCHANGED <<tables, loads, apart>>, unchecked \subseteq unchecked',
         slow' = slow \/ slow'[1] # "load"
  PROVE  TablesKept
<1>1. UNCHANGED <<project, table, master, map, gone, dropped, replaced>>
  BY DEF tables
<1> QED BY <1>1 DEF TablesKept, LoadInv, TableType, MastersExist

(* Mappings.                                                                *)
LEMMA MapKept == LoadInv /\ MapRequest => TablesKept
<1> SUFFICES ASSUME LoadInv, MapRequest PROVE TablesKept
  OBVIOUS
<1>1. /\ UNCHANGED <<loads, apart>> /\ unchecked \subseteq unchecked'
      /\ slow' = slow \/ slow'[1] # "load"
  BY MapFrame, SlowFrame, UnwatchedSlow
<1>2. CASE UNCHANGED data
  BY <1>1, <1>2, UnmovedKept DEF data
<1>3. ASSUME UNCHANGED <<table, master, gone, dropped, replaced>>,
             project' \in [Project -> Undertaking], map' \in [Project -> [Table -> Usage]], References',
             \A p \in Project, t \in Table : map'[p][t] # {} => map[p][t] # {} \/ Free(t)
      PROVE  TablesKept
  BY <1>1, <1>3 DEF TablesKept, LoadInv, TableType, References
<1>4. PICK s \in Signed, p \in Project :
        \/ \E t \in Table : AddMapping(s, p, t) \/ DeleteMapping(s, p, t)
        \/ \E l \in Lists : UpdateProject(s, p, l[1], l[2])
  BY DEF MapRequest
<1>5. map \in [Project -> [Table -> Usage]] /\ project \in [Project -> Undertaking]
  BY DEF LoadInv, TableType
<1>6. ASSUME NEW t \in Table, AddMapping(s, p, t) PROVE TablesKept
  <2>1. CASE UNCHANGED data
    BY <1>2, <2>1
  <2>2. CASE /\ Free(t) /\ map' = [map EXCEPT ![p][t] = {"query", "widget"}]
             /\ UNCHANGED project /\ MapOnly /\ References'
    <3>1. map' \in [Project -> [Table -> Usage]]
      BY <1>5, <2>2 DEF Usage
    <3>2. \A q \in Project, v \in Table : map'[q][v] # {} => map[q][v] # {} \/ Free(v)
      BY <1>5, <2>2
    <3> QED BY <1>3, <1>5, <2>2, <3>1, <3>2 DEF MapOnly
  <2> QED BY <1>6, <2>1, <2>2 DEF AddMapping, Request
<1>7. ASSUME NEW t \in Table, DeleteMapping(s, p, t) PROVE TablesKept
  <2>1. CASE UNCHANGED data
    BY <1>2, <2>1
  <2>2. CASE map' = [map EXCEPT ![p][t] = {}] /\ UNCHANGED project /\ MapOnly /\ References'
    <3>1. map' \in [Project -> [Table -> Usage]]
      BY <1>5, <2>2 DEF Usage
    <3>2. \A q \in Project, v \in Table : map'[q][v] # {} => map[q][v] # {} \/ Free(v)
      BY <1>5, <2>2
    <3> QED BY <1>3, <1>5, <2>2, <3>1, <3>2 DEF MapOnly
  <2> QED BY <1>7, <2>1, <2>2 DEF DeleteMapping, Request
<1>8. ASSUME NEW l \in Lists, UpdateProject(s, p, l[1], l[2]) PROVE TablesKept
  <2>1. CASE UNCHANGED data
    BY <1>2, <2>1
  <2>2. CASE /\ \A t \in Table : l[2][t] # {} => Free(t)
             /\ project' = [project EXCEPT ![p].flags = l[1]]
             /\ map' = [map EXCEPT ![p] = l[2]] /\ MapOnly /\ References'
    <3>1. l[1] \in Usage /\ l[2] \in [Table -> Usage]
      BY ListsAssumption
    <3>2. map' \in [Project -> [Table -> Usage]] /\ project' \in [Project -> Undertaking]
      BY <1>5, <2>2, <3>1 DEF Undertaking
    <3>3. \A q \in Project, v \in Table : map'[q][v] # {} => map[q][v] # {} \/ Free(v)
      BY <1>5, <2>2, <3>1
    <3> QED BY <1>3, <1>5, <2>2, <3>2, <3>3 DEF MapOnly
  <2> QED BY <1>8, <2>1, <2>2 DEF UpdateProject, Request
<1> QED BY <1>4, <1>6, <1>7, <1>8

-----------------------------------------------------------------------------
(* What the ETL does to the tables, as the workers see it.                  *)
TablesGiven ==
  /\ gone \subseteq gone' /\ dropped \subseteq dropped' /\ replaced \subseteq replaced'
  /\ master \ gone \subseteq master'
  /\ \A t \in Table :
       \/ table'[t] = table[t]
       \/ table'[t] = Loaded /\ (table[t] = NotMade \/ t \in replaced')
       \/ table'[t] = NotMade /\ t \in gone' /\ (t \in dropped' \/ ~BeingSaved(t))

(* Rows change and no table does, nor is a deletion begun or ended.         *)
LEMMA RowsOnly ==
  ASSUME LoadInv, UNCHANGED <<tables, apart>>, LoadType', Entries',
         deleting' = deleting \/ \A e \in Etl : ~Dropping(e) /\ ~Dropping(e)',
         \A e \in Etl :
           /\ etl[e].at # "new" => etl'[e].at # "new" /\ etl'[e].target = etl[e].target
           /\ etl[e].at = "new" /\ etl'[e].at # "new" => etl'[e].target \in Table
           /\ Fills(e)' => Fills(e)
           /\ load'[e] = load[e] \/ load'[e] = "idle",
         unchecked \subseteq unchecked', slow' = slow \/ slow'[1] # "load"
  PROVE  LoadInv' /\ TablesGiven
<1>1. UNCHANGED <<project, table, master, map, gone, dropped, replaced>>
  BY DEF tables
<1>2. \A e \in Etl : Dropping(e)' <=> Dropping(e)
  BY DEF Dropping
<1>3. TableType' /\ MastersExist' /\ TablesGiven
  <2>1. \A e \in Etl : Dropping(e) => etl'[e].target = etl[e].target /\ deleting' = deleting
    BY DEF LoadInv, Deleted
  <2> QED BY <1>1, <1>2, <2>1 DEF LoadInv, TableType, MastersExist, TablesGiven
<1>4. Targets'
  BY DEF LoadInv, Targets
<1>5. Deleted'
  BY <1>1, <1>2 DEF LoadInv, Deleted
<1>6. Filled'
  <2>1. \A e \in Etl : Loading(e)' => Loading(e) /\ etl'[e].target = etl[e].target
    BY DEF LoadInv, Targets, Loading
  <2>2. \A e \in Etl : Fills(e)' => Fills(e) /\ etl'[e].target = etl[e].target
    BY DEF Fills
  <2> QED BY <1>1, <1>2, <2>1, <2>2, FilledKept DEF LoadInv
<1> QED BY <1>3, <1>4, <1>5, <1>6 DEF LoadInv

(* A request that only waits, or a step of another part.                    *)
LEMMA NothingOfLoads ==
  ASSUME LoadInv, UNCHANGED <<tables, loads, apart>>, unchecked \subseteq unchecked',
         slow' = slow \/ slow'[1] # "load"
  PROVE  LoadInv' /\ TablesGiven
<1>1. UNCHANGED <<conn, etl, load, batch, registry, scheduled, deleting, listing, leaving, overtaken>>
  BY DEF loads, batches
<1>2. LoadType' /\ Entries'
  BY <1>1, EntriesSame DEF LoadInv, LoadType
<1>3. \A e \in Etl : (Fills(e)' <=> Fills(e)) /\ etl'[e] = etl[e]
  BY <1>1 DEF Fills
<1> QED BY <1>1, <1>2, <1>3, RowsOnly

LEMMA RegistrationType ==
  ASSUME NEW r \in Registration
  PROVE  /\ [r EXCEPT !.at = "gone"] \in Registration
         /\ \A l \in BOOLEAN : [r EXCEPT !.loaded = l] \in Registration
BY DEF Registration

LEMMA BatchType ==
  ASSUME NEW r \in BatchJob
  PROVE  /\ [r EXCEPT !.at = "gone", !.etl = NoEtl] \in BatchJob
         /\ [r EXCEPT !.etl = NoEtl] \in BatchJob
         /\ \A d \in {"register", "schedule", "done"} : [r EXCEPT !.todo = d] \in BatchJob
BY DEF BatchJob

LEMMA BatchFields ==
  ASSUME NEW r \in BatchJob
  PROVE  /\ [r EXCEPT !.at = "gone", !.etl = NoEtl].at = "gone"
         /\ [r EXCEPT !.at = "gone", !.etl = NoEtl].target = r.target
         /\ [r EXCEPT !.at = "gone", !.etl = NoEtl].todo = r.todo
         /\ [r EXCEPT !.etl = NoEtl].at = r.at
         /\ [r EXCEPT !.etl = NoEtl].target = r.target
         /\ [r EXCEPT !.etl = NoEtl].todo = r.todo
         /\ \A d : /\ [r EXCEPT !.todo = d].at = r.at /\ [r EXCEPT !.todo = d].target = r.target
                  /\ [r EXCEPT !.todo = d].todo = d
BY DEF BatchJob

(* Connections and registrations.                                           *)
LEMMA ConnectionStep == LoadInv /\ ConnectionRequest => LoadInv' /\ TablesGiven
<1> SUFFICES ASSUME LoadInv, ConnectionRequest PROVE LoadInv' /\ TablesGiven
  OBVIOUS
<1>1. UNCHANGED apart /\ unchecked \subseteq unchecked' /\ (slow' = slow \/ slow'[1] # "load")
  BY EtlFrame, SlowFrame, UnwatchedSlow DEF EtlRequest
<1>2. CASE UNCHANGED data
  BY <1>1, <1>2, NothingOfLoads DEF data
<1>3. CASE conn' \in [Conn -> Source] /\ UNCHANGED etl /\ Registering
  <2>1. UNCHANGED <<tables, etl, load, batch, registry, scheduled, deleting, listing, leaving, overtaken>>
    BY <1>3 DEF Registering, batches
  <2>2. LoadType' /\ Entries'
    BY <1>3, <2>1, EntriesSame DEF LoadInv, LoadType
  <2>3. \A e \in Etl : (Fills(e)' <=> Fills(e)) /\ etl'[e] = etl[e]
    BY <2>1 DEF Fills
  <2> QED BY <1>1, <2>1, <2>2, <2>3, RowsOnly
<1>4. conn \in [Conn -> Source]
  BY DEF LoadInv, LoadType
<1>5. ASSUME NEW s, NEW c, CreateConnection(s, c) PROVE LoadInv' /\ TablesGiven
  <2>1. CASE /\ conn' = [conn EXCEPT ![c] = [at |-> "there", file |-> FALSE]]
             /\ UNCHANGED etl /\ Registering
    <3>1. conn' \in [Conn -> Source]
      BY <1>4, <2>1 DEF Source
    <3> QED BY <1>3, <2>1, <3>1
  <2> QED BY <1>2, <1>5, <2>1 DEF CreateConnection, Request
<1>6. ASSUME NEW s, NEW c, CreateFileConnection(s, c) PROVE LoadInv' /\ TablesGiven
  <2>1. CASE /\ conn' = [conn EXCEPT ![c] = [at |-> "there", file |-> TRUE]]
             /\ UNCHANGED etl /\ Registering
    <3>1. conn' \in [Conn -> Source]
      BY <1>4, <2>1 DEF Source
    <3> QED BY <1>3, <2>1, <3>1
  <2> QED BY <1>2, <1>6, <2>1 DEF CreateFileConnection, Request
<1>7. ASSUME NEW s, NEW c \in Conn, DeleteConnection(s, c) PROVE LoadInv' /\ TablesGiven
  <2>1. CASE /\ deleting = Nothing
             /\ deleting' = <<"conn", c>>
             /\ table' = [t \in Table |-> IF t \in FilledOnlyThrough(c) THEN NotMade ELSE table[t]]
             /\ gone' = gone \cup FilledOnlyThrough(c) /\ dropped' = dropped \cup FilledOnlyThrough(c)
             /\ UNCHANGED <<project, master, map, replaced, conn, etl, load, batches>>
    <3>1. FilledOnlyThrough(c) \subseteq Table
      BY DEF FilledOnlyThrough
    <3>2. UNCHANGED <<batch, registry, scheduled, listing, leaving, overtaken>>
      BY <2>1 DEF batches
    <3>3. TableType'
      BY <2>1, <3>1 DEF LoadInv, TableType, Made
    <3>4. LoadType' /\ Entries'
      BY <2>1, <3>2, EntriesSame DEF LoadInv, LoadType
    <3>5. \A e \in Etl : ~Dropping(e)' /\ ~Dropping(e) /\ (Loading(e)' <=> Loading(e)) /\ (Fills(e)' <=> Fills(e))
      BY <2>1 DEF Dropping, Nothing, Loading, Fills
    <3>6. Targets' /\ Deleted'
      BY <1>1, <2>1, <3>5 DEF LoadInv, Targets, Deleted
    <3>7. MastersExist'
      BY <2>1, <3>1, <3>5 DEF LoadInv, MastersExist, TableType
    <3>8. Filled'
      <4>1. dropped \subseteq dropped' /\ \A t \in Table : table'[t] = NotMade => table[t] = NotMade \/ t \in dropped'
        BY <2>1
      <4> QED BY <1>1, <2>1, <3>5, <4>1, FilledKept DEF LoadInv
    <3>9. TablesGiven
      BY <2>1, <3>1 DEF TablesGiven
    <3> QED BY <3>3, <3>4, <3>6, <3>7, <3>8, <3>9 DEF LoadInv
  <2> QED BY <1>2, <1>7, <2>1 DEF DeleteConnection, Request
<1>8. There(conn) \subseteq Conn
  BY <1>4 DEF There
<1> QED BY <1>5, <1>6, <1>7, <1>8 DEF ConnectionRequest

LEMMA RegistrationStep == LoadInv /\ RegistrationRequest => LoadInv' /\ TablesGiven
<1> SUFFICES ASSUME LoadInv, RegistrationRequest PROVE LoadInv' /\ TablesGiven
  OBVIOUS
<1>1. UNCHANGED apart /\ unchecked \subseteq unchecked' /\ (slow' = slow \/ slow'[1] # "load")
  BY EtlFrame, SlowFrame, UnwatchedSlow DEF EtlRequest
<1>2. CASE UNCHANGED data
  BY <1>1, <1>2, NothingOfLoads DEF data
<1>3. LoadType
  BY DEF LoadInv
<1>4. PICK s \in Signed, e \in New(etl), c \in There(conn), t \in Table, from \in Table \cup {NoTable},
           mode \in {"full", "incremental", "diff"} : CreateEtlTable(s, e, c, t, from, mode)
  BY DEF RegistrationRequest
<1>5. CASE /\ etl[e].at = "new"
           /\ etl' = [etl EXCEPT ![e] = [at |-> "there", conn |-> c, target |-> t, source |-> from, loaded |-> FALSE]]
           /\ UNCHANGED conn /\ Registering
  <2>1. UNCHANGED <<tables, conn, load, batch, registry, scheduled, deleting, listing, leaving, overtaken>>
    BY <1>5 DEF Registering, batches
  <2>2. e \in Etl /\ c \in Conn
    BY <1>3 DEF LoadType, New, There
  <2>3. [at |-> "there", conn |-> c, target |-> t, source |-> from, loaded |-> FALSE] \in Registration
    BY <2>2 DEF Registration
  <2>4. LoadType' /\ Entries'
    BY <1>3, <1>5, <2>1, <2>2, <2>3, EntriesSame DEF LoadInv, LoadType
  <2>5. \A f \in Etl : f # e => etl'[f] = etl[f]
    BY <1>3, <1>5 DEF LoadType
  <2>6. etl'[e].target = t /\ ~etl'[e].loaded
    BY <1>3, <1>5, <2>2 DEF LoadType
  <2>7. load[e] = "idle"
    BY <1>5, <2>2 DEF LoadInv, Targets
  <2>8. \A f \in Etl : Fills(f)' => Fills(f)
    BY <2>1, <2>5, <2>6, <2>7 DEF Fills
  <2> QED BY <1>1, <1>5, <2>1, <2>4, <2>5, <2>6, <2>8, RowsOnly
<1> QED BY <1>2, <1>4, <1>5 DEF CreateEtlTable, Request

(* Loads.  A load that starts makes its table, or knows that there is none. *)
LEMMA LoadTableStep ==
  ASSUME LoadInv, NEW e \in Etl, NEW how \in {"full", "more", "nothing"}, LoadTable(e, how)
  PROVE  LoadInv' /\ TablesGiven
<1> DEFINE t == etl[e].target
           makes == how = "full" \/ (how = "more" /\ table[t] = NotMade)
<1>1. UNCHANGED apart /\ unchecked \subseteq unchecked'
  BY DEF LoadTable, Request, data
<1>2. LoadType /\ TableType
  BY DEF LoadInv
<1>3. CASE UNCHANGED data /\ etl[e].at = "there" /\ slow' = <<"load", e, how>>
  <2>1. UNCHANGED <<project, table, master, map, gone, dropped, replaced, conn, etl, load, batch, registry, scheduled,
                    deleting, listing, leaving, overtaken>>
    BY <1>3 DEF data, tables, loads, batches
  <2>2. slow'[1] = "load" => slow'[2] \in Etl /\ etl'[slow'[2]].at # "new"
    BY <1>3, <2>1
  <2>3. Targets'
    BY <2>1, <2>2 DEF LoadInv, Targets
  <2>4. LoadType' /\ TableType' /\ Deleted' /\ MastersExist' /\ Entries'
    BY <1>1, <1>2, <2>1, EntriesSame DEF LoadInv, LoadType, TableType, Deleted, Dropping, MastersExist
  <2>5. Filled'
    BY <1>1, <2>1 DEF LoadInv, Filled, Loading, Fills, Dropping
  <2>6. TablesGiven
    BY <2>1 DEF TablesGiven
  <2> QED BY <2>3, <2>4, <2>5, <2>6 DEF LoadInv
<1>4. ASSUME etl[e].at # "new", slow' = slow \/ slow' = Nothing,
             load' = [load EXCEPT ![e] = IF how = "full" THEN "fresh" ELSE "made"],
             etl' = [etl EXCEPT ![e].loaded = FALSE],
             table' = IF makes THEN [table EXCEPT ![t] = Loaded] ELSE table,
             replaced' = IF makes /\ table[t] # NotMade THEN replaced \cup {t} ELSE replaced,
             dropped' = IF ~makes /\ table[t] = NotMade THEN dropped \cup {t} ELSE dropped,
             UNCHANGED <<project, master, map, gone, conn, deleting, batches>>
      PROVE  LoadInv' /\ TablesGiven
  <2>1. t \in Table /\ Loaded # NotMade
    BY <1>4, SavedApart DEF LoadInv, Targets
  <2>2. UNCHANGED <<batch, registry, scheduled, listing, leaving, overtaken>>
    BY <1>4 DEF batches
  <2>3. /\ table' \in [Table -> Made]
        /\ \A v \in Table \ {t} : table'[v] = table[v]
        /\ \/ table'[t] = table[t]
           \/ table'[t] = Loaded /\ (table[t] = NotMade \/ t \in replaced')
        /\ table'[t] # NotMade \/ t \in dropped'
    BY <1>2, <1>4, <2>1 DEF TableType, Made
  <2>4. /\ dropped \subseteq dropped' /\ dropped' \subseteq dropped \cup {t}
        /\ replaced \subseteq replaced' /\ replaced' \subseteq replaced \cup {t}
    BY <1>4
  <2>5. [etl[e] EXCEPT !.loaded = FALSE] \in Registration
    BY <1>2, RegistrationType DEF LoadType
  <2>6. \A f \in Etl : /\ etl'[f].at = etl[f].at /\ etl'[f].target = etl[f].target
                       /\ f # e => etl'[f].loaded = etl[f].loaded /\ load'[f] = load[f]
    BY <1>2, <1>4 DEF LoadType, Registration
  <2>7. ~etl'[e].loaded /\ load'[e] \in {"fresh", "made"} /\ load' \in [Etl -> {"idle", "fresh", "made", "noted"}]
    BY <1>2, <1>4 DEF LoadType
  <2> HIDE DEF t, makes
  <2>8. LoadType' /\ TableType' /\ Entries'
    <3>1. etl' \in [Etl -> Registration]
      BY <1>2, <1>4, <2>5 DEF LoadType
    <3>2. TableType'
      BY <1>2, <1>4, <2>1, <2>3, <2>4 DEF TableType
    <3>3. LoadType'
      BY <1>2, <1>4, <2>2, <2>7, <3>1 DEF LoadType
    <3> QED BY <2>2, <3>2, <3>3, EntriesSame DEF LoadInv
  <2>9. Targets'
    <3>1. slow'[1] = "load" => slow' = slow
      BY <1>4 DEF Nothing
    <3>2. \A f \in Etl : load'[f] # "idle" => etl'[f].at # "new"
      BY <1>4, <2>6 DEF LoadInv, Targets
    <3> QED BY <2>6, <3>1, <3>2 DEF LoadInv, Targets
  <2>10. Deleted'
    BY <1>1, <1>4, <2>4, <2>6 DEF LoadInv, Deleted, Dropping
  <2>11. MastersExist'
    <3>1. ASSUME NEW v \in master' \ dropped', table'[v] = NotMade
          PROVE  \E f \in Etl : Dropping(f)' /\ etl'[f].target = v /\ deleting'[4]
      <4>1. v \in master \ dropped /\ v \in Table /\ v # t
        BY <1>2, <1>4, <2>3, <2>4, <3>1 DEF TableType
      <4>2. PICK f \in Etl : Dropping(f) /\ etl[f].target = v /\ deleting[4]
        BY <2>3, <3>1, <4>1 DEF LoadInv, MastersExist
      <4> QED BY <1>4, <2>6, <4>2 DEF Dropping
    <3> QED BY <1>4, <3>1 DEF LoadInv, MastersExist
  <2>12. Filled'
    <3>1. \A v \in Table : table'[v] = NotMade => table[v] = NotMade \/ v \in dropped'
      BY <2>3
    <3>2. ASSUME NEW f \in Etl, Loading(f)'
          PROVE  \/ table'[etl'[f].target] # NotMade \/ etl'[f].target \in dropped'
                 \/ Loading(f) /\ etl'[f].target = etl[f].target
      <4>1. CASE f = e
        BY <2>3, <2>6, <4>1 DEF t
      <4>2. CASE f # e
        BY <2>6, <3>2, <4>2 DEF Loading
      <4> QED BY <4>1, <4>2
    <3>3. ASSUME NEW f \in Etl, Fills(f)', ~Dropping(f)'
          PROVE  etl'[f].target = etl[f].target /\ Fills(f) /\ ~Dropping(f)
      <4>1. f # e
        BY <2>7, <3>3 DEF Fills
      <4> QED BY <1>4, <2>6, <3>3, <4>1 DEF Fills, Dropping
    <3> QED BY <1>1, <2>4, <3>1, <3>2, <3>3, FilledKept DEF LoadInv
  <2>13. TablesGiven
    BY <1>4, <2>3, <2>4 DEF TablesGiven
  <2> QED BY <2>8, <2>9, <2>10, <2>11, <2>12, <2>13 DEF LoadInv
<1>5. CASE /\ etl[e].at = "there" \/ slow = <<"load", e, how>>
           /\ slow' = slow \/ slow' = Nothing
           /\ load' = [load EXCEPT ![e] = IF how = "full" THEN "fresh" ELSE "made"]
           /\ etl' = [etl EXCEPT ![e].loaded = FALSE]
           /\ table' = IF makes THEN [table EXCEPT ![t] = Loaded] ELSE table
           /\ replaced' = IF makes /\ table[t] # NotMade THEN replaced \cup {t} ELSE replaced
           /\ dropped' = IF ~makes /\ table[t] = NotMade THEN dropped \cup {t} ELSE dropped
           /\ UNCHANGED <<project, master, map, gone, conn, deleting, batches>>
  <2>1. etl[e].at # "new"
    BY <1>5 DEF LoadInv, Targets
  <2> QED BY <1>4, <1>5, <2>1
<1> QED BY <1>3, <1>5 DEF LoadTable, Request, LoadOnly

(* The master that its hook adds is of a table that is there.               *)
LEMMA RecordMasterStep ==
  ASSUME LoadInv, NEW e \in Etl, NEW done \in BOOLEAN, RecordMaster(e, done)
  PROVE  LoadInv' /\ TablesGiven
<1> DEFINE t == etl[e].target
<1>1. /\ Loading(e)
      /\ master' = (IF done THEN master \cup {t} ELSE master)
      /\ load' = [load EXCEPT ![e] = "noted"]
      /\ UNCHANGED <<project, table, map, gone, dropped, replaced, conn, etl, deleting, batches, apart, unchecked, slow>>
  BY DEF RecordMaster, Quietly, LoadOnly, Loading
<1>2. LoadType /\ TableType
  BY DEF LoadInv
<1>3. UNCHANGED <<batch, registry, scheduled, listing, leaving, overtaken>>
  BY <1>1 DEF batches
<1>4. t \in Table /\ etl[e].at # "new" /\ (table[t] # NotMade \/ t \in dropped)
  BY <1>1 DEF LoadInv, Targets, Filled, Loading
<1>5. master \subseteq master' /\ master' \subseteq master \cup {t}
  BY <1>1
<1>6. load' \in [Etl -> {"idle", "fresh", "made", "noted"}] /\ load'[e] = "noted" /\ \A f \in Etl \ {e} : load'[f] = load[f]
  BY <1>1, <1>2 DEF LoadType
<1> HIDE DEF t
<1>7. LoadType' /\ TableType' /\ Entries'
  <2>1. TableType'
    BY <1>1, <1>2, <1>4, <1>5 DEF TableType
  <2>2. LoadType'
    BY <1>1, <1>2, <1>3, <1>6 DEF LoadType
  <2> QED BY <1>3, <2>1, <2>2, EntriesSame DEF LoadInv
<1>8. Targets' /\ Deleted'
  BY <1>1, <1>4, <1>6 DEF LoadInv, Targets, Deleted, Dropping
<1>9. MastersExist'
  BY <1>1, <1>4, <1>5 DEF LoadInv, MastersExist, Dropping
<1>10. Filled'
  <2>1. \A f \in Etl : (Loading(f)' => Loading(f)) /\ (Fills(f)' => Loading(f) \/ Fills(f)) /\ (Dropping(f)' <=> Dropping(f))
    BY <1>1, <1>6 DEF Loading, Fills, Dropping
  <2> QED BY <1>1, <2>1, FilledKept DEF LoadInv
<1>11. TablesGiven
  BY <1>1, <1>5 DEF TablesGiven
<1> QED BY <1>7, <1>8, <1>9, <1>10, <1>11 DEF LoadInv

LEMMA EndOfLoadStep ==
  ASSUME LoadInv, NEW e \in Etl, RecordLoad(e) \/ LoadFails(e)
  PROVE  LoadInv' /\ TablesGiven
<1>1. /\ load' = [load EXCEPT ![e] = "idle"]
      /\ \/ load[e] = "noted" /\ etl' = [etl EXCEPT ![e].loaded = etl[e].at = "there"]
         \/ UNCHANGED etl
      /\ UNCHANGED <<tables, conn, deleting, batches, apart, unchecked, slow>>
  BY DEF RecordLoad, LoadFails, Quietly, LoadOnly, tables
<1>2. LoadType
  BY DEF LoadInv
<1>3. UNCHANGED <<batch, registry, scheduled, listing, leaving, overtaken>>
  BY <1>1 DEF batches
<1>4. load' \in [Etl -> {"idle", "fresh", "made", "noted"}] /\ load'[e] = "idle" /\ \A f \in Etl \ {e} : load'[f] = load[f]
  BY <1>1, <1>2 DEF LoadType
<1>5. /\ etl' \in [Etl -> Registration]
      /\ \A f \in Etl : /\ etl'[f].at = etl[f].at /\ etl'[f].target = etl[f].target
                        /\ etl'[f].loaded = etl[f].loaded \/ (f = e /\ load[e] = "noted")
  <2>1. CASE UNCHANGED etl
    BY <1>2, <2>1 DEF LoadType
  <2>2. CASE load[e] = "noted" /\ etl' = [etl EXCEPT ![e].loaded = etl[e].at = "there"]
    <3>1. [etl[e] EXCEPT !.loaded = etl[e].at = "there"] \in Registration
      BY <1>2, RegistrationType DEF LoadType
    <3>2. etl' \in [Etl -> Registration]
      BY <1>2, <2>2, <3>1 DEF LoadType
    <3>3. \A f \in Etl : /\ etl'[f].at = etl[f].at /\ etl'[f].target = etl[f].target
                         /\ etl'[f].loaded = etl[f].loaded \/ f = e
      BY <1>2, <2>2 DEF LoadType, Registration
    <3> QED BY <2>2, <3>2, <3>3
  <2> QED BY <1>1, <2>1, <2>2
<1>6. LoadType' /\ Entries'
  <2>1. LoadType'
    BY <1>1, <1>2, <1>3, <1>4, <1>5 DEF LoadType
  <2> QED BY <1>3, <2>1, EntriesSame DEF LoadInv
<1>7. \A f \in Etl : Fills(f)' => Fills(f)
  BY <1>4, <1>5 DEF Fills
<1>8. \A f \in Etl : load'[f] = load[f] \/ load'[f] = "idle"
  BY <1>4
<1> QED BY <1>1, <1>5, <1>6, <1>7, <1>8, RowsOnly

LEMMA CancelledStep ==
  ASSUME LoadInv, NEW e \in Etl, LoadCancelled(e)
  PROVE  LoadInv' /\ TablesGiven
<1> DEFINE t == etl[e].target
<1>1. /\ load[e] = "fresh"
      /\ load' = [load EXCEPT ![e] = "idle"]
      /\ table' = [table EXCEPT ![t] = NotMade]
      /\ gone' = gone \cup {t} /\ dropped' = dropped \cup {t}
      /\ UNCHANGED <<project, master, map, replaced, conn, etl, deleting, batches, apart, unchecked, slow>>
  BY DEF LoadCancelled, Quietly, LoadOnly
<1>2. LoadType /\ TableType
  BY DEF LoadInv
<1>3. UNCHANGED <<batch, registry, scheduled, listing, leaving, overtaken>>
  BY <1>1 DEF batches
<1>4. t \in Table
  BY <1>1 DEF LoadInv, Targets
<1>5. load' \in [Etl -> {"idle", "fresh", "made", "noted"}] /\ \A f \in Etl : load'[f] = load[f] \/ load'[f] = "idle"
  BY <1>1, <1>2 DEF LoadType
<1>6. table' \in [Table -> Made] /\ table'[t] = NotMade /\ \A v \in Table \ {t} : table'[v] = table[v]
  BY <1>1, <1>2, <1>4 DEF TableType, Made
<1> HIDE DEF t
<1>7. LoadType' /\ TableType' /\ Entries'
  <2>1. TableType'
    BY <1>1, <1>2, <1>4, <1>6 DEF TableType
  <2>2. LoadType'
    BY <1>1, <1>2, <1>3, <1>5 DEF LoadType
  <2> QED BY <1>3, <2>1, <2>2, EntriesSame DEF LoadInv
<1>8. Targets' /\ Deleted'
  BY <1>1, <1>5 DEF LoadInv, Targets, Deleted, Dropping
<1>9. MastersExist'
  BY <1>1, <1>2, <1>6 DEF LoadInv, MastersExist, Dropping, TableType
<1>10. Filled'
  <2>1. \A f \in Etl : (Loading(f)' => Loading(f)) /\ (Fills(f)' => Fills(f)) /\ (Dropping(f)' <=> Dropping(f))
    BY <1>1, <1>5 DEF Loading, Fills, Dropping
  <2>2. dropped \subseteq dropped' /\ \A v \in Table : table'[v] = NotMade => table[v] = NotMade \/ v \in dropped'
    BY <1>1, <1>6
  <2> QED BY <1>1, <2>1, <2>2, FilledKept DEF LoadInv
<1>11. TablesGiven
  BY <1>1, <1>6 DEF TablesGiven
<1> QED BY <1>7, <1>8, <1>9, <1>10, <1>11 DEF LoadInv

LEMMA LoadStep == LoadInv /\ Load => LoadInv' /\ TablesGiven
BY LoadTableStep, RecordMasterStep, EndOfLoadStep, CancelledStep DEF Load

(* Deletion.                                                                *)
LEMMA ForgetRows ==
  ASSUME LoadType, Entries, NEW e \in Etl, NEW bs \in SUBSET Batch, Forget(e, bs)
  PROVE  /\ etl' \in [Etl -> Registration] /\ batch' \in [Batch -> BatchJob]
         /\ registry' \in [Table -> Batch \cup {NoBatch}] /\ overtaken' \subseteq Batch
         /\ UNCHANGED <<listing, leaving>>
         /\ Entries'
         /\ \A f \in Etl : f # e => etl'[f] = etl[f]
         /\ etl'[e].at = "gone" /\ etl'[e].target = etl[e].target
<1>1. /\ etl \in [Etl -> Registration] /\ batch \in [Batch -> BatchJob]
      /\ registry \in [Table -> Batch \cup {NoBatch}] /\ overtaken \subseteq Batch
  BY DEF LoadType
<1>2. etl' \in [Etl -> Registration]
  BY <1>1, RegistrationType DEF Forget
<1>3. \A b \in Batch : /\ batch'[b] \in BatchJob /\ batch'[b].target = batch[b].target
                       /\ batch'[b].todo = batch[b].todo
                       /\ batch'[b].at = batch[b].at \/ (b \in bs /\ batch[b].at = "there" /\ batch'[b].at = "gone")
  <2> SUFFICES ASSUME NEW b \in Batch
               PROVE  /\ batch'[b] \in BatchJob /\ batch'[b].target = batch[b].target
                      /\ batch'[b].todo = batch[b].todo
                      /\ batch'[b].at = batch[b].at \/ (b \in bs /\ batch[b].at = "there" /\ batch'[b].at = "gone")
    OBVIOUS
  <2>1. batch[b] \in BatchJob
    BY <1>1
  <2>2. \/ b \in bs /\ batch[b].at = "there" /\ batch'[b] = [batch[b] EXCEPT !.at = "gone", !.etl = NoEtl]
        \/ batch'[b] = [batch[b] EXCEPT !.etl = NoEtl]
        \/ batch'[b] = batch[b]
    BY DEF Forget
  <2>3. CASE b \in bs /\ batch[b].at = "there" /\ batch'[b] = [batch[b] EXCEPT !.at = "gone", !.etl = NoEtl]
    <3> DEFINE row == [batch[b] EXCEPT !.at = "gone", !.etl = NoEtl]
    <3>1. row \in BatchJob /\ row.at = "gone" /\ row.target = batch[b].target /\ row.todo = batch[b].todo
      BY <2>1, BatchType, BatchFields
    <3>2. batch'[b] = row
      BY <2>3
    <3> HIDE DEF row
    <3> QED BY <2>3, <3>1, <3>2
  <2>4. CASE batch'[b] = [batch[b] EXCEPT !.etl = NoEtl]
    BY <2>1, <2>4, BatchType, BatchFields, ZenonT(40)
  <2>5. CASE batch'[b] = batch[b]
    BY <2>1, <2>5
  <2> QED BY <2>2, <2>3, <2>4, <2>5
<1>4. batch' \in [Batch -> BatchJob]
  BY <1>3 DEF Forget
<1>5. registry' \in [Table -> Batch \cup {NoBatch}] /\ overtaken' \subseteq Batch /\ UNCHANGED <<listing, leaving>>
  BY <1>1 DEF Forget
<1>6. \A t \in Table : registry'[t] # NoBatch =>
         registry'[t] = registry[t] /\ registry[t] \in Batch \ bs
  BY <1>1 DEF Forget
<1>7. overtaken \subseteq overtaken' /\ \A b \in bs : InHand(b) => b \in overtaken'
  BY DEF Forget
<1>8. Entries'
  <2>1. \A b \in Batch : Leaving(b)' <=> Leaving(b)
    BY <1>5 DEF Leaving
  <2>2. \A b \in Batch : InHand(b)' => InHand(b)
    BY <1>3, <1>5 DEF InHand
  <2>3. ASSUME NEW t \in Table, NEW b \in Batch, registry'[t] = b
        PROVE  /\ batch'[b].at # "new" /\ batch'[b].target = t
               /\ b \in overtaken' \/ (batch'[b].at = "there" /\ ~Leaving(b)')
    <3>1. registry[t] = b /\ b \notin bs
      BY <1>6, <2>3, DeskAssumption
    <3>2. /\ batch[b].at # "new" /\ batch[b].target = t
          /\ b \in overtaken \/ (batch[b].at = "there" /\ ~Leaving(b))
      BY <3>1 DEF Entries
    <3>3. batch'[b].at = batch[b].at /\ batch'[b].target = batch[b].target
      BY <1>3, <3>1
    <3> QED BY <1>7, <2>1, <3>2, <3>3
  <2>4. ASSUME NEW b \in Batch, InHand(b)'
        PROVE  batch'[b].at # "new" /\ (batch'[b].at = "there" \/ b \in overtaken')
    <3>1. InHand(b) /\ batch[b].at # "new" /\ (batch[b].at = "there" \/ b \in overtaken)
      BY <2>2, <2>4 DEF Entries
    <3> QED BY <1>3, <1>7, <3>1
  <2> QED BY <2>3, <2>4 DEF Entries
<1>9. \A f \in Etl : f # e => etl'[f] = etl[f]
  BY <1>1 DEF Forget
<1>10. etl'[e].at = "gone" /\ etl'[e].target = etl[e].target
  BY <1>1 DEF Forget, Registration
<1> QED BY <1>2, <1>4, <1>5, <1>8, <1>9, <1>10

LEMMA BatchesOfType == ASSUME LoadType, NEW e PROVE BatchesOf(e) \in SUBSET Batch
BY DEF BatchesOf, There, LoadType

LEMMA DeletionStep == LoadInv /\ DeletionRequest => LoadInv' /\ TablesGiven
<1> SUFFICES ASSUME LoadInv, DeletionRequest PROVE LoadInv' /\ TablesGiven
  OBVIOUS
<1>1. UNCHANGED apart /\ unchecked \subseteq unchecked' /\ (slow' = slow \/ slow'[1] # "load")
  BY EtlFrame, SlowFrame, UnwatchedSlow DEF EtlRequest
<1>2. CASE UNCHANGED data
  BY <1>1, <1>2, NothingOfLoads DEF data
<1>3. LoadType /\ TableType
  BY DEF LoadInv
<1>4. PICK s \in Signed, e \in Etl :
        \/ \E drop \in BOOLEAN : DeleteEtlTable(s, e, drop)
        \/ \E too \in BOOLEAN : DeleteEtlTableRowOnly(s, e, too)
  BY DEF DeletionRequest
<1>5. ASSUME NEW too \in BOOLEAN, DeleteEtlTableRowOnly(s, e, too) PROVE LoadInv' /\ TablesGiven
  <2> DEFINE bs == IF too THEN BatchesOf(e) ELSE {}
  <2>1. CASE /\ etl[e].at = "there" /\ ~Dropping(e) /\ Forget(e, bs)
             /\ UNCHANGED <<tables, conn, load, scheduled, deleting>>
    <3>1. bs \in SUBSET Batch
      BY <1>3, BatchesOfType
    <3> HIDE DEF bs
    <3>2. /\ etl' \in [Etl -> Registration] /\ batch' \in [Batch -> BatchJob]
          /\ registry' \in [Table -> Batch \cup {NoBatch}] /\ overtaken' \subseteq Batch
          /\ UNCHANGED <<listing, leaving>>
          /\ Entries'
          /\ \A f \in Etl : f # e => etl'[f] = etl[f]
          /\ etl'[e].at = "gone" /\ etl'[e].target = etl[e].target
      BY <1>3, <2>1, <3>1, ForgetRows DEF LoadInv
    <3>3. LoadType'
      BY <1>3, <2>1, <3>2 DEF LoadType
    <3>4. \A f \in Etl :
            /\ etl[f].at # "new" => etl'[f].at # "new" /\ etl'[f].target = etl[f].target
            /\ etl[f].at = "new" /\ etl'[f].at # "new" => etl'[f].target \in Table
            /\ Fills(f)' => Fills(f)
      <4> SUFFICES ASSUME NEW f \in Etl
                   PROVE  /\ etl[f].at # "new" => etl'[f].at # "new" /\ etl'[f].target = etl[f].target
                          /\ etl[f].at = "new" /\ etl'[f].at # "new" => etl'[f].target \in Table
                          /\ Fills(f)' => Fills(f)
        OBVIOUS
      <4>1. CASE f = e
        BY <2>1, <3>2, <4>1 DEF Fills
      <4>2. CASE f # e
        BY <2>1, <3>2, <4>2 DEF Fills
      <4> QED BY <4>1, <4>2
    <3> QED BY <1>1, <2>1, <3>2, <3>3, <3>4, RowsOnly
  <2> QED BY <1>2, <1>5, <2>1 DEF DeleteEtlTableRowOnly, Request, Dropping
<1>6. ASSUME scheduled' \in SUBSET Batch,
             UNCHANGED <<project, master, map, replaced, conn, etl, load, batch, registry, listing, leaving, overtaken>>,
             UNCHANGED <<deleting, table, gone, dropped>>
      PROVE  LoadInv' /\ TablesGiven
  <2>1. UNCHANGED tables
    BY <1>6 DEF tables
  <2>2. LoadType' /\ Entries'
    BY <1>3, <1>6, EntriesSame DEF LoadInv, LoadType
  <2>3. \A f \in Etl : (Fills(f)' <=> Fills(f)) /\ etl'[f] = etl[f]
    BY <1>6 DEF Fills
  <2> QED BY <1>1, <1>6, <2>1, <2>2, <2>3, RowsOnly
<1>7. ASSUME deleting = Nothing, etl[e].at = "there", Unmapped(etl[e].target),
             ~AnotherFills(e) \/ etl[e].target \in unchecked',
             scheduled' \in SUBSET Batch,
             UNCHANGED <<project, master, map, replaced, conn, etl, load, batch, registry, listing, leaving, overtaken>>,
             deleting' = <<"etl", e, BatchesOf(e), etl[e].target \in master /\ ~apart>>,
             table' = [table EXCEPT ![etl[e].target] = NotMade],
             gone' = gone \cup {etl[e].target},
             dropped' = IF apart \/ BeingSaved(etl[e].target) \/ BeingLoaded(etl[e].target)
                        THEN dropped \cup {etl[e].target} ELSE dropped
      PROVE  LoadInv' /\ TablesGiven
  <2> DEFINE t == etl[e].target
  <2>1. t \in Table
    BY <1>7 DEF LoadInv, Targets
  <2>2. \A f \in Etl : ~Dropping(f) /\ (Dropping(f)' <=> f = e)
    BY <1>7 DEF Dropping, Nothing
  <2>3. /\ table' \in [Table -> Made] /\ table'[t] = NotMade
        /\ \A v \in Table : v # t => table'[v] = table[v]
    BY <1>3, <1>7, <2>1 DEF TableType, Made
  <2>4. /\ dropped \subseteq dropped' /\ dropped' \subseteq dropped \cup {t}
        /\ apart \/ BeingSaved(t) \/ BeingLoaded(t) => t \in dropped'
    BY <1>7
  <2>5. TableType'
    BY <1>3, <1>7, <2>1, <2>3, <2>4 DEF TableType
  <2>6. LoadType' /\ Entries'
    <3>1. BatchesOf(e) \in SUBSET Batch /\ (etl[e].target \in master /\ ~apart) \in BOOLEAN
      BY <1>3, BatchesOfType
    <3> QED BY <1>3, <1>7, <3>1, EntriesSame DEF LoadInv, LoadType
  <2>7. Targets'
    BY <1>1, <1>7 DEF LoadInv, Targets
  <2>8. Deleted'
    <3>1. deleting'[4] <=> (t \in master /\ ~apart)
      BY <1>7
    <3>2. deleting'[4] => \A p \in Project : map[p][t] = {}
      BY <1>7, <3>1 DEF Unmapped
    <3> QED BY <1>1, <1>7, <2>2, <2>4, <3>2 DEF Deleted
  <2>9. MastersExist'
    <3>1. ASSUME NEW v \in master' \ dropped', table'[v] = NotMade
          PROVE  \E f \in Etl : Dropping(f)' /\ etl'[f].target = v /\ deleting'[4]
      <4>1. v \in master /\ v \in Table \ dropped
        BY <1>3, <1>7, <2>4, <3>1 DEF TableType
      <4>2. v = t
        BY <2>2, <2>3, <3>1, <4>1 DEF LoadInv, MastersExist
      <4>3. ~apart
        BY <2>4, <3>1, <4>2
      <4>4. deleting'[4]
        BY <1>7, <4>1, <4>2, <4>3
      <4> QED BY <1>7, <2>2, <4>2, <4>4
    <3> QED BY <1>7, <3>1 DEF LoadInv, MastersExist
  <2>10. Filled'
    <3>1. ASSUME NEW f \in Etl, Loading(f)'
          PROVE  table'[etl'[f].target] # NotMade \/ etl'[f].target \in dropped'
      <4>1. Loading(f) /\ etl'[f].target = etl[f].target /\ etl[f].target \in Table
        BY <1>7, <3>1 DEF Loading, LoadInv, Targets
      <4>2. CASE etl[f].target = t
        BY <2>4, <4>1, <4>2 DEF BeingLoaded, Loading
      <4>3. CASE etl[f].target # t
        BY <2>3, <2>4, <4>1, <4>3 DEF LoadInv, Filled
      <4> QED BY <4>2, <4>3
    <3>2. ASSUME NEW f \in Etl, Fills(f)', ~Dropping(f)'
          PROVE  table'[etl'[f].target] # NotMade \/ etl'[f].target \in dropped' \cup unchecked'
      <4>1. f # e /\ Fills(f) /\ f \in There(etl) /\ etl'[f].target = etl[f].target /\ etl[f].target \in Table
        BY <1>3, <1>7, <2>2, <3>2 DEF Fills, There, LoadType, LoadInv, Targets
      <4>2. CASE etl[f].target = t
        BY <1>7, <4>1, <4>2 DEF AnotherFills
      <4>3. CASE etl[f].target # t
        BY <1>1, <2>2, <2>3, <2>4, <4>1, <4>3 DEF LoadInv, Filled
      <4> QED BY <4>2, <4>3
    <3> QED BY <3>1, <3>2 DEF Filled
  <2>11. TablesGiven
    BY <1>7, <2>3, <2>4 DEF TablesGiven
  <2> QED BY <2>5, <2>6, <2>7, <2>8, <2>9, <2>10, <2>11 DEF LoadInv
<1>8. ASSUME NEW drop \in BOOLEAN, DeleteEtlTable(s, e, drop) PROVE LoadInv' /\ TablesGiven
  <2>1. CASE /\ ~AnotherFills(e) \/ etl[e].target \in unchecked'
             /\ deleting = Nothing /\ etl[e].at = "there" /\ Unmapped(etl[e].target)
             /\ scheduled' = scheduled \ BatchesOf(e)
             /\ IF drop
                THEN /\ deleting' = <<"etl", e, BatchesOf(e), etl[e].target \in master /\ ~apart>>
                     /\ table' = [table EXCEPT ![etl[e].target] = NotMade]
                     /\ gone' = gone \cup {etl[e].target}
                     /\ dropped' = IF apart \/ BeingSaved(etl[e].target) \/ BeingLoaded(etl[e].target)
                                   THEN dropped \cup {etl[e].target} ELSE dropped
                ELSE UNCHANGED <<deleting, table, gone, dropped>>
             /\ UNCHANGED <<project, master, map, replaced, conn, etl, load>>
             /\ UNCHANGED <<batch, registry, listing, leaving, overtaken>>
    <3>1. scheduled' \in SUBSET Batch
      BY <1>3, <2>1 DEF LoadType
    <3> QED BY <1>6, <1>7, <2>1, <3>1
  <2> QED BY <1>2, <1>8, <2>1 DEF DeleteEtlTable, Request, CanDeleteEtlTable
<1> QED BY <1>4, <1>5, <1>8

(* Batches: registrations and, but for what follows a request, tables stay. *)
LEMMA BatchesOnly ==
  ASSUME LoadInv, UNCHANGED <<tables, apart, conn, etl, load, deleting>>,
         batch' \in [Batch -> BatchJob], registry' \in [Table -> Batch \cup {NoBatch}],
         scheduled' \in SUBSET Batch, listing' \in SUBSET Batch, overtaken' \in SUBSET Batch,
         leaving' \subseteq Batch \X (Table \cup {NoTable}),
         Entries',
         unchecked \subseteq unchecked', slow' = slow \/ slow'[1] # "load"
  PROVE  LoadInv' /\ TablesGiven
<1>1. LoadType'
  BY DEF LoadInv, LoadType
<1>2. \A e \in Etl : (Fills(e)' <=> Fills(e)) /\ etl'[e] = etl[e]
  BY DEF Fills
<1> QED BY <1>1, <1>2, RowsOnly

LEMMA NewBatchStep == LoadInv /\ NewBatchRequest => LoadInv' /\ TablesGiven
<1> SUFFICES ASSUME LoadInv, NewBatchRequest PROVE LoadInv' /\ TablesGiven
  OBVIOUS
<1>1. UNCHANGED apart /\ unchecked \subseteq unchecked' /\ (slow' = slow \/ slow'[1] # "load")
  BY EtlFrame, SlowFrame, UnwatchedSlow DEF BatchRequest
<1>2. CASE UNCHANGED data
  BY <1>1, <1>2, NothingOfLoads DEF data
<1>3. LoadType
  BY DEF LoadInv
<1>4. PICK s \in Signed, b \in New(batch), e \in There(etl) \cup {NoEtl}, t \in Table, active \in BOOLEAN :
        CreateBatchJob(s, b, e, t, active)
  BY DEF NewBatchRequest
<1> DEFINE row == [at |-> "there", etl |-> e, target |-> t, active |-> active,
                   todo |-> IF e = NoEtl THEN "register" ELSE "schedule"]
<1>5. CASE /\ batch[b].at = "new" /\ batch' = [batch EXCEPT ![b] = row]
           /\ UNCHANGED <<registry, scheduled, listing, leaving, overtaken>> /\ BatchOnly
  <2>1. b \in Batch /\ e \in Etl \cup {NoEtl}
    BY <1>3 DEF LoadType, New, There
  <2>2. row \in BatchJob /\ row.at = "there"
    BY <2>1 DEF BatchJob
  <2> HIDE DEF row
  <2>3. /\ batch' \in [Batch -> BatchJob] /\ batch'[b].at = "there"
        /\ \A c \in Batch \ {b} : batch'[c] = batch[c]
    BY <1>3, <1>5, <2>1, <2>2 DEF LoadType
  <2>4. \A v \in Table : registry[v] # b
    BY <1>5, <2>1 DEF LoadInv, Entries
  <2>5. Entries'
    <3>1. \A c \in Batch : Leaving(c)' <=> Leaving(c)
      BY <1>5 DEF Leaving
    <3>2. \A c \in Batch \ {b} : InHand(c)' <=> InHand(c)
      BY <1>5, <2>3 DEF InHand
    <3> QED BY <1>5, <2>3, <2>4, <3>1, <3>2 DEF LoadInv, Entries
  <2>6. UNCHANGED <<tables, conn, etl, load, deleting>>
    BY <1>5 DEF BatchOnly
  <2>7. /\ registry' \in [Table -> Batch \cup {NoBatch}] /\ scheduled' \in SUBSET Batch
        /\ listing' \in SUBSET Batch /\ overtaken' \in SUBSET Batch
        /\ leaving' \subseteq Batch \X (Table \cup {NoTable})
    BY <1>3, <1>5 DEF LoadType
  <2> QED BY <1>1, <2>3, <2>5, <2>6, <2>7, BatchesOnly
<1>6. CreateBatchJob(s, b, e, t, active) =>
        \/ UNCHANGED data
        \/ /\ batch[b].at = "new" /\ batch' = [batch EXCEPT ![b] = row]
           /\ UNCHANGED <<registry, scheduled, listing, leaving, overtaken>> /\ BatchOnly
  BY DEF CreateBatchJob, Request
<1> QED BY <1>2, <1>4, <1>5, <1>6

(* A batch that is cleared is on its way.                                   *)
LEMMA ClearedStep ==
  ASSUME LoadInv, NEW b \in Batch, NEW t \in Table \cup {NoTable},
         \A v \in Table : registry'[v] = NoBatch \/ (registry'[v] = registry[v] /\ registry[v] # b),
         registry' \in [Table -> Batch \cup {NoBatch}],
         scheduled' = scheduled \ {b}, leaving' = leaving \cup {<<b, t>>},
         UNCHANGED <<batch, listing, overtaken>>, BatchOnly,
         UNCHANGED apart, unchecked \subseteq unchecked', slow' = slow \/ slow'[1] # "load"
  PROVE  LoadInv' /\ TablesGiven
<1>1. LoadType
  BY DEF LoadInv
<1>2. /\ batch' \in [Batch -> BatchJob] /\ scheduled' \in SUBSET Batch
      /\ listing' \in SUBSET Batch /\ overtaken' \in SUBSET Batch
      /\ leaving' \subseteq Batch \X (Table \cup {NoTable})
  BY <1>1 DEF LoadType
<1>3. Entries'
  <2>1. \A c \in Batch \ {b} : Leaving(c)' <=> Leaving(c)
    BY DEF Leaving
  <2>2. \A c \in Batch : InHand(c)' <=> InHand(c)
    BY DEF InHand
  <2>3. \A v \in Table, c \in Batch : registry'[v] = c => registry[v] = c /\ c # b
    BY DeskAssumption
  <2> QED BY <2>1, <2>2, <2>3 DEF LoadInv, Entries
<1>4. UNCHANGED <<tables, conn, etl, load, deleting>>
  BY DEF BatchOnly
<1> QED BY <1>2, <1>3, <1>4, BatchesOnly

LEMMA EndOfBatchStep == LoadInv /\ (EndOfBatchRequest \/ EndOfTargetRequest) => LoadInv' /\ TablesGiven
<1> SUFFICES ASSUME LoadInv, EndOfBatchRequest \/ EndOfTargetRequest PROVE LoadInv' /\ TablesGiven
  OBVIOUS
<1>1. UNCHANGED apart /\ unchecked \subseteq unchecked' /\ (slow' = slow \/ slow'[1] # "load")
  BY EtlFrame, SlowFrame, UnwatchedSlow DEF BatchRequest
<1>2. CASE UNCHANGED data
  BY <1>1, <1>2, NothingOfLoads DEF data
<1>3. registry \in [Table -> Batch \cup {NoBatch}]
  BY DEF LoadInv, LoadType
<1>4. ASSUME NEW s, NEW b \in Batch, DeleteBatchJob(s, b) PROVE LoadInv' /\ TablesGiven
  <2>1. CASE /\ scheduled' = scheduled \ {b} /\ registry' = Cleared(b)
             /\ leaving' = leaving \cup {<<b, NoTable>>}
             /\ UNCHANGED <<batch, listing, overtaken>> /\ BatchOnly
    <3>1. /\ registry' \in [Table -> Batch \cup {NoBatch}]
          /\ \A v \in Table : registry'[v] = NoBatch \/ (registry'[v] = registry[v] /\ registry[v] # b)
      BY <1>3, <2>1 DEF Cleared
    <3> QED BY <1>1, <2>1, <3>1, ClearedStep
  <2>2. \/ UNCHANGED data
        \/ /\ scheduled' = scheduled \ {b} /\ registry' = Cleared(b)
           /\ leaving' = leaving \cup {<<b, NoTable>>}
           /\ UNCHANGED <<batch, listing, overtaken>> /\ BatchOnly
    BY <1>4 DEF DeleteBatchJob, Request
  <2> QED BY <1>2, <2>1, <2>2
<1>5. ASSUME NEW s, NEW t \in Table, NEW b \in Batch, DeleteTargetAndDrop(s, t, b) PROVE LoadInv' /\ TablesGiven
  <2>1. CASE /\ scheduled' = scheduled \ {b} /\ registry' = [Cleared(b) EXCEPT ![t] = NoBatch]
             /\ leaving' = leaving \cup {<<b, t>>}
             /\ UNCHANGED <<batch, listing, overtaken>> /\ BatchOnly
    <3>1. /\ registry' \in [Table -> Batch \cup {NoBatch}]
          /\ \A v \in Table : registry'[v] = NoBatch \/ (registry'[v] = registry[v] /\ registry[v] # b)
      BY <1>3, <2>1 DEF Cleared
    <3> QED BY <1>1, <2>1, <3>1, ClearedStep
  <2>2. \/ UNCHANGED data
        \/ /\ scheduled' = scheduled \ {b} /\ registry' = [Cleared(b) EXCEPT ![t] = NoBatch]
           /\ leaving' = leaving \cup {<<b, t>>}
           /\ UNCHANGED <<batch, listing, overtaken>> /\ BatchOnly
    BY <1>5 DEF DeleteTargetAndDrop, Request
  <2> QED BY <1>2, <2>1, <2>2
<1> QED BY <1>4, <1>5 DEF EndOfBatchRequest, EndOfTargetRequest

(* What follows a request.                                                  *)
LEMMA DeletedBatchStep ==
  ASSUME LoadInv, NEW b, NEW t, NEW deleted \in BOOLEAN, NEW drop \in BOOLEAN, DeletedBatchJob(b, t, deleted, drop)
  PROVE  LoadInv' /\ TablesGiven
<1>1. /\ <<b, t>> \in leaving /\ leaving' = leaving \ {<<b, t>>}
      /\ IF deleted
         THEN /\ batch' = [batch EXCEPT ![b].at = "gone", ![b].etl = NoEtl]
              /\ overtaken' = IF InHand(b) THEN overtaken \cup {b} ELSE overtaken
         ELSE UNCHANGED <<batch, overtaken>>
      /\ IF t # NoTable /\ drop
         THEN /\ table' = [table EXCEPT ![t] = NotMade]
              /\ gone' = gone \cup {t} /\ dropped' = dropped \cup {t}
         ELSE UNCHANGED <<table, gone, dropped>>
      /\ UNCHANGED <<project, master, map, replaced, conn, etl, load, deleting, registry, scheduled, listing>>
      /\ UNCHANGED <<apart, unchecked, slow>>
  BY DEF DeletedBatchJob, Quietly
<1>2. LoadType /\ TableType
  BY DEF LoadInv
<1>3. b \in Batch /\ t \in Table \cup {NoTable} /\ Leaving(b)
  BY <1>1, <1>2 DEF LoadType, Leaving
<1>4. /\ batch' \in [Batch -> BatchJob] /\ \A c \in Batch \ {b} : batch'[c] = batch[c]
      /\ batch'[b].target = batch[b].target /\ batch'[b].todo = batch[b].todo
      /\ batch'[b].at = "gone" \/ batch'[b].at = batch[b].at
      /\ overtaken \subseteq overtaken' /\ overtaken' \subseteq Batch
      /\ batch'[b].at = batch[b].at \/ (InHand(b) => b \in overtaken')
  <2>1. CASE deleted
    <3> DEFINE row == [batch[b] EXCEPT !.at = "gone", !.etl = NoEtl]
    <3>1. batch[b] \in BatchJob
      BY <1>2, <1>3 DEF LoadType
    <3>2. row \in BatchJob /\ row.at = "gone" /\ row.target = batch[b].target /\ row.todo = batch[b].todo
      BY <3>1, BatchType, BatchFields
    <3>3. batch' = [batch EXCEPT ![b] = row]
      BY <1>1, <1>2, <1>3, <2>1 DEF LoadType
    <3>4. overtaken' = IF InHand(b) THEN overtaken \cup {b} ELSE overtaken
      BY <1>1, <2>1
    <3> HIDE DEF row
    <3> QED BY <1>2, <1>3, <3>2, <3>3, <3>4 DEF LoadType
  <2>2. CASE ~deleted
    BY <1>1, <1>2, <1>3, <2>2 DEF LoadType
  <2> QED BY <2>1, <2>2
<1>5. \/ UNCHANGED <<table, gone, dropped>>
      \/ /\ t \in Table /\ table' = [table EXCEPT ![t] = NotMade]
         /\ gone' = gone \cup {t} /\ dropped' = dropped \cup {t}
  BY <1>1, <1>3
<1>6. /\ table' \in [Table -> Made] /\ gone \subseteq gone' /\ dropped \subseteq dropped'
      /\ gone' \subseteq Table /\ dropped' \subseteq Table
      /\ \A v \in Table : table'[v] = table[v] \/ (table'[v] = NotMade /\ v \in gone' /\ v \in dropped')
  BY <1>2, <1>5 DEF TableType, Made
<1>7. LoadType' /\ TableType'
  <2>1. leaving' \subseteq Batch \X (Table \cup {NoTable})
    BY <1>1, <1>2 DEF LoadType
  <2> QED BY <1>1, <1>2, <1>4, <1>6, <2>1 DEF LoadType, TableType
<1>8. Entries'
  <2>1. \A c \in Batch : Leaving(c)' => Leaving(c)
    BY <1>1 DEF Leaving
  <2>2. \A c \in Batch : InHand(c)' => InHand(c)
    BY <1>1, <1>4 DEF InHand
  <2>3. ASSUME NEW v \in Table, NEW c \in Batch, registry'[v] = c
        PROVE  batch'[c].at # "new" /\ batch'[c].target = v /\ (c \in overtaken' \/ (batch'[c].at = "there" /\ ~Leaving(c)'))
    <3>1. /\ batch[c].at # "new" /\ batch[c].target = v
          /\ c \in overtaken \/ (batch[c].at = "there" /\ ~Leaving(c))
      BY <1>1, <2>3 DEF LoadInv, Entries
    <3>2. CASE c = b
      BY <1>3, <1>4, <3>1, <3>2
    <3>3. CASE c # b
      BY <1>4, <2>1, <3>1, <3>3
    <3> QED BY <3>2, <3>3
  <2>4. ASSUME NEW c \in Batch, InHand(c)'
        PROVE  batch'[c].at # "new" /\ (batch'[c].at = "there" \/ c \in overtaken')
    <3>1. InHand(c) /\ batch[c].at # "new" /\ (batch[c].at = "there" \/ c \in overtaken)
      BY <2>2, <2>4 DEF LoadInv, Entries
    <3>2. CASE batch'[c].at = batch[c].at
      BY <1>4, <3>1, <3>2
    <3>3. CASE batch'[c].at # batch[c].at
      <4>1. c = b /\ batch'[b].at = "gone" /\ (InHand(b) => b \in overtaken')
        BY <1>4, <3>3
      <4> QED BY <3>1, <4>1
    <3> QED BY <3>2, <3>3
  <2> QED BY <2>3, <2>4 DEF Entries
<1>9. \A e \in Etl : (Dropping(e)' <=> Dropping(e)) /\ (Loading(e)' <=> Loading(e)) /\ (Fills(e)' <=> Fills(e))
  BY <1>1 DEF Dropping, Loading, Fills
<1>10. Targets' /\ Deleted'
  BY <1>1, <1>6, <1>9 DEF LoadInv, Targets, Deleted
<1>11. MastersExist'
  BY <1>1, <1>2, <1>6, <1>9 DEF LoadInv, MastersExist, TableType
<1>12. Filled'
  BY <1>1, <1>6, <1>9, FilledKept DEF LoadInv
<1>13. TablesGiven
  BY <1>1, <1>6 DEF TablesGiven
<1> QED BY <1>7, <1>8, <1>10, <1>11, <1>12, <1>13 DEF LoadInv

LEMMA DeletedRowsStep == ASSUME LoadInv, NEW e \in Etl, DeletedEtlTable(e) PROVE LoadInv' /\ TablesGiven
<1> DEFINE t == etl[e].target
<1>1. /\ Dropping(e) /\ deleting' = Nothing
      /\ master' = (IF deleting[4] THEN master \ {t} ELSE master)
      /\ Forget(e, deleting[3])
      /\ UNCHANGED <<project, table, map, gone, dropped, replaced, conn, load, scheduled, apart, unchecked, slow>>
  BY DEF DeletedEtlTable, Quietly, Dropping
<1>2. LoadType /\ TableType
  BY DEF LoadInv
<1>3. deleting[3] \in SUBSET Batch
  BY <1>1, <1>2 DEF LoadType, Dropping, Nothing
<1>4. /\ etl' \in [Etl -> Registration] /\ batch' \in [Batch -> BatchJob]
      /\ registry' \in [Table -> Batch \cup {NoBatch}] /\ overtaken' \subseteq Batch
      /\ UNCHANGED <<listing, leaving>>
      /\ Entries'
      /\ \A f \in Etl : f # e => etl'[f] = etl[f]
      /\ etl'[e].at = "gone" /\ etl'[e].target = etl[e].target
  BY <1>1, <1>2, <1>3, ForgetRows DEF LoadInv
<1>5. LoadType' /\ TableType'
  BY <1>1, <1>2, <1>4 DEF LoadType, TableType
<1>6. \A f \in Etl : ~Dropping(f)'
  BY <1>1 DEF Dropping, Nothing
<1>7. \A f \in Etl : Dropping(f) => f = e
  BY <1>1 DEF Dropping
<1>8. etl[e].target \in Table /\ t \in gone /\ (deleting[4] => \A p \in Project : map[p][t] = {})
  BY <1>1 DEF LoadInv, Deleted, Targets
<1> HIDE DEF t
<1>9. Targets' /\ Deleted'
  <2>1. \A f \in Etl : etl[f].at # "new" => etl'[f].at # "new"
    BY <1>4
  <2>2. \A f \in Etl : etl'[f].at # "new" => etl'[f].target \in Table
    BY <1>4, <1>8 DEF LoadInv, Targets
  <2> QED BY <1>1, <1>6, <2>1, <2>2 DEF LoadInv, Targets, Deleted
<1>10. MastersExist'
  <2>1. \A p \in Project, v \in Table : map'[p][v] # {} => v \in master'
    BY <1>1, <1>8 DEF LoadInv, MastersExist
  <2>2. ASSUME NEW v \in master' \ dropped', table'[v] = NotMade PROVE FALSE
    <3>1. v \in master \ dropped /\ (deleting[4] => v # t)
      BY <1>1, <1>8, <2>2
    <3>2. PICK f \in Etl : Dropping(f) /\ etl[f].target = v /\ deleting[4]
      BY <1>1, <2>2, <3>1 DEF LoadInv, MastersExist
    <3> QED BY <1>7, <3>1, <3>2 DEF t
  <2> QED BY <2>1, <2>2 DEF MastersExist
<1>11. Filled'
  <2>1. \A f \in Etl : Loading(f)' => Loading(f) /\ etl'[f].target = etl[f].target
    BY <1>1, <1>4 DEF Loading
  <2>2. \A f \in Etl : Fills(f)' => Fills(f) /\ etl'[f].target = etl[f].target /\ ~Dropping(f)
    BY <1>1, <1>4, <1>7 DEF Fills
  <2> QED BY <1>1, <2>1, <2>2, FilledKept DEF LoadInv
<1>12. TablesGiven
  BY <1>1, <1>8 DEF TablesGiven
<1> QED BY <1>4, <1>5, <1>9, <1>10, <1>11, <1>12 DEF LoadInv

LEMMA DisconnectedStep == ASSUME LoadInv, NEW c \in Conn, DeletedConnection(c) PROVE LoadInv' /\ TablesGiven
<1>1. /\ deleting = <<"conn", c>> /\ deleting' = Nothing
      /\ conn' = [conn EXCEPT ![c].at = "gone"]
      /\ etl' = [e \in Etl |-> IF e \in Through(c) THEN [etl[e] EXCEPT !.at = "gone"] ELSE etl[e]]
      /\ batch' = [b \in Batch |-> IF batch[b].etl \in Through(c) THEN [batch[b] EXCEPT !.etl = NoEtl] ELSE batch[b]]
      /\ UNCHANGED <<tables, load, registry, scheduled, listing, leaving, overtaken, apart, unchecked, slow>>
  BY DEF DeletedConnection, Quietly
<1>2. LoadType
  BY DEF LoadInv
<1>3. conn' \in [Conn -> Source]
  BY <1>1, <1>2 DEF LoadType, Source
<1>4. /\ etl' \in [Etl -> Registration]
      /\ \A e \in Etl : etl'[e] = etl[e] \/ etl'[e] = [etl[e] EXCEPT !.at = "gone"]
  BY <1>1, <1>2, RegistrationType DEF LoadType
<1>5. \A e \in Etl : /\ etl[e].at # "new" => etl'[e].at # "new" /\ etl'[e].target = etl[e].target
                     /\ etl[e].at = "new" /\ etl'[e].at # "new" => etl'[e].target \in Table
                     /\ Fills(e)' => Fills(e)
  <2> SUFFICES ASSUME NEW e \in Etl
               PROVE  /\ etl[e].at # "new" => etl'[e].at # "new" /\ etl'[e].target = etl[e].target
                      /\ etl[e].at = "new" => etl'[e].at = "new"
                      /\ etl'[e].at = "there" => etl'[e] = etl[e]
    BY <1>1, <1>2, <1>4 DEF Fills
  <2>1. CASE etl'[e] = etl[e]
    BY <2>1
  <2>2. CASE e \in Through(c)
    <3>1. etl'[e] = [etl[e] EXCEPT !.at = "gone"] /\ etl[e].at = "there" /\ etl[e] \in Registration
      BY <1>1, <1>2, <2>2 DEF Through, There, LoadType
    <3> QED BY <3>1 DEF Registration
  <2> QED BY <1>1, <2>1, <2>2
<1>6. \A b \in Batch : /\ batch'[b] \in BatchJob /\ batch'[b].at = batch[b].at
                       /\ batch'[b].target = batch[b].target /\ batch'[b].todo = batch[b].todo
  <2> SUFFICES ASSUME NEW b \in Batch
               PROVE  /\ batch'[b] \in BatchJob /\ batch'[b].at = batch[b].at
                      /\ batch'[b].target = batch[b].target /\ batch'[b].todo = batch[b].todo
    OBVIOUS
  <2>1. batch[b] \in BatchJob
    BY <1>2 DEF LoadType
  <2>2. batch'[b] = batch[b] \/ batch'[b] = [batch[b] EXCEPT !.etl = NoEtl]
    BY <1>1
  <2>3. CASE batch'[b] = batch[b]
    BY <2>1, <2>3
  <2>4. CASE batch'[b] = [batch[b] EXCEPT !.etl = NoEtl]
    BY <2>1, <2>4, BatchType, BatchFields
  <2> QED BY <2>2, <2>3, <2>4
<1>7. batch' \in [Batch -> BatchJob]
  BY <1>1, <1>6
<1>8. LoadType'
  BY <1>1, <1>2, <1>3, <1>4, <1>7 DEF LoadType
<1>9. Entries'
  <2>1. \A b \in Batch : (Leaving(b)' <=> Leaving(b)) /\ (InHand(b)' <=> InHand(b))
    BY <1>1, <1>6 DEF Leaving, InHand
  <2> QED BY <1>1, <1>6, <2>1 DEF LoadInv, Entries
<1>10. \A e \in Etl : ~Dropping(e)' /\ ~Dropping(e)
  BY <1>1 DEF Dropping, Nothing
<1>11. UNCHANGED <<tables, load, apart, unchecked, slow>>
  BY <1>1
<1> QED BY <1>5, <1>8, <1>9, <1>10, <1>11, RowsOnly

LEMMA FailedStep == ASSUME LoadInv, DeletionFails PROVE LoadInv' /\ TablesGiven
<1>1. /\ deleting # Nothing /\ deleting' = Nothing
      /\ dropped' = dropped \cup (IF deleting[1] = "etl" THEN {etl[deleting[2]].target} ELSE {})
      /\ UNCHANGED <<project, table, master, map, gone, replaced, conn, etl, load, batches, apart, unchecked, slow>>
  BY DEF DeletionFails, Quietly
<1>2. LoadType /\ TableType
  BY DEF LoadInv
<1>3. deleting[1] = "etl" => deleting[2] \in Etl
  BY <1>2 DEF LoadType, Nothing
<1>4. dropped \subseteq dropped' /\ \A e \in Etl : Dropping(e) => etl[e].target \in dropped'
  BY <1>1 DEF Dropping
<1>5. dropped' \in SUBSET Table
  BY <1>1, <1>2, <1>3 DEF LoadInv, Deleted, Dropping, TableType
<1>6. \A e \in Etl : ~Dropping(e)'
  BY <1>1 DEF Dropping, Nothing
<1>7. UNCHANGED <<batch, registry, scheduled, listing, leaving, overtaken>>
  BY <1>1 DEF batches
<1>8. LoadType' /\ TableType' /\ Entries'
  BY <1>1, <1>2, <1>5, <1>7, EntriesSame DEF LoadInv, LoadType, TableType
<1>9. Targets' /\ Deleted'
  BY <1>1, <1>6 DEF LoadInv, Targets, Deleted
<1>10. MastersExist'
  BY <1>1, <1>4 DEF LoadInv, MastersExist
<1>11. Filled'
  <2>1. \A e \in Etl : (Loading(e)' <=> Loading(e)) /\ (Fills(e)' <=> Fills(e))
    BY <1>1 DEF Loading, Fills
  <2> QED BY <1>1, <1>4, <2>1, FilledKept DEF LoadInv
<1>12. TablesGiven
  BY <1>1, <1>4 DEF TablesGiven
<1> QED BY <1>8, <1>9, <1>10, <1>11, <1>12 DEF LoadInv

(* A batch whose entry is in hand may be entered, and is overtaken when it  *)
(* is on its way.                                                           *)
LEMMA EnteredEntries ==
  ASSUME LoadType, Entries, NEW b \in Batch, NEW written \in BOOLEAN, InHand(b), Entered(b, written),
         \A c \in Batch : /\ batch'[c].at = batch[c].at /\ batch'[c].target = batch[c].target
                          /\ InHand(c)' => InHand(c)
  PROVE  /\ registry' \in [Table -> Batch \cup {NoBatch}] /\ overtaken' \in SUBSET Batch
         /\ UNCHANGED leaving /\ Entries'
<1>1. /\ registry' = (IF written THEN [registry EXCEPT ![batch[b].target] = b] ELSE registry)
      /\ overtaken' = (IF Leaving(b) THEN overtaken \cup {b} ELSE overtaken)
      /\ UNCHANGED leaving
  BY DEF Entered
<1>2. registry' \in [Table -> Batch \cup {NoBatch}] /\ overtaken' \in SUBSET Batch
  BY <1>1 DEF LoadType
<1>3. \A t \in Table : registry'[t] = registry[t] \/ (registry'[t] = b /\ t = batch[b].target)
  BY <1>1 DEF LoadType
<1>4. \A c \in Batch : Leaving(c)' <=> Leaving(c)
  BY <1>1 DEF Leaving
<1>5. overtaken \subseteq overtaken' /\ (Leaving(b) => b \in overtaken')
  BY <1>1
<1>6. batch[b].at # "new" /\ (batch[b].at = "there" \/ b \in overtaken)
  BY DEF Entries
<1>7. Entries'
  <2>1. ASSUME NEW t \in Table, NEW c \in Batch, registry'[t] = c
        PROVE  /\ batch'[c].at # "new" /\ batch'[c].target = t
               /\ c \in overtaken' \/ (batch'[c].at = "there" /\ ~Leaving(c)')
    <3>1. CASE registry[t] = c
      BY <1>4, <1>5, <3>1 DEF Entries
    <3>2. CASE c = b /\ t = batch[b].target
      BY <1>4, <1>5, <1>6, <3>2
    <3> QED BY <1>3, <2>1, <3>1, <3>2
  <2>2. ASSUME NEW c \in Batch, InHand(c)'
        PROVE  batch'[c].at # "new" /\ (batch'[c].at = "there" \/ c \in overtaken')
    BY <1>5, <2>2 DEF Entries
  <2> QED BY <2>1, <2>2 DEF Entries
<1> QED BY <1>1, <1>2, <1>7

LEMMA TodoStep ==
  ASSUME LoadType, NEW b \in Batch, NEW d \in {"schedule", "done"}, batch' = [batch EXCEPT ![b].todo = d],
         UNCHANGED listing
  PROVE  /\ batch' \in [Batch -> BatchJob]
         /\ \A c \in Batch : /\ batch'[c].at = batch[c].at /\ batch'[c].target = batch[c].target
                             /\ InHand(c)' => InHand(c)
<1>1. batch \in [Batch -> BatchJob] /\ batch[b] \in BatchJob
  BY DEF LoadType
<1> DEFINE row == [batch[b] EXCEPT !.todo = d]
<1>2. row \in BatchJob /\ row.at = batch[b].at /\ row.target = batch[b].target /\ row.todo = d
  BY <1>1, BatchType, BatchFields
<1>3. batch' = [batch EXCEPT ![b] = row]
  BY <1>1
<1> HIDE DEF row
<1>4. batch' \in [Batch -> BatchJob] /\ batch'[b] = row /\ \A c \in Batch \ {b} : batch'[c] = batch[c]
  BY <1>1, <1>2, <1>3
<1>5. \A c \in Batch : batch'[c].at = batch[c].at /\ batch'[c].target = batch[c].target
  BY <1>2, <1>4
<1>6. \A c \in Batch : InHand(c)' => InHand(c)
  BY <1>2, <1>4 DEF InHand
<1> QED BY <1>4, <1>5, <1>6

LEMMA EnteredStep ==
  ASSUME LoadInv, NEW b \in Batch,
         ScheduleBatch(b) \/ \E written \in BOOLEAN : RegisterTarget(b, written) \/ EnterListed(b, written)
  PROVE  LoadInv' /\ TablesGiven
<1>1. LoadType /\ Entries
  BY DEF LoadInv
<1>2. /\ registry \in [Table -> Batch \cup {NoBatch}] /\ scheduled \in SUBSET Batch
      /\ listing \in SUBSET Batch /\ overtaken \in SUBSET Batch /\ batch \in [Batch -> BatchJob]
      /\ leaving \subseteq Batch \X (Table \cup {NoTable})
  BY <1>1 DEF LoadType
<1>3. CASE ScheduleBatch(b)
  <2>1. /\ scheduled' = (IF batch[b].at = "there" /\ batch[b].active THEN scheduled \cup {b} ELSE scheduled)
        /\ batch' = [batch EXCEPT ![b].todo = "done"]
        /\ UNCHANGED <<registry, listing, leaving, overtaken, tables, apart, conn, etl, load, deleting, unchecked, slow>>
    BY <1>3 DEF ScheduleBatch, Quietly, BatchOnly
  <2>2. /\ batch' \in [Batch -> BatchJob]
        /\ \A c \in Batch : /\ batch'[c].at = batch[c].at /\ batch'[c].target = batch[c].target
                            /\ InHand(c)' => InHand(c)
    BY <1>1, <2>1, TodoStep
  <2>3. Entries'
    <3>1. \A c \in Batch : Leaving(c)' <=> Leaving(c)
      BY <2>1 DEF Leaving
    <3> QED BY <1>1, <2>1, <2>2, <3>1 DEF Entries
  <2>4. scheduled' \in SUBSET Batch
    BY <1>2, <2>1
  <2> QED BY <1>2, <2>1, <2>2, <2>3, <2>4, BatchesOnly
<1>4. ASSUME NEW written \in BOOLEAN, RegisterTarget(b, written) PROVE LoadInv' /\ TablesGiven
  <2>1. /\ batch[b].todo = "register" /\ Entered(b, written)
        /\ batch' = [batch EXCEPT ![b].todo = "schedule"]
        /\ UNCHANGED <<scheduled, listing, tables, apart, conn, etl, load, deleting, unchecked, slow>>
    BY <1>4 DEF RegisterTarget, Quietly, BatchOnly
  <2>2. /\ batch' \in [Batch -> BatchJob]
        /\ \A c \in Batch : /\ batch'[c].at = batch[c].at /\ batch'[c].target = batch[c].target
                            /\ InHand(c)' => InHand(c)
    BY <1>1, <2>1, TodoStep
  <2>3. InHand(b)
    BY <2>1 DEF InHand
  <2>4. /\ registry' \in [Table -> Batch \cup {NoBatch}] /\ overtaken' \in SUBSET Batch
        /\ UNCHANGED leaving /\ Entries'
    BY <1>1, <2>1, <2>2, <2>3, EnteredEntries
  <2> QED BY <1>2, <2>1, <2>2, <2>4, BatchesOnly
<1>5. ASSUME NEW written \in BOOLEAN, EnterListed(b, written) PROVE LoadInv' /\ TablesGiven
  <2>1. /\ b \in listing /\ listing' = listing \ {b} /\ Entered(b, written)
        /\ UNCHANGED <<batch, scheduled, tables, apart, conn, etl, load, deleting, unchecked, slow>>
    BY <1>5 DEF EnterListed, Quietly, BatchOnly
  <2>2. InHand(b) /\ \A c \in Batch : InHand(c)' => InHand(c)
    BY <2>1 DEF InHand
  <2>3. /\ registry' \in [Table -> Batch \cup {NoBatch}] /\ overtaken' \in SUBSET Batch
        /\ UNCHANGED leaving /\ Entries'
    BY <1>1, <2>1, <2>2, EnteredEntries
  <2>4. listing' \in SUBSET Batch
    BY <1>2, <2>1
  <2> QED BY <1>2, <2>1, <2>3, <2>4, BatchesOnly
<1> QED BY <1>3, <1>4, <1>5

(* What a GET of the list has read was there.                               *)
LEMMA ReadStep == ASSUME LoadInv, NEW s, ReadBatches(s) PROVE LoadInv' /\ TablesGiven
<1>1. /\ listing = {} /\ listing' = {b \in There(batch) : batch[b].etl = NoEtl /\ batch[b].target \in Table}
      /\ UNCHANGED <<batch, registry, scheduled, leaving, overtaken, tables, apart, conn, etl, load, deleting, unchecked, slow>>
  BY DEF ReadBatches, Quietly, BatchOnly
<1>2. /\ registry \in [Table -> Batch \cup {NoBatch}] /\ scheduled \in SUBSET Batch
      /\ overtaken \in SUBSET Batch /\ batch \in [Batch -> BatchJob]
      /\ leaving \subseteq Batch \X (Table \cup {NoTable})
  BY DEF LoadInv, LoadType
<1>3. listing' \in SUBSET Batch /\ \A b \in listing' : batch[b].at = "there"
  BY <1>1, <1>2 DEF There
<1>4. Entries'
  <2>1. \A b \in Batch : (Leaving(b)' <=> Leaving(b)) /\ (InHand(b)' => InHand(b) \/ b \in listing')
    BY <1>1 DEF Leaving, InHand
  <2> QED BY <1>1, <1>3, <2>1 DEF LoadInv, Entries
<1> QED BY <1>1, <1>2, <1>3, <1>4, BatchesOnly

LEMMA LoadsStep ==
  LoadInv /\ (EtlRequest \/ Load \/ BatchRequest \/ Following) => LoadInv' /\ TablesGiven
BY ConnectionStep, RegistrationStep, DeletionStep, LoadStep, NewBatchStep, EndOfBatchStep, DeletedBatchStep,
  DeletedRowsStep, DisconnectedStep, FailedStep, EnteredStep, ReadStep DEF EtlRequest, BatchRequest, Following

-----------------------------------------------------------------------------
(* The save workers.  A row that a worker holds is the worker's alone, and  *)
(* the worker knows whether there is a table of it, unless the end of a     *)
(* statement was lost.                                                      *)
Holding(w) == worker[w].pc # "idle"
HasTable(w) == worker[w].pc \in {"made", "noted", "registered", "orphan"}
HasNone(w) == worker[w].pc \in {"claimed", "failing"}

Requeued == slow[1] = "requeue" => slow[3] \in Job /\ job[slow[3]].status # "new"
Rows ==
  \A j \in Job : /\ job[j].status \in {"new", "queued", "running"} => ~job[j].result
                 /\ job[j].status # "new" => job[j].name \in Table
Holders ==
  /\ \A w \in Worker : Holding(w) =>
       /\ worker[w].job \in Job
       /\ \/ job[worker[w].job].status = "running"
          \/ worker[w].job \in unsure /\ job[worker[w].job].status \in {"completed", "failed"}
  /\ \A v, w \in Worker : Holding(v) /\ Holding(w) /\ worker[v].job = worker[w].job => v = w

(* A table that was dropped may be made again by anybody, and one that a    *)
(* full load put in the place of another is nobody's.                       *)
Lost(t) == t \in gone /\ t \in dropped
Kept(w) ==
  \/ table[Name(w)] = Saved(worker[w].job)
  \/ table[Name(w)] = Loaded /\ Name(w) \in replaced
OwnTables ==
  /\ \A t \in Table, j \in Job :
       table[t] = Saved(j) => job[j].name = t /\ job[j].status \notin {"new", "queued"}
  /\ \A w \in Worker : HasNone(w) /\ worker[w].job \notin unsure =>
       \A t \in Table : table[t] # Saved(worker[w].job)
  /\ \A w \in Worker : HasTable(w) /\ ~Lost(Name(w)) => Kept(w)
  /\ \A w \in Worker : worker[w].pc = "registered" /\ Name(w) \notin gone => Name(w) \in master

(* No two of one name: a second one is made only when the first is lost.    *)
NoTwins ==
  /\ \A v, w \in Worker : HasTable(v) /\ HasTable(w) /\ v # w /\ Name(v) = Name(w) => Lost(Name(w))
  /\ \A w \in Worker, j \in Job \ unsure :
       HasTable(w) /\ job[j].result /\ worker[w].job # j /\ Name(w) = job[j].name => Name(w) \in gone

SaveInv ==
  /\ SaveType /\ Requeued /\ Rows /\ Holders
  /\ OwnTables /\ NoTwins /\ NoOrphans /\ ResultsExist

LEMMA TwinsKept ==
  ASSUME NoTwins, gone \subseteq gone', dropped \subseteq dropped',
         \A w \in Worker : HasTable(w)' => HasTable(w) /\ worker'[w].job = worker[w].job /\ Name(w)' = Name(w),
         \A j \in Job \ unsure' : job'[j].result => j \notin unsure /\ job[j].result /\ job'[j].name = job[j].name
  PROVE  NoTwins'
<1>1. \A v, w \in Worker :
        HasTable(v)' /\ HasTable(w)' /\ v # w /\ Name(v)' = Name(w)' => Name(w)' \in gone' /\ Name(w)' \in dropped'
  BY DEF NoTwins, Lost
<1>2. \A w \in Worker, j \in Job \ unsure' :
        HasTable(w)' /\ job'[j].result /\ worker'[w].job # j /\ Name(w)' = job'[j].name => Name(w)' \in gone'
  BY DEF NoTwins
<1> QED BY <1>1, <1>2 DEF NoTwins, Lost

(* What the others do leaves a worker's tables to it.                       *)
LEMMA TablesGivenSaveInv ==
  ASSUME SaveInv, TableType, TablesGiven, UNCHANGED saving, Requeued'
  PROVE  SaveInv'
<1>1. UNCHANGED <<job, worker, unsure>>
  BY DEF saving
<1>2. SaveType' /\ Rows' /\ Holders'
  BY <1>1 DEF SaveInv, SaveType, Rows, Holders, Holding
<1>3. ASSUME NEW t \in Table, NEW j \in Job, table'[t] = Saved(j) PROVE table[t] = Saved(j)
  BY <1>3, SavedApart DEF TablesGiven
<1>4. ASSUME NEW t \in Table, table[t] # NotMade, t \notin gone' \/ (t \notin dropped' /\ BeingSaved(t))
      PROVE  table'[t] = table[t] \/ (table'[t] = Loaded /\ t \in replaced')
  BY <1>4 DEF TablesGiven
<1>5. ASSUME NEW t \in Table, t \in replaced, table[t] = Loaded, t \notin gone' \/ (t \notin dropped' /\ BeingSaved(t))
      PROVE  table'[t] = Loaded /\ t \in replaced'
  BY <1>5, SavedApart DEF TablesGiven
<1>6. \A w \in Worker : Holding(w) => worker[w].job \in Job /\ Name(w) \in Table /\ BeingSaved(Name(w))
  BY DEF SaveInv, Holders, Rows, Holding, BeingSaved, Name
<1>7. OwnTables'
  <2>1. \A t \in Table, j \in Job :
          table'[t] = Saved(j) => job'[j].name = t /\ job'[j].status \notin {"new", "queued"}
    BY <1>1, <1>3 DEF SaveInv, OwnTables
  <2>2. \A w \in Worker : HasNone(w)' /\ worker'[w].job \notin unsure' =>
          \A t \in Table : table'[t] # Saved(worker'[w].job)
    BY <1>1, <1>3, <1>6 DEF SaveInv, OwnTables, HasNone, Holding
  <2>3. ASSUME NEW w \in Worker, HasTable(w)', ~(Name(w)' \in gone' /\ Name(w)' \in dropped')
        PROVE  \/ table'[Name(w)'] = Saved(worker'[w].job)
               \/ table'[Name(w)'] = Loaded /\ Name(w)' \in replaced'
    <3>1. Name(w)' = Name(w) /\ HasTable(w) /\ Holding(w) /\ worker'[w].job = worker[w].job
      BY <1>1, <2>3 DEF Name, HasTable, Holding
    <3>2. Kept(w) /\ Name(w) \in Table /\ BeingSaved(Name(w)) /\ worker[w].job \in Job
      BY <1>6, <2>3, <3>1 DEF SaveInv, OwnTables, TablesGiven, Lost
    <3> QED BY <1>4, <1>5, <2>3, <3>1, <3>2, SavedApart DEF Kept
  <2>4. ASSUME NEW w \in Worker, worker'[w].pc = "registered", Name(w)' \notin gone'
        PROVE  Name(w)' \in master'
    <3>1. Name(w)' = Name(w) /\ worker[w].pc = "registered"
      BY <1>1, <2>4 DEF Name
    <3> QED BY <2>4, <3>1 DEF SaveInv, OwnTables, TablesGiven
  <2> QED BY <2>1, <2>2, <2>3, <2>4 DEF OwnTables, Lost, Kept
<1>10. NoTwins'
  <2>1. \A w \in Worker : HasTable(w)' => HasTable(w) /\ worker'[w].job = worker[w].job /\ Name(w)' = Name(w)
    BY <1>1 DEF HasTable, Name
  <2> QED BY <1>1, <2>1, TwinsKept DEF SaveInv, TablesGiven
<1>8. NoOrphans'
  BY <1>1, <1>3 DEF SaveInv, NoOrphans
<1>9. ResultsExist'
  <2> SUFFICES ASSUME NEW j \in Job \ unsure, job[j].result, job[j].name \notin gone'
               PROVE  /\ table'[job[j].name] # NotMade /\ job[j].name \in master'
                      /\ job[j].name \notin replaced' => table'[job[j].name] = Saved(j)
    BY <1>1 DEF ResultsExist
  <2>1. /\ job[j].name \notin gone /\ table[job[j].name] # NotMade /\ job[j].name \in master
        /\ job[j].name \notin replaced => table[job[j].name] = Saved(j)
    BY DEF SaveInv, ResultsExist, TablesGiven
  <2>2. job[j].name \in Table
    BY <2>1 DEF TableType
  <2> QED BY <1>4, <2>1, <2>2, SavedApart DEF TablesGiven
<1> QED BY <1>2, <1>7, <1>8, <1>9, <1>10 DEF SaveInv

(* Rows that are new have no table and no holder: a request may fill one,   *)
(* or cancel one that nobody has taken.                                     *)
LEMMA RowStep ==
  ASSUME SaveInv, NEW j \in Job, NEW row \in Save, job' = [job EXCEPT ![j] = row],
         job[j].status \in {"new", "queued"}, row.status \in {"queued", "cancelled"},
         row.name \in Table, ~row.result, UNCHANGED <<worker, unsure, tables>>, Requeued'
  PROVE  SaveInv'
<1>1. UNCHANGED <<worker, unsure, table, master, gone, dropped, replaced>>
  BY DEF tables
<1>2. job' \in [Job -> Save] /\ job'[j] = row /\ \A i \in Job \ {j} : job'[i] = job[i]
  BY DEF SaveInv, SaveType
<1>3. \A t \in Table : table[t] # Saved(j)
  BY DEF SaveInv, OwnTables
<1>4. \A w \in Worker : Holding(w) => worker[w].job \in Job \ {j}
  BY DEF SaveInv, Holders
<1>5. SaveType'
  BY <1>1, <1>2 DEF SaveInv, SaveType
<1>6. Rows'
  <2>1. \A i \in Job : job[i].status # "new" => job'[i].status # "new"
    BY <1>2
  <2> QED BY <1>2, <2>1 DEF SaveInv, Rows
<1>7. Holders'
  BY <1>1, <1>2, <1>4 DEF SaveInv, Holders, Holding
<1>8. \A w \in Worker : Holding(w) => Name(w)' = Name(w)
  BY <1>1, <1>2, <1>4 DEF Name
<1>9. OwnTables'
  BY <1>1, <1>2, <1>3, <1>8 DEF SaveInv, OwnTables, HasNone, HasTable, Holding, Lost, Kept
<1>11. NoTwins'
  <2>1. \A v \in Worker : HasTable(v)' => HasTable(v) /\ worker'[v].job = worker[v].job /\ Name(v)' = Name(v)
    BY <1>1, <1>8 DEF HasTable, Holding
  <2>2. \A i \in Job : job'[i].result => job[i].result /\ job'[i].name = job[i].name
    BY <1>2
  <2> QED BY <1>1, <2>1, <2>2, TwinsKept DEF SaveInv
<1>10. NoOrphans' /\ ResultsExist'
  BY <1>1, <1>2, <1>3 DEF SaveInv, NoOrphans, ResultsExist
<1> QED BY <1>5, <1>6, <1>7, <1>9, <1>10, <1>11 DEF SaveInv

(* The next row is a new one, when there is one.                            *)
LEMMA NextRowNew == Room => NextRow \in Job /\ job[NextRow].status = "new"
<1> SUFFICES ASSUME Room PROVE NextRow \in Job /\ job[NextRow].status = "new"
  OBVIOUS
<1> DEFINE Less == OpToRel(<, Nat)
           T == {j \in Job : job[j].status = "new"}
<1>1. T \subseteq Nat /\ T # {}
  BY DEF Room, Job
<1>2. IsWellFoundedOn(Less, Nat)
  BY NatLessThanWellFounded
<1>3. \A i, j \in Nat : <<i, j>> \in Less <=> i < j
  BY DEF OpToRel
<1> HIDE DEF Less
<1>4. PICK j \in T : \A i \in T : <<i, j>> \notin Less
  BY <1>1, <1>2, WFMin
<1>5. j \in Job /\ job[j].status = "new" /\ \A i \in Job : job[i].status = "new" => j <= i
  <2>1. \A i \in T : ~(i < j)
    BY <1>1, <1>3, <1>4
  <2> QED BY <1>1, <2>1
<1> QED BY <1>5 DEF NextRow

LEMMA RequeuedStays ==
  ASSUME Requeued, slow' = slow \/ slow'[1] # "requeue",
         \A j \in Job : job[j].status # "new" => job'[j].status # "new"
  PROVE  Requeued'
BY DEF Requeued

LEMMA SaveRequestStep == AccessType /\ TableType /\ SaveInv /\ SaveRequest => SaveInv'
<1> SUFFICES ASSUME AccessType, TableType, SaveInv, NEW s \in Signed,
                    \/ \E t \in Table, hints \in BOOLEAN : SaveQueryAsTable(s, t, hints)
                    \/ \E j \in Job : CancelSave(s, j) \/ RequeueSave(s, j)
             PROVE  SaveInv'
  BY DEF SaveRequest
<1>1. session[s].claim \in Project \cup {NoProject}
  BY DEF AccessType, Signed, Login
<1>2. job \in [Job -> Save] /\ Requeued
  BY DEF SaveInv, SaveType
<1>3. ASSUME UNCHANGED data, Requeued' PROVE SaveInv'
  <2>1. UNCHANGED <<project, table, master, map, gone, dropped, replaced, saving>>
    BY <1>3 DEF data, tables
  <2>2. TablesGiven
    BY <2>1 DEF TablesGiven
  <2> QED BY <1>3, <2>1, <2>2, TablesGivenSaveInv
<1>4. ASSUME NEW j \in Job, NEW row \in Save, job' = [job EXCEPT ![j] = row],
             job[j].status \in {"new", "queued"}, row.status \in {"queued", "cancelled"},
             row.name \in Table, ~row.result, UNCHANGED <<worker, unsure>>, QueueOnly,
             slow' = slow \/ slow'[1] # "requeue"
      PROVE  SaveInv'
  <2>1. \A i \in Job : job[i].status # "new" => job'[i].status # "new"
    BY <1>2, <1>4
  <2> QED BY <1>2, <1>4, <2>1, RequeuedStays, RowStep DEF QueueOnly
<1>5. ASSUME NEW t \in Table, NEW hints \in BOOLEAN, SaveQueryAsTable(s, t, hints) PROVE SaveInv'
  <2>1. slow' = slow \/ slow'[1] # "requeue"
    BY <1>5, NothingWatched DEF SaveQueryAsTable, Request, Watched
  <2>2. CASE UNCHANGED data
    BY <1>2, <1>3, <2>1, <2>2, RequeuedStays DEF data, saving
  <2>3. CASE Room /\ job' = [job EXCEPT ![NextRow] = Row(s, t, hints)] /\ UNCHANGED <<worker, unsure>> /\ QueueOnly
    <3>1. Row(s, t, hints) \in Save /\ Row(s, t, hints).name = t /\ ~Row(s, t, hints).result
          /\ Row(s, t, hints).status = "queued"
      BY <1>1 DEF Row, Save
    <3> QED BY <1>4, <2>1, <2>3, <3>1, NextRowNew
  <2> QED BY <1>5, <2>2, <2>3 DEF SaveQueryAsTable, Request
<1>6. ASSUME NEW j \in Job, CancelSave(s, j) PROVE SaveInv'
  <2>1. slow' = slow \/ slow'[1] # "requeue"
    BY <1>6, NothingWatched DEF CancelSave, Request, Watched
  <2>2. CASE UNCHANGED data
    BY <1>2, <1>3, <2>1, <2>2, RequeuedStays DEF data, saving
  <2>3. CASE Cancellable(j) /\ job' = [job EXCEPT ![j].status = "cancelled"] /\ UNCHANGED <<worker, unsure>> /\ QueueOnly
    <3> DEFINE row == [job[j] EXCEPT !.status = "cancelled"]
    <3>1. row \in Save /\ row.name \in Table /\ ~row.result /\ row.status = "cancelled" /\ job[j].status = "queued"
      BY <1>2, <2>3 DEF Save, Cancellable, SaveInv, Rows
    <3>2. job' = [job EXCEPT ![j] = row]
      BY <2>3
    <3> HIDE DEF row
    <3> QED BY <1>4, <2>1, <2>3, <3>1, <3>2
  <2> QED BY <1>6, <2>2, <2>3 DEF CancelSave, Request
<1>7. ASSUME NEW j \in Job, RequeueSave(s, j) PROVE SaveInv'
  <2>1. slow' = slow \/ slow'[1] # "requeue" \/ (slow' = <<"requeue", s, j>> /\ job[j].status # "new" /\ UNCHANGED data)
    BY <1>7, NothingWatched DEF RequeueSave, Request, Watched, OfProject
  <2>2. CASE UNCHANGED data
    <3>1. UNCHANGED job
      BY <2>2 DEF data, saving
    <3>2. Requeued'
      BY <1>2, <2>1, <3>1, RequeuedStays DEF Requeued
    <3> QED BY <1>3, <2>2, <3>2
  <2> DEFINE row == [Row(s, job[j].name, job[j].hints) EXCEPT !.project = job[j].project]
  <2>3. CASE /\ job[j].status # "new" /\ Room /\ job' = [job EXCEPT ![NextRow] = row]
             /\ UNCHANGED <<worker, unsure>> /\ QueueOnly /\ (slow' = slow \/ slow' = Nothing)
    <3>1. row \in Save /\ row.name \in Table /\ ~row.result /\ row.status = "queued"
      <4>1. job[j].name \in Table /\ job[j] \in Save
        BY <1>2, <2>3 DEF SaveInv, Rows
      <4> QED BY <4>1 DEF Row, Save
    <3>2. slow' = slow \/ slow'[1] # "requeue"
      BY <2>3 DEF Nothing
    <3> HIDE DEF row
    <3> QED BY <1>4, <2>3, <3>1, <3>2, NextRowNew
  <2>4. slow = <<"requeue", s, j>> => job[j].status # "new"
    BY <1>2 DEF Requeued
  <2> QED BY <1>7, <2>2, <2>3, <2>4 DEF RequeueSave, Request, OfProject
<1> QED BY <1>5, <1>6, <1>7

-----------------------------------------------------------------------------
(* The steps of a worker.                                                   *)
Idle == [pc |-> "idle", job |-> 0, ok |-> TRUE]

LEMMA HoldingFacts ==
  ASSUME SaveInv, NEW w \in Worker, Holding(w)
  PROVE  /\ worker[w] \in Saver /\ worker[w].job \in Job /\ Name(w) \in Table
         /\ Name(w) = job[worker[w].job].name /\ job[worker[w].job] \in Save
         /\ job[worker[w].job].status \notin {"new", "queued"}
         /\ worker[w].job \notin unsure => job[worker[w].job].status = "running"
         /\ \A v \in Worker \ {w} : Holding(v) => worker[v].job # worker[w].job
<1>1. worker[w] \in Saver /\ worker[w].job \in Job
  BY DEF SaveInv, SaveType, Holders
<1>2. job[worker[w].job] \in Save
  BY <1>1 DEF SaveInv, SaveType
<1> QED BY <1>1, <1>2 DEF SaveInv, Holders, Rows, Name

(* A step that changes nothing but where a worker is.                       *)
LEMMA MoveStep ==
  ASSUME SaveInv, NEW w \in Worker, NEW to \in Saver, Holding(w), worker' = [worker EXCEPT ![w] = to],
         to.pc = "idle" \/ to.job = worker[w].job,
         to.pc \in {"made", "noted", "registered", "orphan"} => HasTable(w),
         to.pc \in {"claimed", "failing"} => HasNone(w) \/ worker[w].job \in unsure',
         to.pc # "registered", unsure \subseteq unsure', unsure' \subseteq Job,
         UNCHANGED <<job, tables, slow>>
  PROVE  SaveInv'
<1>1. UNCHANGED <<job, table, master, gone, dropped, replaced, slow>>
  BY DEF tables
<1>2. worker' \in [Worker -> Saver] /\ worker'[w] = to /\ \A v \in Worker \ {w} : worker'[v] = worker[v]
  BY DEF SaveInv, SaveType
<1>3. SaveType' /\ Requeued' /\ Rows'
  BY <1>1, <1>2 DEF SaveInv, SaveType, Requeued, Rows
<1>4. Holders'
  BY <1>1, <1>2 DEF SaveInv, Holders, Holding
<1>5. \A v \in Worker : worker'[v].pc # "idle" => Name(v)' = Name(v)
  BY <1>1, <1>2 DEF Name
<1>8. \A v \in Worker : HasTable(v)' => HasTable(v) /\ worker'[v].job = worker[v].job /\ Name(v)' = Name(v)
  BY <1>2, <1>5 DEF HasTable
<1>9. NoTwins'
  BY <1>1, <1>8, TwinsKept DEF SaveInv
<1>6. OwnTables'
  <2>2. \A v \in Worker : HasNone(v)' /\ worker'[v].job \notin unsure' =>
                           HasNone(v) /\ worker'[v].job = worker[v].job /\ worker[v].job \notin unsure
    BY <1>2 DEF HasNone
  <2>3. \A v \in Worker : worker'[v].pc = "registered" => worker[v].pc = "registered" /\ Name(v)' = Name(v)
    BY <1>2, <1>5
  <2> QED BY <1>1, <1>8, <2>2, <2>3 DEF SaveInv, OwnTables, Lost, Kept
<1>7. NoOrphans' /\ ResultsExist'
  BY <1>1 DEF SaveInv, NoOrphans, ResultsExist
<1> QED BY <1>3, <1>4, <1>6, <1>7, <1>9 DEF SaveInv

LEMMA ClaimStep == ASSUME SaveInv, NEW w \in Worker, NEW j \in Job, Claim(w, j) PROVE SaveInv'
<1>1. /\ worker[w].pc = "idle" /\ job[j].status = "queued"
      /\ job' = [job EXCEPT ![j].status = "running"]
      /\ worker' = [worker EXCEPT ![w] = [pc |-> "claimed", job |-> j, ok |-> TRUE]]
      /\ UNCHANGED <<unsure, table, master, gone, dropped, replaced, slow>>
  BY DEF Claim, At, Oldest, Quietly, QueueOnly, tables
<1>2. job \in [Job -> Save] /\ worker \in [Worker -> Saver] /\ job[j] \in Save
  BY DEF SaveInv, SaveType
<1>3. /\ job' \in [Job -> Save] /\ \A i \in Job \ {j} : job'[i] = job[i]
      /\ job'[j].status = "running" /\ job'[j].name = job[j].name /\ ~job'[j].result
      /\ job[j].name \in Table
  BY <1>1, <1>2 DEF Save, SaveInv, Rows
<1>4. /\ worker' \in [Worker -> Saver] /\ worker'[w].pc = "claimed" /\ worker'[w].job = j
      /\ \A v \in Worker \ {w} : worker'[v] = worker[v]
  BY <1>1, <1>2 DEF Saver
<1>5. /\ \A t \in Table : table[t] # Saved(j)
      /\ \A v \in Worker : Holding(v) => worker[v].job \in Job \ {j}
  BY <1>1 DEF SaveInv, OwnTables, Holders
<1>6. SaveType' /\ Requeued' /\ Rows'
  BY <1>1, <1>3, <1>4 DEF SaveInv, SaveType, Requeued, Rows
<1>7. Holders'
  BY <1>1, <1>3, <1>4, <1>5 DEF SaveInv, Holders, Holding
<1>8. \A v \in Worker \ {w} : Holding(v) => Name(v)' = Name(v)
  BY <1>3, <1>4, <1>5 DEF Name
<1>9. OwnTables'
  <2>1. \A v \in Worker : HasTable(v)' => v # w /\ HasTable(v) /\ Holding(v) /\ worker'[v] = worker[v]
    BY <1>4 DEF HasTable, Holding
  <2>2. \A v \in Worker \ {w} : HasNone(v)' => HasNone(v) /\ worker'[v] = worker[v]
    BY <1>4 DEF HasNone
  <2>3. \A t \in Table, i \in Job : table[t] = Saved(i) => job'[i] = job[i]
    BY <1>3, <1>5
  <2> QED BY <1>1, <1>4, <1>5, <1>8, <2>1, <2>2, <2>3 DEF SaveInv, OwnTables, Holding, Lost, Kept
<1>10. NoOrphans' /\ ResultsExist'
  BY <1>1, <1>3, <1>5 DEF SaveInv, NoOrphans, ResultsExist
<1>11. NoTwins'
  <2>1. \A v \in Worker : HasTable(v)' => HasTable(v) /\ worker'[v].job = worker[v].job /\ Name(v)' = Name(v)
    BY <1>4, <1>8 DEF HasTable, Holding
  <2>2. \A i \in Job : job'[i].result => job[i].result /\ job'[i].name = job[i].name
    BY <1>3
  <2> QED BY <1>1, <2>1, <2>2, TwinsKept DEF SaveInv
<1> QED BY <1>6, <1>7, <1>9, <1>10, <1>11 DEF SaveInv

LEMMA CreateStep ==
  ASSUME SaveInv, TableType, NEW w \in Worker, NEW told \in BOOLEAN, CreateTable(w, told)
  PROVE  SaveInv'
<1> DEFINE j == worker[w].job
           n == Name(w)
           to == [worker[w] EXCEPT !.pc = IF told THEN "made" ELSE "failing"]
<1>1. /\ worker[w].pc = "claimed" /\ table[n] = NotMade
      /\ table' = [table EXCEPT ![n] = Saved(j)] /\ worker' = [worker EXCEPT ![w] = to]
      /\ unsure' = (IF told THEN unsure ELSE unsure \cup {j})
      /\ UNCHANGED <<job, master, gone, dropped, replaced, slow>>
  BY DEF CreateTable, At, Go, Quietly
<1>2. /\ worker[w] \in Saver /\ j \in Job /\ n \in Table /\ n = job[j].name
      /\ job[j].status \notin {"new", "queued"} /\ (j \notin unsure => job[j].status = "running")
      /\ \A v \in Worker \ {w} : Holding(v) => worker[v].job # j
  BY <1>1, HoldingFacts DEF Holding
<1>3. /\ to \in Saver /\ to.job = j /\ to.pc = IF told THEN "made" ELSE "failing"
  BY <1>2 DEF Saver
<1> HIDE DEF to
<1>4. worker' \in [Worker -> Saver] /\ worker'[w] = to /\ \A v \in Worker \ {w} : worker'[v] = worker[v]
  BY <1>1, <1>3 DEF SaveInv, SaveType
<1>5. \A t \in Table \ {n} : table'[t] = table[t]
  BY <1>1 DEF TableType
<1>6. table'[n] = Saved(j)
  BY <1>1, <1>2 DEF TableType
<1>7. unsure \subseteq unsure' /\ unsure' \subseteq Job /\ (~told => j \in unsure')
  BY <1>1, <1>2 DEF SaveInv, SaveType
<1>8. \A v \in Worker : Name(v)' = Name(v)
  BY <1>1, <1>3, <1>4 DEF Name
<1>14. \A v \in Worker : HasTable(v) /\ Name(v) = n => Lost(n)
  BY <1>1, SavedApart, HoldingFacts DEF SaveInv, OwnTables, Kept, Holding, HasTable
<1>15. \A i \in Job \ unsure : job[i].result /\ job[i].name = n => n \in gone
  BY <1>1 DEF SaveInv, ResultsExist
<1>16. \A v \in Worker \ {w} : HasTable(v)' => HasTable(v) /\ worker'[v] = worker[v]
  BY <1>4 DEF HasTable
<1> HIDE DEF j, n
<1>9. SaveType' /\ Requeued' /\ Rows'
  BY <1>1, <1>4, <1>7 DEF SaveInv, SaveType, Requeued, Rows
<1>17. NoTwins'
  <2>1. Name(w) = n
    BY DEF n
  <2>2. ASSUME NEW u \in Worker, NEW v \in Worker, HasTable(u)', HasTable(v)', u # v, Name(u)' = Name(v)'
        PROVE  Name(v)' \in gone' /\ Name(v)' \in dropped'
    <3>1. Name(u) = Name(v) /\ Name(v)' = Name(v)
      BY <1>8, <2>2
    <3>2. Lost(Name(v))
      <4>1. CASE u = w
        BY <1>14, <1>16, <2>1, <2>2, <3>1, <4>1
      <4>2. CASE v = w
        BY <1>14, <1>16, <2>1, <2>2, <3>1, <4>2
      <4>3. CASE u # w /\ v # w
        BY <1>16, <2>2, <3>1, <4>3 DEF SaveInv, NoTwins
      <4> QED BY <4>1, <4>2, <4>3
    <3> QED BY <1>1, <3>1, <3>2 DEF Lost
  <2>3. ASSUME NEW v \in Worker, NEW i \in Job \ unsure', HasTable(v)', job'[i].result, worker'[v].job # i,
               Name(v)' = job'[i].name
        PROVE  Name(v)' \in gone'
    <3>1. i \notin unsure /\ job[i].result /\ Name(v) = job[i].name /\ Name(v)' = Name(v)
      BY <1>1, <1>7, <1>8, <2>3
    <3>2. CASE v = w
      BY <1>1, <1>15, <2>1, <3>1, <3>2
    <3>3. CASE v # w
      BY <1>1, <1>16, <2>3, <3>1, <3>3 DEF SaveInv, NoTwins
    <3> QED BY <3>2, <3>3
  <2> QED BY <2>2, <2>3 DEF NoTwins, Lost
<1>10. Holders'
  BY <1>1, <1>3, <1>4, <1>7 DEF SaveInv, Holders, Holding, j
<1>11. OwnTables'
  <2>1. \A t \in Table, i \in Job :
          table'[t] = Saved(i) => job'[i].name = t /\ job'[i].status \notin {"new", "queued"}
    BY <1>1, <1>2, <1>5, <1>6, SavedApart DEF SaveInv, OwnTables
  <2>2. ASSUME NEW v \in Worker, HasNone(v)', worker'[v].job \notin unsure', NEW t \in Table
        PROVE  table'[t] # Saved(worker'[v].job)
    <3>1. CASE v = w
      BY <1>3, <1>4, <1>7, <2>2, <3>1 DEF HasNone
    <3>2. CASE v # w
      <4>1. HasNone(v) /\ Holding(v) /\ worker'[v].job = worker[v].job /\ worker[v].job \in Job
        BY <1>4, <2>2, <3>2, HoldingFacts DEF HasNone, Holding
      <4> QED BY <1>2, <1>5, <1>6, <1>7, <2>2, <3>2, <4>1, SavedApart DEF SaveInv, OwnTables
    <3> QED BY <3>1, <3>2
  <2>3. ASSUME NEW v \in Worker, HasTable(v)', ~(Name(v)' \in gone' /\ Name(v)' \in dropped')
        PROVE  \/ table'[Name(v)'] = Saved(worker'[v].job)
               \/ table'[Name(v)'] = Loaded /\ Name(v)' \in replaced'
    <3>1. CASE v = w
      BY <1>3, <1>4, <1>6, <1>8, <3>1 DEF n
    <3>2. CASE v # w
      <4>1. HasTable(v) /\ Holding(v) /\ worker'[v].job = worker[v].job
        BY <1>4, <2>3, <3>2 DEF HasTable, Holding
      <4>2. Name(v) \in Table /\ worker[v].job \in Job /\ Kept(v) /\ Name(v) # n
        BY <1>1, <1>8, <2>3, <4>1, <1>14, HoldingFacts DEF SaveInv, OwnTables, Lost
      <4> QED BY <1>1, <1>5, <1>8, <4>1, <4>2 DEF Kept
    <3> QED BY <3>1, <3>2
  <2>4. \A v \in Worker : worker'[v].pc = "registered" => worker[v].pc = "registered"
    BY <1>3, <1>4
  <2> QED BY <1>1, <1>8, <2>1, <2>2, <2>3, <2>4 DEF SaveInv, OwnTables, Lost, Kept
<1>12. NoOrphans'
  BY <1>1, <1>2, <1>5, <1>6, <1>7, SavedApart DEF SaveInv, NoOrphans
<1>13. ResultsExist'
  <2> SUFFICES ASSUME NEW i \in Job \ unsure', job[i].result, job[i].name \notin gone
               PROVE  /\ table'[job[i].name] # NotMade /\ job[i].name \in master
                      /\ job[i].name \notin replaced => table'[job[i].name] = Saved(i)
    BY <1>1 DEF ResultsExist
  <2>1. /\ i \notin unsure /\ job[i].name # n
        /\ table[job[i].name] # NotMade /\ job[i].name \in master
        /\ job[i].name \notin replaced => table[job[i].name] = Saved(i)
    BY <1>7, <1>15 DEF SaveInv, ResultsExist
  <2> QED BY <1>5, <2>1 DEF TableType
<1> QED BY <1>9, <1>10, <1>11, <1>12, <1>13, <1>17 DEF SaveInv

LEMMA RegisterStep ==
  ASSUME SaveInv, NEW w \in Worker, NEW told \in BOOLEAN, RegisterTable(w, told)
  PROVE  SaveInv'
<1> DEFINE to == [worker[w] EXCEPT !.pc = IF told THEN "registered" ELSE "orphan"]
<1>1. /\ worker[w].pc = "noted" /\ master' = master \cup {Name(w)} /\ worker' = [worker EXCEPT ![w] = to]
      /\ UNCHANGED <<job, table, unsure, gone, dropped, replaced, slow>>
  BY DEF RegisterTable, At, Go, Quietly
<1>2. worker[w] \in Saver /\ worker[w].job \in Job
  BY <1>1, HoldingFacts DEF Holding
<1>3. to \in Saver /\ to.job = worker[w].job /\ to.pc = IF told THEN "registered" ELSE "orphan"
  BY <1>2 DEF Saver
<1> HIDE DEF to
<1>4. worker' \in [Worker -> Saver] /\ worker'[w] = to /\ \A v \in Worker \ {w} : worker'[v] = worker[v]
  BY <1>1, <1>3 DEF SaveInv, SaveType
<1>5. \A v \in Worker : Name(v)' = Name(v)
  BY <1>1, <1>3, <1>4 DEF Name
<1>6. SaveType' /\ Requeued' /\ Rows'
  BY <1>1, <1>4 DEF SaveInv, SaveType, Requeued, Rows
<1>7. Holders'
  BY <1>1, <1>3, <1>4 DEF SaveInv, Holders, Holding
<1>10. \A v \in Worker : (HasTable(v)' => HasTable(v)) /\ (HasNone(v)' => HasNone(v)) /\ worker'[v].job = worker[v].job
  BY <1>1, <1>3, <1>4 DEF HasTable, HasNone
<1>11. NoTwins'
  BY <1>1, <1>5, <1>10, TwinsKept DEF SaveInv
<1>8. OwnTables'
  <2>2. \A v \in Worker : worker'[v].pc = "registered" => v = w \/ worker[v].pc = "registered"
    BY <1>4
  <2> QED BY <1>1, <1>5, <1>10, <2>2 DEF SaveInv, OwnTables, Lost, Kept
<1>9. NoOrphans' /\ ResultsExist'
  BY <1>1 DEF SaveInv, NoOrphans, ResultsExist
<1> QED BY <1>6, <1>7, <1>8, <1>9, <1>11, SMTT(30) DEF SaveInv

LEMMA FinishStep ==
  ASSUME SaveInv, NEW w \in Worker, NEW told \in BOOLEAN, Finish(w, told)
  PROVE  SaveInv'
<1> DEFINE j == worker[w].job
           to == IF told THEN [pc |-> "idle", job |-> 0, ok |-> TRUE] ELSE [worker[w] EXCEPT !.pc = "orphan"]
           status == IF worker[w].ok THEN "completed" ELSE "failed"
           row == [job[j] EXCEPT !.status = status, !.result = TRUE]
<1>1. /\ worker[w].pc = "registered" /\ job' = [job EXCEPT ![j] = row] /\ worker' = [worker EXCEPT ![w] = to]
      /\ unsure' = (IF told THEN unsure ELSE unsure \cup {j})
      /\ UNCHANGED <<table, master, gone, dropped, replaced, slow>>
  BY DEF Finish, At, Quietly, QueueOnly, tables
<1>2. /\ worker[w] \in Saver /\ j \in Job /\ Name(w) \in Table /\ Name(w) = job[j].name /\ job[j] \in Save
      /\ job[j].status \notin {"new", "queued"}
      /\ \A v \in Worker \ {w} : Holding(v) => worker[v].job # j
  BY <1>1, HoldingFacts DEF Holding
<1>3. /\ to \in Saver /\ to.pc \in {"idle", "orphan"} /\ (to.pc = "orphan" => to.job = j /\ j \in unsure')
  BY <1>1, <1>2 DEF Saver
<1>4. row \in Save /\ row.status \in {"completed", "failed"} /\ row.result /\ row.name = job[j].name
  BY <1>2 DEF Save
<1> HIDE DEF to, row, status
<1>5. worker' \in [Worker -> Saver] /\ worker'[w] = to /\ \A v \in Worker \ {w} : worker'[v] = worker[v]
  BY <1>1, <1>3 DEF SaveInv, SaveType
<1>6. job' \in [Job -> Save] /\ job'[j] = row /\ \A i \in Job \ {j} : job'[i] = job[i]
  BY <1>1, <1>2, <1>4 DEF SaveInv, SaveType
<1>7. unsure \subseteq unsure' /\ unsure' \subseteq Job
  BY <1>1, <1>2 DEF SaveInv, SaveType
<1>8. \A v \in Worker : Holding(v)' => Holding(v) /\ worker'[v].job = worker[v].job /\ Name(v)' = Name(v)
  <2> SUFFICES ASSUME NEW v \in Worker, Holding(v)'
               PROVE  Holding(v) /\ worker'[v].job = worker[v].job /\ Name(v)' = Name(v)
    OBVIOUS
  <2>1. CASE v = w
    BY <1>1, <1>3, <1>4, <1>5, <1>6, <2>1 DEF Name, Holding
  <2>2. CASE v # w
    <3>1. Holding(v) /\ worker'[v] = worker[v]
      BY <1>5, <2>2 DEF Holding
    <3>2. worker[v].job \in Job \ {j}
      BY <1>2, <2>2, <3>1, HoldingFacts
    <3> QED BY <1>6, <3>1, <3>2 DEF Name
  <2> QED BY <2>1, <2>2
<1>9. SaveType' /\ Requeued' /\ Rows'
  BY <1>1, <1>2, <1>4, <1>5, <1>6, <1>7 DEF SaveInv, SaveType, Requeued, Rows
<1>10. Holders'
  <2>1. ASSUME NEW v \in Worker, Holding(v)'
        PROVE  /\ worker'[v].job \in Job
               /\ \/ job'[worker'[v].job].status = "running"
                  \/ worker'[v].job \in unsure' /\ job'[worker'[v].job].status \in {"completed", "failed"}
    <3>1. CASE v = w
      BY <1>2, <1>3, <1>4, <1>5, <1>6, <2>1, <3>1 DEF Holding
    <3>2. CASE v # w
      BY <1>2, <1>5, <1>6, <1>7, <1>8, <2>1, <3>2 DEF SaveInv, Holders
    <3> QED BY <3>1, <3>2
  <2> QED BY <1>8, <2>1 DEF SaveInv, Holders
<1>11. OwnTables'
  <2>1. \A t \in Table, i \in Job :
          table'[t] = Saved(i) => job'[i].name = t /\ job'[i].status \notin {"new", "queued"}
    BY <1>1, <1>2, <1>4, <1>6 DEF SaveInv, OwnTables
  <2>2. \A v \in Worker : HasNone(v)' => HasNone(v) /\ Holding(v)'
    BY <1>3, <1>5 DEF HasNone, Holding
  <2>3. \A v \in Worker : HasTable(v)' => HasTable(v) /\ Holding(v)'
    BY <1>1, <1>5 DEF HasTable, Holding
  <2>4. \A v \in Worker : worker'[v].pc = "registered" => worker[v].pc = "registered" /\ Holding(v)'
    BY <1>3, <1>5 DEF Holding
  <2> QED BY <1>1, <1>7, <1>8, <2>1, <2>2, <2>3, <2>4 DEF SaveInv, OwnTables, Lost, Kept
<1>12. NoOrphans'
  BY <1>1, <1>4, <1>6, <1>7 DEF SaveInv, NoOrphans
<1>13. ResultsExist'
  <2> SUFFICES ASSUME NEW i \in Job \ unsure', job'[i].result, job'[i].name \notin gone
               PROVE  /\ table[job'[i].name] # NotMade /\ job'[i].name \in master
                      /\ job'[i].name \notin replaced => table[job'[i].name] = Saved(i)
    BY <1>1 DEF ResultsExist
  <2>1. CASE i = j
    <3>1. job'[i].name = Name(w) /\ Name(w) \notin gone
      BY <1>2, <1>4, <1>6, <2>1
    <3>2. Kept(w) /\ Name(w) \in master
      BY <1>1, <3>1 DEF SaveInv, OwnTables, HasTable, Lost
    <3> QED BY <1>2, <2>1, <3>1, <3>2, SavedApart DEF Kept
  <2>2. CASE i # j
    BY <1>6, <1>7, <2>2 DEF SaveInv, ResultsExist
  <2> QED BY <2>1, <2>2
<1>14. NoTwins'
  <2>1. \A v \in Worker : HasTable(v)' => Holding(v)' /\ HasTable(v)
    BY <1>1, <1>3, <1>5 DEF HasTable, Holding
  <2>2. ASSUME NEW u \in Worker, NEW v \in Worker, HasTable(u)', HasTable(v)', u # v, Name(u)' = Name(v)'
        PROVE  Name(v)' \in gone' /\ Name(v)' \in dropped'
    <3>1. HasTable(u) /\ HasTable(v) /\ Name(u) = Name(v) /\ Name(v)' = Name(v)
      BY <1>8, <2>1, <2>2
    <3>2. Lost(Name(v))
      BY <2>2, <3>1 DEF SaveInv, NoTwins
    <3> QED BY <1>1, <3>1, <3>2 DEF Lost
  <2>3. ASSUME NEW v \in Worker, NEW i \in Job \ unsure', HasTable(v)', job'[i].result, worker'[v].job # i,
               Name(v)' = job'[i].name
        PROVE  Name(v)' \in gone'
    <3>1. HasTable(v) /\ Name(v)' = Name(v) /\ worker[v].job # i
      BY <1>8, <2>1, <2>3
    <3>2. CASE i = j
      <4>1. v # w /\ HasTable(w) /\ Name(v) = Name(w)
        BY <1>1, <1>2, <1>4, <1>6, <2>3, <3>1, <3>2 DEF HasTable
      <4> QED BY <1>1, <3>1, <4>1 DEF SaveInv, NoTwins, Lost
    <3>3. CASE i # j
      BY <1>1, <1>6, <1>7, <2>3, <3>1, <3>3 DEF SaveInv, NoTwins
    <3> QED BY <3>2, <3>3
  <2> QED BY <2>2, <2>3 DEF NoTwins, Lost
<1> QED BY <1>9, <1>10, <1>11, <1>12, <1>13, <1>14 DEF SaveInv

LEMMA DropStep ==
  ASSUME SaveInv, TableType, NEW w \in Worker, DropOrphan(w)
  PROVE  SaveInv'
<1> DEFINE j == worker[w].job
           n == Name(w)
           to == [worker[w] EXCEPT !.pc = "failing"]
<1>1. /\ worker[w].pc = "orphan" /\ table' = [table EXCEPT ![n] = NotMade] /\ dropped' = dropped \cup {n}
      /\ worker' = [worker EXCEPT ![w] = to]
      /\ UNCHANGED <<job, unsure, master, gone, replaced, slow>>
  BY DEF DropOrphan, WithoutOrphan, At, Go, Quietly
<1>2. /\ worker[w] \in Saver /\ j \in Job /\ n \in Table /\ n = job[j].name
      /\ (j \notin unsure => job[j].status = "running")
      /\ \A v \in Worker \ {w} : Holding(v) => worker[v].job # j
  BY <1>1, HoldingFacts DEF Holding
<1>3. to \in Saver /\ to.job = j /\ to.pc = "failing"
  BY <1>2 DEF Saver
<1> HIDE DEF to
<1>4. worker' \in [Worker -> Saver] /\ worker'[w] = to /\ \A v \in Worker \ {w} : worker'[v] = worker[v]
  BY <1>1, <1>3 DEF SaveInv, SaveType
<1>5. table'[n] = NotMade /\ \A t \in Table \ {n} : table'[t] = table[t]
  BY <1>1, <1>2 DEF TableType
<1>6. \A v \in Worker : Name(v)' = Name(v)
  BY <1>1, <1>3, <1>4 DEF Name
<1>7. /\ \A v \in Worker \ {w} : HasTable(v) /\ Name(v) = n => n \in gone
      /\ \A i \in Job \ unsure : job[i].result /\ job[i].name = n /\ i # j => n \in gone
  BY <1>1 DEF SaveInv, NoTwins, HasTable, Lost
<1>8. \A t \in Table, i \in Job : table'[t] = Saved(i) => t # n /\ table[t] = Saved(i)
  BY <1>5, SavedApart
<1> HIDE DEF j, n
<1>9. SaveType' /\ Requeued' /\ Rows'
  BY <1>1, <1>4 DEF SaveInv, SaveType, Requeued, Rows
<1>10. Holders'
  BY <1>1, <1>3, <1>4 DEF SaveInv, Holders, Holding, j
<1>11. OwnTables'
  <2>1. \A t \in Table, i \in Job :
          table'[t] = Saved(i) => job'[i].name = t /\ job'[i].status \notin {"new", "queued"}
    BY <1>1, <1>8 DEF SaveInv, OwnTables
  <2>2. ASSUME NEW v \in Worker, HasNone(v)', worker'[v].job \notin unsure', NEW t \in Table
        PROVE  table'[t] # Saved(worker'[v].job)
    <3>1. CASE v = w
      <4>1. worker'[v].job = j /\ j \in Job
        BY <1>2, <1>3, <1>4, <3>1
      <4>2. \A u \in Table : table[u] = Saved(j) => u = n
        BY <1>2 DEF SaveInv, OwnTables
      <4> QED BY <1>8, <4>1, <4>2
    <3>2. CASE v # w
      <4>1. HasNone(v) /\ Holding(v) /\ worker'[v].job = worker[v].job
        BY <1>4, <2>2, <3>2 DEF HasNone, Holding
      <4>2. worker[v].job \in Job /\ table[t] # Saved(worker[v].job)
        BY <1>1, <2>2, <4>1, HoldingFacts DEF SaveInv, OwnTables
      <4> QED BY <1>8, <4>1, <4>2
    <3> QED BY <3>1, <3>2
  <2>3. ASSUME NEW v \in Worker, HasTable(v)', ~(Name(v)' \in gone' /\ Name(v)' \in dropped')
        PROVE  \/ table'[Name(v)'] = Saved(worker'[v].job)
               \/ table'[Name(v)'] = Loaded /\ Name(v)' \in replaced'
    <3>1. v # w /\ HasTable(v) /\ Holding(v) /\ worker'[v].job = worker[v].job
      BY <1>3, <1>4, <2>3 DEF HasTable, Holding
    <3>2. Name(v) # n
      BY <1>1, <1>6, <1>7, <2>3, <3>1
    <3>3. Kept(v) /\ Name(v) \in Table
      BY <1>1, <1>6, <2>3, <3>1, HoldingFacts DEF SaveInv, OwnTables, Lost
    <3> QED BY <1>1, <1>5, <1>6, <3>1, <3>2, <3>3 DEF Kept
  <2>4. \A v \in Worker : worker'[v].pc = "registered" => worker[v].pc = "registered"
    BY <1>3, <1>4
  <2> QED BY <1>1, <1>6, <2>1, <2>2, <2>3, <2>4 DEF SaveInv, OwnTables, Lost, Kept
<1>12. NoOrphans'
  BY <1>1, <1>8 DEF SaveInv, NoOrphans
<1>13. ResultsExist'
  <2> SUFFICES ASSUME NEW i \in Job \ unsure, job[i].result, job[i].name \notin gone
               PROVE  /\ table'[job[i].name] # NotMade /\ job[i].name \in master
                      /\ job[i].name \notin replaced => table'[job[i].name] = Saved(i)
    BY <1>1 DEF ResultsExist
  <2>1. /\ table[job[i].name] # NotMade /\ job[i].name \in master
        /\ job[i].name \notin replaced => table[job[i].name] = Saved(i)
    BY DEF SaveInv, ResultsExist
  <2>2. i # j
    BY <1>2 DEF SaveInv, Rows
  <2>3. job[i].name # n /\ job[i].name \in Table
    BY <1>7, <2>1, <2>2 DEF TableType
  <2> QED BY <1>5, <2>1, <2>3
<1>14. NoTwins'
  <2>1. \A v \in Worker : HasTable(v)' => HasTable(v) /\ worker'[v].job = worker[v].job
    BY <1>3, <1>4 DEF HasTable
  <2> QED BY <1>1, <1>6, <2>1, TwinsKept DEF SaveInv
<1> QED BY <1>9, <1>10, <1>11, <1>12, <1>13, <1>14 DEF SaveInv

LEMMA MarkStep ==
  ASSUME SaveInv, NEW w \in Worker, MarkFailed(w)
  PROVE  SaveInv'
<1> DEFINE j == worker[w].job
           row == [job[j] EXCEPT !.status = "failed"]
<1>1. /\ worker[w].pc = "failing" /\ job' = [job EXCEPT ![j] = row]
      /\ worker' = [worker EXCEPT ![w] = Idle]
      /\ UNCHANGED <<unsure, table, master, gone, dropped, replaced, slow>>
  BY DEF MarkFailed, Rest, Idle, At, Quietly, QueueOnly, tables
<1>2. /\ worker[w] \in Saver /\ j \in Job /\ job[j] \in Save /\ job[j].name \in Table
      /\ (j \notin unsure => job[j].status = "running")
      /\ \A v \in Worker \ {w} : Holding(v) => worker[v].job # j
  BY <1>1, HoldingFacts DEF Holding
<1>3. Idle \in Saver /\ Idle.pc = "idle"
  BY DEF Idle, Saver
<1>4. row \in Save /\ row.status = "failed" /\ row.result = job[j].result /\ row.name = job[j].name
  BY <1>2 DEF Save
<1> HIDE DEF row
<1>5. worker' \in [Worker -> Saver] /\ worker'[w] = Idle /\ \A v \in Worker \ {w} : worker'[v] = worker[v]
  BY <1>1, <1>3 DEF SaveInv, SaveType
<1>6. job' \in [Job -> Save] /\ job'[j] = row /\ \A i \in Job \ {j} : job'[i] = job[i]
  BY <1>1, <1>2, <1>4 DEF SaveInv, SaveType
<1>7. \A v \in Worker : Holding(v)' => v # w /\ Holding(v) /\ worker'[v] = worker[v] /\ worker[v].job \in Job \ {j}
  BY <1>2, <1>3, <1>5, HoldingFacts DEF Holding
<1>8. \A v \in Worker : Holding(v)' => Name(v)' = Name(v)
  BY <1>6, <1>7 DEF Name
<1>9. j \notin unsure => \A t \in Table : table[t] # Saved(j)
  BY <1>1 DEF SaveInv, OwnTables, HasNone
<1>10. SaveType' /\ Requeued' /\ Rows'
  BY <1>1, <1>2, <1>4, <1>5, <1>6 DEF SaveInv, SaveType, Requeued, Rows
<1>11. Holders'
  BY <1>1, <1>6, <1>7 DEF SaveInv, Holders
<1>12. OwnTables'
  <2>1. \A t \in Table, i \in Job :
          table'[t] = Saved(i) => job'[i].name = t /\ job'[i].status \notin {"new", "queued"}
    BY <1>1, <1>4, <1>6 DEF SaveInv, OwnTables
  <2>2. \A v \in Worker : HasNone(v)' => HasNone(v) /\ Holding(v)'
    BY <1>3, <1>5 DEF HasNone, Holding
  <2>3. \A v \in Worker : HasTable(v)' => HasTable(v) /\ Holding(v)'
    BY <1>3, <1>5 DEF HasTable, Holding
  <2>4. \A v \in Worker : worker'[v].pc = "registered" => worker[v].pc = "registered" /\ Holding(v)'
    BY <1>3, <1>5 DEF Holding
  <2> QED BY <1>1, <1>7, <1>8, <2>1, <2>2, <2>3, <2>4 DEF SaveInv, OwnTables, Lost, Kept
<1>13. NoOrphans'
  BY <1>1, <1>6, <1>9 DEF SaveInv, NoOrphans
<1>14. ResultsExist'
  <2> SUFFICES ASSUME NEW i \in Job \ unsure, job'[i].result, job'[i].name \notin gone
               PROVE  /\ table[job'[i].name] # NotMade /\ job'[i].name \in master
                      /\ job'[i].name \notin replaced => table[job'[i].name] = Saved(i)
    BY <1>1 DEF ResultsExist
  <2>1. job[i].result /\ job'[i].name = job[i].name
    BY <1>4, <1>6
  <2> QED BY <2>1 DEF SaveInv, ResultsExist
<1>15. NoTwins'
  <2>1. \A v \in Worker : HasTable(v)' => HasTable(v) /\ worker'[v].job = worker[v].job /\ Name(v)' = Name(v)
    <3>1. \A v \in Worker : HasTable(v)' => Holding(v)'
      BY DEF HasTable, Holding
    <3> QED BY <1>7, <1>8, <3>1 DEF HasTable
  <2>2. \A i \in Job : job'[i].result => job[i].result /\ job'[i].name = job[i].name
    BY <1>4, <1>6
  <2> QED BY <1>1, <2>1, <2>2, TwinsKept DEF SaveInv
<1> QED BY <1>10, <1>11, <1>12, <1>13, <1>14, <1>15 DEF SaveInv

LEMMA WorkerStep == ASSUME SaveInv, TableType, NEW w \in Worker, SaveWorker(w) PROVE SaveInv'
<1>1. Holding(w) => worker[w] \in Saver /\ worker[w].job \in Job
  BY HoldingFacts
<1>2. unsure \subseteq Job
  BY DEF SaveInv, SaveType
<1>3. ASSUME NEW j \in Job, Claim(w, j) PROVE SaveInv'
  BY <1>3, ClaimStep
<1>4. ASSUME NEW told \in BOOLEAN, CreateTable(w, told) \/ RegisterTable(w, told) \/ Finish(w, told) PROVE SaveInv'
  BY <1>4, CreateStep, RegisterStep, FinishStep
<1>5. ASSUME NEW ok \in BOOLEAN, SetComments(w, ok) PROVE SaveInv'
  <2> DEFINE to == [worker[w] EXCEPT !.pc = "noted", !.ok = ok]
  <2>1. /\ worker[w].pc = "made" /\ worker' = [worker EXCEPT ![w] = to]
        /\ UNCHANGED <<job, unsure, tables, slow>>
    BY <1>5 DEF SetComments, At, Quietly, QueueOnly
  <2>2. Holding(w) /\ HasTable(w)
    BY <2>1 DEF Holding, HasTable
  <2>3. to \in Saver /\ to.pc = "noted" /\ to.job = worker[w].job
    BY <1>1, <2>2 DEF Saver
  <2> HIDE DEF to
  <2> QED BY <1>2, <2>1, <2>2, <2>3, MoveStep
<1>6. CASE CreateFails(w)
  <2> DEFINE to == [worker[w] EXCEPT !.pc = "failing"]
  <2>1. /\ worker[w].pc = "claimed" /\ worker' = [worker EXCEPT ![w] = to]
        /\ UNCHANGED <<job, unsure, tables, slow>>
    BY <1>6 DEF CreateFails, At, Go, Quietly, QueueOnly
  <2>2. Holding(w) /\ HasNone(w)
    BY <2>1 DEF Holding, HasNone
  <2>3. to \in Saver /\ to.pc = "failing" /\ to.job = worker[w].job
    BY <1>1, <2>2 DEF Saver
  <2> HIDE DEF to
  <2> QED BY <1>2, <2>1, <2>2, <2>3, MoveStep
<1>7. CASE StepFails(w)
  <2> DEFINE to == [worker[w] EXCEPT !.pc = "orphan"]
  <2>1. /\ worker[w].pc \in {"made", "noted", "registered"} /\ worker' = [worker EXCEPT ![w] = to]
        /\ UNCHANGED <<job, unsure, tables, slow>>
    BY <1>7 DEF StepFails, Go, Quietly, QueueOnly
  <2>2. Holding(w) /\ HasTable(w)
    BY <2>1 DEF Holding, HasTable
  <2>3. to \in Saver /\ to.pc = "orphan" /\ to.job = worker[w].job
    BY <1>1, <2>2 DEF Saver
  <2> HIDE DEF to
  <2> QED BY <1>2, <2>1, <2>2, <2>3, MoveStep
<1>8. CASE DropOrphan(w) \/ MarkFailed(w)
  BY <1>8, DropStep, MarkStep
<1>9. CASE DropFails(w)
  <2> DEFINE to == [worker[w] EXCEPT !.pc = "failing"]
  <2>1. /\ worker[w].pc = "orphan" /\ worker' = [worker EXCEPT ![w] = to]
        /\ unsure' = unsure \cup {worker[w].job} /\ UNCHANGED <<job, tables, slow>>
    BY <1>9 DEF DropFails, At, Go, Quietly, QueueOnly
  <2>2. Holding(w)
    BY <2>1 DEF Holding
  <2>3. to \in Saver /\ to.pc = "failing" /\ to.job = worker[w].job
    BY <1>1, <2>2 DEF Saver
  <2> HIDE DEF to
  <2> QED BY <1>1, <1>2, <2>1, <2>2, <2>3, MoveStep
<1>10. CASE GiveUp(w)
  <2>1. /\ Holding(w) /\ worker' = [worker EXCEPT ![w] = Idle]
        /\ unsure' = unsure \cup {worker[w].job} /\ UNCHANGED <<job, tables, slow>>
    BY <1>10 DEF GiveUp, At, Rest, Idle, Quietly, QueueOnly, Holding
  <2>2. Idle \in Saver /\ Idle.pc = "idle"
    BY DEF Idle, Saver
  <2> QED BY <1>1, <1>2, <2>1, <2>2, MoveStep
<1> QED BY <1>3, <1>4, <1>5, <1>6, <1>7, <1>8, <1>9, <1>10 DEF SaveWorker

(* What a worker does to the tables, as the ETL sees it.                    *)
LEMMA WorkerKept == ASSUME LoadInv, SaveInv, NEW w \in Worker, SaveWorker(w) PROVE TablesKept
<1>1. /\ UNCHANGED <<loads, apart, gone>> /\ unchecked \subseteq unchecked'
      /\ slow' = slow \/ slow'[1] # "load"
  BY SaveFrame, SlowFrame, UnwatchedSlow
<1>2. CASE UNCHANGED tables
  BY <1>1, <1>2, UnmovedKept
<1>3. TableType /\ MastersExist /\ OwnTables
  BY DEF LoadInv, SaveInv
<1>4. ASSUME NEW told \in BOOLEAN, CreateTable(w, told) PROVE TablesKept
  <2>1. /\ Holding(w) /\ table' = [table EXCEPT ![Name(w)] = Saved(worker[w].job)]
        /\ UNCHANGED <<project, master, map, dropped, replaced>>
    BY <1>4 DEF CreateTable, At, Holding
  <2>2. worker[w].job \in Job /\ Name(w) \in Table
    BY <2>1, HoldingFacts
  <2>3. TableType'
    BY <1>1, <1>3, <2>1, <2>2 DEF TableType, Made
  <2>4. \A t \in Table : table'[t] = NotMade => table[t] = NotMade
    BY <1>3, <2>1, <2>2, SavedApart DEF TableType
  <2> QED BY <1>1, <1>3, <2>1, <2>3, <2>4 DEF TablesKept, MastersExist
<1>5. ASSUME NEW told \in BOOLEAN, RegisterTable(w, told) PROVE TablesKept
  <2> DEFINE p == job[worker[w].job].project
             uses == {"query"} \cup (IF {"query", "widget"} \subseteq project[p].flags THEN {"widget"} ELSE {})
  <2>1. /\ Holding(w) /\ HasTable(w) /\ Free(Name(w)) /\ master' = master \cup {Name(w)}
        /\ map' = [map EXCEPT ![p][Name(w)] = @ \cup uses]
        /\ UNCHANGED <<project, table, dropped, replaced>>
    BY <1>5, ZenonT(40) DEF RegisterTable, At, Holding, HasTable
  <2>2. worker[w].job \in Job /\ Name(w) \in Table /\ uses \in Usage
    BY <2>1, HoldingFacts DEF Usage
  <2> HIDE DEF p, uses
  <2>3. /\ map' \in [Project -> [Table -> Usage]]
        /\ \A q \in Project, t \in Table : map'[q][t] # {} => map[q][t] # {} \/ t = Name(w)
    BY <1>3, <2>1, <2>2 DEF TableType, Usage
  <2>4. TableType'
    BY <1>1, <1>3, <2>1, <2>2, <2>3 DEF TableType
  <2>5. Name(w) \in dropped \/ table[Name(w)] # NotMade
    BY <1>3, <2>1, <2>2, SavedApart DEF OwnTables, Lost, Kept
  <2> QED BY <1>1, <1>3, <2>1, <2>3, <2>4, <2>5, SMTT(30) DEF TablesKept, MastersExist
<1>6. CASE DropOrphan(w)
  <2>1. /\ Holding(w) /\ table' = [table EXCEPT ![Name(w)] = NotMade] /\ dropped' = dropped \cup {Name(w)}
        /\ UNCHANGED <<project, master, map, replaced>>
    BY <1>6 DEF DropOrphan, WithoutOrphan, At, Holding
  <2>2. Name(w) \in Table
    BY <2>1, HoldingFacts
  <2>3. TableType'
    BY <1>1, <1>3, <2>1, <2>2 DEF TableType, Made
  <2>4. \A t \in Table : table'[t] = NotMade => table[t] = NotMade \/ t \in dropped'
    BY <1>3, <2>1, <2>2 DEF TableType
  <2> QED BY <1>1, <1>3, <2>1, <2>3, <2>4 DEF TablesKept, MastersExist
<1>7. \/ UNCHANGED tables
      \/ \E told \in BOOLEAN : CreateTable(w, told) \/ RegisterTable(w, told)
      \/ DropOrphan(w)
  BY DEF SaveWorker, Claim, Finish, SetComments, CreateFails, StepFails, DropFails, MarkFailed, GiveUp, QueueOnly
<1> QED BY <1>2, <1>4, <1>5, <1>6, <1>7

-----------------------------------------------------------------------------
(* All parts together.                                                      *)
TablesInv == AccessType /\ LoadInv /\ SaveInv

LEMMA TablesInit == Init => TablesInv
<1> SUFFICES ASSUME Init PROVE TablesInv
  OBVIOUS
<1>1. PICK scene \in Scenes :
        /\ project = scene.project /\ table = scene.table /\ master = scene.master /\ map = scene.map
        /\ conn = scene.conn /\ etl = scene.etl /\ batch = scene.batch
        /\ registry = scene.registry /\ scheduled = scene.scheduled /\ job = scene.job
  BY DEF Init
<1>2. Typed(scene) /\ Settled(scene)
  BY ScenesAssumption
<1>3. /\ gone = {} /\ dropped = {} /\ replaced = {} /\ deleting = Nothing /\ unsure = {} /\ slow = Nothing
      /\ load = [e \in Etl |-> "idle"] /\ listing = {} /\ leaving = {} /\ overtaken = {}
      /\ worker = [w \in Worker |-> Idle]
  BY DEF Init, Idle
<1>4. TableType /\ LoadType /\ SaveType
  <2>1. Idle \in Saver
    BY DEF Idle, Saver
  <2>2. TableType
    BY <1>1, <1>2, <1>3 DEF Typed, TableType, Made
  <2>3. LoadType
    BY <1>1, <1>2, <1>3 DEF Typed, LoadType
  <2>4. SaveType
    BY <1>1, <1>2, <1>3, <2>1 DEF Typed, SaveType
  <2> QED BY <2>2, <2>3, <2>4
<1>5. slow[1] = "none" /\ deleting[1] = "none"
  BY <1>3 DEF Nothing
<1>6. Targets /\ Deleted /\ MastersExist /\ Filled /\ Entries
  <2>1. \A e \in Etl : load[e] = "idle" /\ ~Dropping(e)
    BY <1>3, <1>5 DEF Dropping
  <2>2. Targets /\ Deleted
    BY <1>1, <1>2, <1>5, <2>1 DEF Settled, Targets, Deleted
  <2>3. MastersExist
    BY <1>1, <1>2 DEF Settled, MastersExist
  <2>4. \A b \in Batch : ~InHand(b) /\ ~Leaving(b)
    BY <1>1, <1>2, <1>3 DEF Settled, InHand, Leaving
  <2>5. Entries
    BY <1>1, <1>2, <2>4, DeskAssumption DEF Settled, Entries
  <2>6. Filled
    BY <1>1, <1>2, <2>1 DEF Settled, Filled, Loading, Fills
  <2> QED BY <2>2, <2>3, <2>5, <2>6
<1>7. Requeued /\ Rows /\ Holders /\ OwnTables /\ NoTwins /\ NoOrphans /\ ResultsExist
  <2>1. \A w \in Worker : worker[w].pc = "idle"
    BY <1>3 DEF Idle
  <2>2. Requeued /\ Rows
    BY <1>1, <1>2, <1>5 DEF Settled, Requeued, Rows
  <2>3. Holders
    BY <2>1 DEF Holders, Holding
  <2>4. OwnTables
    <3>1. \A t \in Table, j \in Job :
            table[t] = Saved(j) => job[j].name = t /\ job[j].status \notin {"new", "queued"}
      BY <1>1, <1>2 DEF Settled
    <3> QED BY <2>1, <3>1 DEF OwnTables, HasNone, HasTable
  <2>6. NoTwins
    BY <2>1 DEF NoTwins, HasTable
  <2>5. NoOrphans /\ ResultsExist
    BY <1>1, <1>2 DEF Settled, NoOrphans, ResultsExist
  <2> QED BY <2>2, <2>3, <2>4, <2>5, <2>6
<1>8. AccessType
  BY AccessInit DEF AccessInv
<1> QED BY <1>4, <1>6, <1>7, <1>8 DEF TablesInv, LoadInv, SaveInv

(* A step of a part that has nothing to do with tables.                     *)
LEMMA ElsewhereStep ==
  ASSUME LoadInv, SaveInv, UNCHANGED <<tables, loads, saving, apart>>, unchecked \subseteq unchecked',
         slow' = slow \/ slow'[1] \notin {"load", "requeue"}
  PROVE  LoadInv' /\ SaveInv'
<1>1. TableType
  BY DEF LoadInv
<1>2. LoadInv' /\ TablesGiven
  BY NothingOfLoads
<1>3. Requeued'
  BY RequeuedStays DEF SaveInv, saving
<1> QED BY <1>1, <1>2, <1>3, TablesGivenSaveInv

LEMMA TablesInvStep == TablesInv /\ [Next]_vars => TablesInv'
<1> SUFFICES ASSUME TablesInv, [Next]_vars PROVE LoadInv' /\ SaveInv'
  BY AccessStep, AccessTypeStep DEF TablesInv
<1>1. LoadInv /\ SaveInv /\ TableType /\ AccessType
  BY DEF TablesInv, LoadInv
<1>2. CASE SessionRequest \/ EndOfSessions \/ Guard \/ Abandon
  <2>1. UNCHANGED <<tables, loads, saving, apart>> /\ unchecked \subseteq unchecked'
    BY <1>2, SessionFrame, GuardFrame DEF Abandon, data
  <2>2. slow' = slow \/ slow'[1] \notin {"load", "requeue"}
    BY <1>2, SlowFrame DEF Unwatched, Watched
  <2> QED BY <1>1, <2>1, <2>2, ElsewhereStep
<1>3. CASE BoardRequest \/ WidgetRequest \/ SharingRequest \/ TransferRequest \/ HandedOver \/ HandOverFails
  <2>1. UNCHANGED <<tables, loads, saving, apart>> /\ unchecked \subseteq unchecked'
    BY <1>3, BoardFrame
  <2>2. slow' = slow \/ slow'[1] \notin {"load", "requeue"}
    BY <1>3, SlowFrame DEF Unwatched, Watched
  <2> QED BY <1>1, <2>1, <2>2, ElsewhereStep
<1>4. CASE UNCHANGED vars
  BY <1>1, <1>4, ElsewhereStep DEF vars, data
<1>5. CASE MapRequest
  <2>1. UNCHANGED <<saving, table, master, gone, dropped, replaced>> /\ (slow' = slow \/ slow'[1] # "requeue")
    <3>1. UNCHANGED saving /\ (slow' = slow \/ slow'[1] # "requeue")
      BY <1>5, MapFrame, SlowFrame, UnwatchedSlow
    <3>2. UNCHANGED <<table, master, gone, dropped, replaced>>
      BY <1>5 DEF MapRequest, AddMapping, DeleteMapping, UpdateProject, Request, MapOnly, data, tables
    <3> QED BY <3>1, <3>2
  <2>2. LoadInv'
    BY <1>1, <1>5, MapKept, TablesKeptLoadInv
  <2>3. TablesGiven
    BY <2>1 DEF TablesGiven
  <2>4. Requeued'
    BY <1>1, <2>1, RequeuedStays DEF SaveInv, saving
  <2> QED BY <1>1, <2>1, <2>2, <2>3, <2>4, TablesGivenSaveInv
<1>6. CASE EtlRequest \/ Load \/ BatchRequest \/ Following
  <2>1. UNCHANGED saving
    BY <1>6, EtlFrame
  <2>2. LoadInv' /\ TablesGiven
    BY <1>1, <1>6, LoadsStep
  <2>3. slow' = slow \/ slow'[1] # "requeue"
    <3>1. CASE EtlRequest \/ BatchRequest \/ Following
      BY <3>1, SlowFrame, UnwatchedSlow
    <3>2. ASSUME NEW e \in Etl, NEW how \in {"full", "more", "nothing"}, LoadTable(e, how)
          PROVE  slow' = slow \/ slow'[1] # "requeue"
      BY <3>2 DEF LoadTable, Request, Nothing
    <3>3. CASE Load
      BY <3>2, <3>3, SlowFrame, UnwatchedSlow
    <3> QED BY <1>6, <3>1, <3>3
  <2>4. Requeued'
    BY <1>1, <2>1, <2>3, RequeuedStays DEF SaveInv, saving
  <2> QED BY <1>1, <2>1, <2>2, <2>4, TablesGivenSaveInv
<1>7. CASE SaveRequest
  <2>1. SaveInv'
    BY <1>1, <1>7, SaveRequestStep
  <2>2. ASSUME NEW s \in Signed, NEW j \in Job, RequeueSave(s, j) PROVE slow' = slow \/ slow'[1] # "load"
    BY <2>2 DEF RequeueSave, Request, Nothing
  <2>3. slow' = slow \/ slow'[1] # "load"
    BY <1>7, <2>2, SlowFrame, UnwatchedSlow
  <2>4. UNCHANGED <<tables, loads, apart>> /\ unchecked \subseteq unchecked'
    BY <1>7, SaveFrame
  <2> QED BY <1>1, <2>1, <2>3, <2>4, NothingOfLoads
<1>8. ASSUME NEW w \in Worker, SaveWorker(w) PROVE LoadInv' /\ SaveInv'
  BY <1>1, <1>8, WorkerStep, WorkerKept, TablesKeptLoadInv
<1> QED BY <1>2, <1>3, <1>4, <1>5, <1>6, <1>7, <1>8 DEF Next

THEOREM TablesInvariance == Spec => []TablesInv
BY TablesInit, TablesInvStep, PTL DEF Spec

(* A project's tables are there to be read, for any number of deletions,    *)
(* loads and mappings at once: none that asks who uses a table takes it     *)
(* from those who do (delete_etl_table, add_project_table_mapping).  Left   *)
(* out are tables dropped with nobody asked, or while they were being       *)
(* loaded or saved, and those of loads that made none.                      *)
THEOREM MappedTablesStay == Spec => []MappedTablesExist
<1>1. TablesInv => MappedTablesExist
  <2> SUFFICES ASSUME TablesInv, NEW p \in Project, NEW t \in Table \ (dropped \cup unchecked),
                      map[p][t] # {}, table[t] = NotMade
               PROVE  FALSE
    BY DEF MappedTablesExist
  <2>1. PICK e \in Etl : Dropping(e) /\ etl[e].target = t /\ deleting[4]
    BY DEF TablesInv, LoadInv, MastersExist
  <2> QED BY <2>1 DEF TablesInv, LoadInv, Deleted
<1> QED BY <1>1, TablesInvariance, PTL

(* A registration that has loaded finds its table again, whatever other     *)
(* registrations of the same target are deleted meanwhile.                  *)
THEOREM LoadedTablesSafe == Spec => []LoadedTablesStay
<1>1. TablesInv => LoadedTablesStay
  <2> SUFFICES ASSUME TablesInv, NEW e \in There(etl), etl[e].loaded, ~Dropping(e),
                      etl[e].target \notin dropped \cup unchecked
               PROVE  table[etl[e].target] # NotMade
    BY DEF LoadedTablesStay, Dropping
  <2>1. e \in Etl /\ Fills(e)
    BY DEF TablesInv, LoadInv, LoadType, There, Fills
  <2> QED BY <2>1 DEF TablesInv, LoadInv, Filled
<1> QED BY <1>1, TablesInvariance, PTL

(* The list of ETL targets does not name a batch that is gone, but one that *)
(* was deleted between the reading of the batches and the writing of its    *)
(* entry, whether at its creation or for a GET of the list.                 *)
THEOREM TargetsTrue == Spec => []TargetsNameBatches
<1>1. TablesInv => TargetsNameBatches
  <2>1. ASSUME TablesInv, NEW t \in Table, registry[t] # NoBatch
        PROVE  batch[registry[t]].at = "there" \/ registry[t] \in overtaken
    <3>1. registry[t] \in Batch
      BY <2>1 DEF TablesInv, LoadInv, LoadType
    <3> QED BY <2>1, <3>1 DEF TablesInv, LoadInv, Entries
  <2> QED BY <2>1 DEF TargetsNameBatches
<1> QED BY <1>1, TablesInvariance, PTL

(* A queued query that fails or is cancelled leaves no table, for any       *)
(* number of workers and rows of the same name.                             *)
THEOREM FailuresClean == Spec => []NoOrphans
<1>1. TablesInv => NoOrphans
  BY DEF TablesInv, SaveInv
<1> QED BY <1>1, TablesInvariance, PTL

(* A row that says that it has made its table has made it, and there is one *)
(* until somebody has it dropped: its own, until a full load replaces it.   *)
THEOREM ResultsTrue == Spec => []ResultsExist
<1>1. TablesInv => ResultsExist
  BY DEF TablesInv, SaveInv
<1> QED BY <1>1, TablesInvariance, PTL

=============================================================================
