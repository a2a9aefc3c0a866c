----------------------------- MODULE TargetTables -----------------------------
(***************************************************************************)
(* The tables that ETL loads fill: their registrations, connections and    *)
(* batches (etl_server/service.py, service_file.py), the table masters     *)
(* that a load leaves behind, and the projects that use them               *)
(* (admin_server/service_tables.py, service_projects.py).                  *)
(***************************************************************************)
EXTENDS Desk

Others == UNCHANGED <<access, saving, caching, boards>>

(* The projects' side: a mapping exists while it allows some use.           *)
MapOnly == UNCHANGED <<table, master, gone, dropped, replaced, loads>> /\ Others

(* POST /projects/{id}/tables. A key of the mapping is taken once.          *)
AddMapping(s, p, t) ==
  Request("map", <<"map", s, p, t>>,
    Acts(s, OrgAdmin) /\ project[p].active /\ t \in master /\ map[p][t] = {}, {t},
    /\ Free(t) /\ map[p][t] = {}
    /\ map' = [map EXCEPT ![p][t] = {"query", "widget"}]
    /\ UNCHANGED project /\ MapOnly)

DeleteMapping(s, p, t) ==
  Request("map", <<"unmap", s, p, t>>, Acts(s, OrgAdmin) /\ project[p].active, {t},
    /\ map[p][t] # {}
    /\ map' = [map EXCEPT ![p][t] = {}]
    /\ UNCHANGED project /\ MapOnly)

(* PUT /projects/{id}: the flags and the whole list of tables at once; what *)
(* is not in the list is unmapped, even when it came meanwhile.             *)
UpdateProject(s, p, flags, wanted) ==
  Request("map", <<"update", s, p, flags, wanted>>,
    /\ Acts(s, OrgAdmin) /\ project[p].active
    /\ \A t \in Table : wanted[t] # {} => t \in master, {t \in Table : wanted[t] # {}},
    /\ \A t \in Table : wanted[t] # {} => Free(t)
    /\ project' = [project EXCEPT ![p].flags = flags]
    /\ map' = [map EXCEPT ![p] = wanted]
    /\ MapOnly)

-----------------------------------------------------------------------------
(* Connections and registrations.                                           *)

Registering == UNCHANGED <<tables, load, deleting, batches>> /\ Others

CreateConnection(s, c) ==
  Request("etl", <<"connection", s, c>>, Acts(s, EtlUser), {},
    /\ conn[c].at = "new"
    /\ conn' = [conn EXCEPT ![c] = [at |-> "there", file |-> FALSE]]
    /\ UNCHANGED etl /\ Registering)

(* The one connection for uploaded files is made when it is first asked for *)
(* (get_or_create_file_connection): two requests may each make one.         *)
CreateFileConnection(s, c) ==
  Request("etl", <<"files", s, c>>,
    Acts(s, EtlUser) /\ \A d \in There(conn) : ~conn[d].file, {},
    /\ conn[c].at = "new"
    /\ conn' = [conn EXCEPT ![c] = [at |-> "there", file |-> TRUE]]
    /\ UNCHANGED etl /\ Registering)

(* POST /etl/tables. A full load is for a new table, a diff for an old one. *)
CreateEtlTable(s, e, c, t, from, mode) ==
  Request("etl", <<"etl", s, e, c, t, from, mode>>,
    /\ Acts(s, EtlUser)
    /\ mode = "full" => table[t] = NotMade
    /\ mode = "diff" => table[t] # NotMade, {},
    /\ etl[e].at = "new"
    /\ etl' = [etl EXCEPT ![e] = [at |-> "there", conn |-> c, target |-> t, source |-> from, loaded |-> FALSE]]
    /\ UNCHANGED conn /\ Registering)

-----------------------------------------------------------------------------
(* Loads.  A full load drops the table of its name, whoever made it, and    *)
(* makes it anew; another one makes it when there is none.  One that reads  *)
(* nothing makes no table and goes on all the same.                         *)
LoadOnly == UNCHANGED <<project, map, conn, deleting, batches>> /\ Others

LoadTable(e, how) ==
  LET t == etl[e].target
      makes == how = "full" \/ (how = "more" /\ table[t] = NotMade)
  IN Request("etl", <<"load", e, how>>, etl[e].at = "there", {},
       /\ load[e] = "idle"
       /\ load' = [load EXCEPT ![e] = IF how = "full" THEN "fresh" ELSE "made"]
       /\ etl' = [etl EXCEPT ![e].loaded = FALSE]
       /\ table' = IF makes THEN [table EXCEPT ![t] = Loaded] ELSE table
       /\ replaced' = IF makes /\ table[t] # NotMade THEN replaced \cup {t} ELSE replaced
       /\ dropped' = IF ~makes /\ table[t] = NotMade THEN dropped \cup {t} ELSE dropped
       /\ UNCHANGED <<master, gone>> /\ LoadOnly)

BeingLoaded(t) == \E e \in Etl : load[e] \in {"fresh", "made"} /\ etl[e].target = t

(* The table master, in a transaction of its own (table_master_hook.py); a  *)
(* hook that fails keeps the load, and a diff has none.                     *)
RecordMaster(e, done) ==
  LET t == etl[e].target
  IN /\ Quietly("etl") /\ load[e] \in {"fresh", "made"}
     /\ done => Free(t)
     /\ master' = IF done THEN master \cup {t} ELSE master
     /\ load' = [load EXCEPT ![e] = "noted"]
     /\ UNCHANGED <<table, gone, dropped, replaced, etl>> /\ LoadOnly

(* The registration says that it is done, if it is still there.             *)
RecordLoad(e) ==
  /\ Quietly("etl") /\ load[e] = "noted"
  /\ load' = [load EXCEPT ![e] = "idle"]
  /\ etl' = [etl EXCEPT ![e].loaded = etl[e].at = "there"]
  /\ UNCHANGED tables /\ LoadOnly

(* It failed, or the process died.                                          *)
LoadFails(e) ==
  /\ Quietly("etl") /\ load[e] # "idle"
  /\ load' = [load EXCEPT ![e] = "idle"]
  /\ UNCHANGED <<tables, etl>> /\ LoadOnly

(* A full load that was cancelled drops what it made.                       *)
LoadCancelled(e) ==
  LET t == etl[e].target
  IN /\ Quietly("etl") /\ load[e] = "fresh"
     /\ load' = [load EXCEPT ![e] = "idle"]
     /\ table' = [table EXCEPT ![t] = NotMade]
     /\ gone' = gone \cup {t} /\ dropped' = dropped \cup {t}
     /\ UNCHANGED <<master, replaced, etl>> /\ LoadOnly

-----------------------------------------------------------------------------
(* Deletion.  Two databases: the tables are dropped and that is committed,  *)
(* then the rows.                                                           *)

(* An ETL database of its own has no table_master to count the mappings of. *)
Unmapped(t) == apart \/ \A p \in Project : map[p][t] = {}
AnotherFills(e) == \E f \in There(etl) \ {e} : etl[f].target = etl[e].target
AnotherReads(e) == \E f \in There(etl) \ {e} : etl[f].source = etl[e].target
CanDeleteAlways(s, e) == Acts(s, EtlUser) /\ etl[e].at = "there" /\ Unmapped(etl[e].target)
CanDeleteEtlTable(s, e) ==
  /\ Acts(s, EtlUser) /\ etl[e].at = "there"
  /\ ~AnotherFills(e) /\ ~AnotherReads(e)
  /\ Unmapped(etl[e].target)

(* An entry of the registry is being written for the batch.                 *)
InHand(b) == b \in listing \/ batch[b].todo = "register"

BatchesOf(e) == {b \in There(batch) : batch[b].etl = e}

(* The rows of a registration and of its batches; one that was made since   *)
(* loses its registration (ON DELETE SET NULL).                             *)
Forget(e, bs) ==
  /\ etl' = [etl EXCEPT ![e].at = "gone"]
  /\ batch' = [b \in Batch |->
       CASE b \in bs /\ batch[b].at = "there" -> [batch[b] EXCEPT !.at = "gone", !.etl = NoEtl]
         [] b \notin bs /\ batch[b].etl = e -> [batch[b] EXCEPT !.etl = NoEtl]
         [] OTHER -> batch[b]]
  /\ registry' = [t \in Table |-> IF registry[t] \in bs THEN NoBatch ELSE registry[t]]
  /\ overtaken' = overtaken \cup {b \in bs : InHand(b)}
  /\ UNCHANGED <<listing, leaving>>

(* A query is being saved under the name: nobody asks for that either.      *)
BeingSaved(t) == \E w \in Worker : worker[w].pc # "idle" /\ job[worker[w].job].name = t

(* DELETE /etl/tables/{id}: the scheduler is told and the table is dropped; *)
(* the rows are deleted, in a transaction still open.  The table master is  *)
(* among them, when there is one: a mapping of it would make its DELETE     *)
(* fail.                                                                    *)
DeleteEtlTable(s, e, drop) ==
  LET t == etl[e].target
  IN Request("etl", <<"delete", s, e, drop>>, CanDeleteEtlTable(s, e), {t, e},
       /\ deleting = Nothing /\ etl[e].at = "there" /\ Unmapped(t)
       /\ scheduled' = scheduled \ BatchesOf(e)
       /\ IF drop
          THEN /\ deleting' = <<"etl", e, BatchesOf(e), t \in master /\ ~apart>>
               /\ table' = [table EXCEPT ![t] = NotMade]
               /\ gone' = gone \cup {t}
               /\ dropped' = IF apart \/ BeingSaved(t) \/ BeingLoaded(t) THEN dropped \cup {t} ELSE dropped
          ELSE UNCHANGED <<deleting, table, gone, dropped>>
       /\ UNCHANGED <<project, master, map, replaced, conn, etl, load>>
       /\ UNCHANGED <<batch, registry, listing, leaving, overtaken>> /\ Others)

DeletedEtlTable(e) ==
  LET t == etl[e].target
  IN /\ Quietly("etl") /\ deleting[1] = "etl" /\ deleting[2] = e
     /\ master' = IF deleting[4] THEN master \ {t} ELSE master
     /\ Forget(e, deleting[3])
     /\ deleting' = Nothing
     /\ UNCHANGED <<project, table, map, gone, dropped, replaced, conn, load, scheduled>> /\ Others

(* DELETE /etl/tables/{id}/row: the table stays, the scheduler goes on.     *)
(* The rows of its batches may not go; they lose the registration then.     *)
DeleteEtlTableRowOnly(s, e, too) ==
  Request("etl", <<"row", s, e, too>>, Acts(s, EtlUser) /\ etl[e].at = "there", {e},
    /\ etl[e].at = "there" /\ ~(deleting[1] = "etl" /\ deleting[2] = e)
    /\ Forget(e, IF too THEN BatchesOf(e) ELSE {})
    /\ UNCHANGED <<tables, conn, load, scheduled, deleting>> /\ Others)

(* DELETE /etl/connections/{id}: every table that only its registrations    *)
(* fill is dropped, whoever uses it.                                        *)
Through(c) == {e \in There(etl) : etl[e].conn = c}
FilledOnlyThrough(c) ==
  {t \in Table : /\ \E e \in Through(c) : etl[e].target = t
                 /\ \A e \in There(etl) \ Through(c) : etl[e].target # t}
DeleteConnection(s, c) ==
  Request("etl", <<"disconnect", s, c>>, Acts(s, EtlUser) /\ conn[c].at = "there" /\ ~conn[c].file, {},
    /\ deleting = Nothing /\ conn[c].at = "there"
    /\ deleting' = <<"conn", c>>
    /\ table' = [t \in Table |-> IF t \in FilledOnlyThrough(c) THEN NotMade ELSE table[t]]
    /\ gone' = gone \cup FilledOnlyThrough(c) /\ dropped' = dropped \cup FilledOnlyThrough(c)
    /\ UNCHANGED <<project, master, map, replaced, conn, etl, load, batches>> /\ Others)

(* Their batches lose the registration and stay (ON DELETE SET NULL).       *)
DeletedConnection(c) ==
  /\ Quietly("etl") /\ deleting = <<"conn", c>>
  /\ conn' = [conn EXCEPT ![c].at = "gone"]
  /\ etl' = [e \in Etl |-> IF e \in Through(c) THEN [etl[e] EXCEPT !.at = "gone"] ELSE etl[e]]
  /\ batch' = [b \in Batch |-> IF batch[b].etl \in Through(c) THEN [batch[b] EXCEPT !.etl = NoEtl] ELSE batch[b]]
  /\ deleting' = Nothing
  /\ UNCHANGED <<tables, load, registry, scheduled, listing, leaving, overtaken>> /\ Others

(* The rows could not be deleted, or the process died: they stay, the       *)
(* tables are gone.                                                         *)
DeletionFails ==
  /\ Quietly("etl") /\ deleting # Nothing
  /\ dropped' = dropped \cup (IF deleting[1] = "etl" THEN {etl[deleting[2]].target} ELSE {})
  /\ deleting' = Nothing
  /\ UNCHANGED <<project, table, master, map, gone, replaced, conn, etl, load, batches>> /\ Others

-----------------------------------------------------------------------------
(* Batches.  After its row is committed, a batch without a registration is  *)
(* entered in the registry of targets, and scheduled when active.  Sources  *)
(* are not told apart: two such batches of one target have different ones.  *)
BatchOnly == UNCHANGED <<tables, conn, etl, load, deleting>> /\ Others

CreateBatchJob(s, b, e, t, active) ==
  Request("etl", <<"batch", s, b, e, t, active>>,
    /\ Acts(s, EtlUser)
    /\ e # NoEtl => /\ etl[e].at = "there" /\ etl[e].loaded /\ etl[e].target = t
                    /\ BatchesOf(e) = {}, {},
    /\ batch[b].at = "new"
    /\ batch' = [batch EXCEPT ![b] = [at |-> "there", etl |-> e, target |-> t, active |-> active,
                                      todo |-> IF e = NoEtl THEN "register" ELSE "schedule"]]
    /\ UNCHANGED <<registry, scheduled, listing, leaving, overtaken>> /\ BatchOnly)

(* upsert_batch_target_registry: the entry of the target is the batch's,    *)
(* whether the batch is still there or not; no key refers to it.            *)
Leaving(b) == \E l \in leaving : l[1] = b
Entered(b, written) ==
  /\ registry' = IF written THEN [registry EXCEPT ![batch[b].target] = b] ELSE registry
  /\ overtaken' = IF Leaving(b) THEN overtaken \cup {b} ELSE overtaken
  /\ UNCHANGED leaving

(* What fails here is logged and the batch stays.                           *)
RegisterTarget(b, written) ==
  /\ Quietly("etl") /\ batch[b].todo = "register"
  /\ Entered(b, written)
  /\ batch' = [batch EXCEPT ![b].todo = "schedule"]
  /\ UNCHANGED <<scheduled, listing>> /\ BatchOnly

ScheduleBatch(b) ==
  /\ Quietly("etl") /\ batch[b].todo = "schedule"
  /\ scheduled' = IF batch[b].at = "there" /\ batch[b].active THEN scheduled \cup {b} ELSE scheduled
  /\ batch' = [batch EXCEPT ![b].todo = "done"]
  /\ UNCHANGED <<registry, listing, leaving, overtaken>> /\ BatchOnly

(* GET /batch/target-registry reads the batches without a registration, and *)
(* then enters them one by one, each committed by itself.                   *)
ReadBatches(s) ==
  /\ Quietly("etl") /\ Acts(s, EtlUser) /\ listing = {}
  /\ listing' = {b \in There(batch) : batch[b].etl = NoEtl /\ batch[b].target \in Table}
  /\ UNCHANGED <<batch, registry, scheduled, leaving, overtaken>> /\ BatchOnly

EnterListed(b, written) ==
  /\ Quietly("etl") /\ b \in listing
  /\ listing' = listing \ {b}
  /\ Entered(b, written)
  /\ UNCHANGED <<batch, scheduled>> /\ BatchOnly

(* DELETE /batch/jobs/{id}: out of the scheduler, out of the registry, then *)
(* the row, in transactions of their own.                                   *)
ClearsNothing(b) == registry
Cleared(b) == [t \in Table |-> IF registry[t] = b THEN NoBatch ELSE registry[t]]
DeleteBatchJob(s, b) ==
  Request("etl", <<"delete batch", s, b>>, Acts(s, EtlUser) /\ batch[b].at = "there", {b},
    /\ scheduled' = scheduled \ {b}
    /\ registry' = Cleared(b)
    /\ leaving' = leaving \cup {<<b, NoTable>>}
    /\ UNCHANGED <<batch, listing, overtaken>> /\ BatchOnly)

(* DELETE /batch/target-registry/{id}: the batch, its table and the entry,  *)
(* whatever that says by then; nobody is asked who else fills or uses the   *)
(* table.                                                                   *)
DeleteTargetAndDrop(s, t, b) ==
  Request("etl", <<"delete target", s, t, b>>, Acts(s, EtlUser) /\ registry[t] = b, {},
    /\ scheduled' = scheduled \ {b}
    /\ registry' = [Cleared(b) EXCEPT ![t] = NoBatch]
    /\ leaving' = leaving \cup {<<b, t>>}
    /\ UNCHANGED <<batch, listing, overtaken>> /\ BatchOnly)

(* The row goes, and the table; each may fail.                              *)
DeletedBatchJob(b, t, deleted, drop) ==
  /\ Quietly("etl") /\ <<b, t>> \in leaving
  /\ leaving' = leaving \ {<<b, t>>}
  /\ IF deleted
     THEN /\ batch' = [batch EXCEPT ![b].at = "gone", ![b].etl = NoEtl]
          /\ overtaken' = IF InHand(b) THEN overtaken \cup {b} ELSE overtaken
     ELSE UNCHANGED <<batch, overtaken>>
  /\ IF t # NoTable /\ drop
     THEN /\ table' = [table EXCEPT ![t] = NotMade]
          /\ gone' = gone \cup {t} /\ dropped' = dropped \cup {t}
     ELSE UNCHANGED <<table, gone, dropped>>
  /\ UNCHANGED <<project, master, map, replaced, conn, etl, load, deleting>>
  /\ UNCHANGED <<registry, scheduled, listing>> /\ Others

=============================================================================
