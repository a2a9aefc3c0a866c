------------------------------ MODULE SavedTables ------------------------------
(***************************************************************************)
(* Queries saved as tables: report_save_queue, whose rows the workers of   *)
(* query_studio_server/router.py take in turn.  A worker commits in two    *)
(* databases, one statement after the other, and undoes by hand what is    *)
(* left when one of them fails.                                            *)
(***************************************************************************)
EXTENDS Desk

Apart == UNCHANGED <<access, loads, caching, boards>>
QueueOnly == UNCHANGED tables /\ Apart

Row(s, t, hints) ==
  [status |-> "queued", name |-> t, project |-> session[s].claim, hints |-> hints, result |-> FALSE]

(* Rows are numbered in the order of their created_at.                      *)
NextRow == CHOOSE j \in Job : job[j].status = "new" /\ \A i \in Job : job[i].status = "new" => j <= i
Room == \E j \in Job : job[j].status = "new"
OfProject(s, j) == job[j].status # "new" /\ job[j].project = session[s].claim

(* POST /save-query-as-table                                                *)
SaveQueryAsTable(s, t, hints) ==
  Request("save", <<"save", s, t, hints>>, Allowed(s, "query.execute"), {},
    /\ Room
    /\ job' = [job EXCEPT ![NextRow] = Row(s, t, hints)]
    /\ UNCHANGED <<worker, unsure>> /\ QueueOnly)

(* POST .../queue/{id}/cancel, by anyone who may read; one UPDATE.          *)
Cancellable(j) == job[j].status = "queued"
CancelSave(s, j) ==
  Request("save", <<"cancel", s, j>>, Allowed(s, "query.read") /\ OfProject(s, j), {},
    /\ Cancellable(j)
    /\ job' = [job EXCEPT ![j].status = "cancelled"]
    /\ UNCHANGED <<worker, unsure>> /\ QueueOnly)

(* POST .../queue/{id}/requeue: the same again, as a new row.               *)
RequeueSave(s, j) ==
  Request("save", <<"requeue", s, j>>,
    Allowed(s, "query.execute") /\ OfProject(s, j) /\ job[j].status # "running", {},
    /\ Room
    /\ job' = [job EXCEPT ![NextRow] = [Row(s, job[j].name, job[j].hints) EXCEPT !.project = job[j].project]]
    /\ UNCHANGED <<worker, unsure>> /\ QueueOnly)

-----------------------------------------------------------------------------
(* A worker.  Its steps are those of one pass of _save_table_worker.        *)

At(w, pc) == worker[w].pc = pc
Go(w, pc) == worker' = [worker EXCEPT ![w].pc = pc]
Name(w) == job[worker[w].job].name
Oldest(j) == job[j].status = "queued" /\ \A i \in Job : job[i].status = "queued" => j <= i

(* SELECT ... ORDER BY created_at FOR UPDATE SKIP LOCKED, UPDATE, commit.   *)
Claim(w, j) ==
  /\ Quietly("save") /\ At(w, "idle") /\ Oldest(j)
  /\ job' = [job EXCEPT ![j].status = "running"]
  /\ worker' = [worker EXCEPT ![w] = [pc |-> "claimed", job |-> j, ok |-> TRUE]]
  /\ UNCHANGED unsure /\ QueueOnly

(* CREATE TABLE ... AS, which fails when there is one of that name.  The    *)
(* answer to the commit may be lost: the worker takes it for a failure.     *)
CreateTable(w, told) ==
  /\ Quietly("save") /\ At(w, "claimed") /\ table[Name(w)] = NotMade
  /\ table' = [table EXCEPT ![Name(w)] = Saved(worker[w].job)]
  /\ Go(w, IF told THEN "made" ELSE "failing")
  /\ unsure' = IF told THEN unsure ELSE unsure \cup {worker[w].job}
  /\ UNCHANGED <<job, project, master, map, gone, dropped, replaced>> /\ Apart

CreateFailsDropping(w) ==
  /\ Quietly("save") /\ At(w, "claimed")
  /\ Go(w, "orphan")
  /\ UNCHANGED <<job, unsure>> /\ QueueOnly
CreateFails(w) ==
  /\ Quietly("save") /\ At(w, "claimed")
  /\ Go(w, "failing")
  /\ UNCHANGED <<job, unsure>> /\ QueueOnly

(* The comments of its columns, when there are hints; one that cannot be    *)
(* set does not stop the rest.                                              *)
SetComments(w, ok) ==
  /\ Quietly("save") /\ At(w, "made")
  /\ ok \/ job[worker[w].job].hints
  /\ worker' = [worker EXCEPT ![w].pc = "noted", ![w].ok = ok]
  /\ UNCHANGED <<job, unsure>> /\ QueueOnly

(* An exception: the table that was made is to be dropped.                  *)
StepFails(w) ==
  /\ Quietly("save") /\ worker[w].pc \in {"made", "noted", "registered"}
  /\ Go(w, "orphan")
  /\ UNCHANGED <<job, unsure>> /\ QueueOnly

(* _upsert_table_master_and_mapping: the project may query the table, and   *)
(* show it in widgets when it has both features.                            *)
RegisterTable(w, told) ==
  LET p == job[worker[w].job].project
      both == {"query", "widget"} \subseteq project[p].flags
  IN /\ Quietly("save") /\ At(w, "noted") /\ Free(Name(w))
     /\ master' = master \cup {Name(w)}
     /\ map' = [map EXCEPT ![p][Name(w)] = @ \cup {"query"} \cup (IF both THEN {"widget"} ELSE {})]
     /\ Go(w, IF told THEN "registered" ELSE "orphan")
     /\ UNCHANGED <<job, unsure, project, table, gone, dropped, replaced>> /\ Apart

(* The last UPDATE of the row: a failure when a comment was, with the table *)
(* kept all the same.                                                       *)
Finish(w, told) ==
  LET j == worker[w].job
  IN /\ Quietly("save") /\ At(w, "registered")
     /\ job' = [job EXCEPT ![j].status = IF worker[w].ok THEN "completed" ELSE "failed",
                           ![j].result = TRUE]
     /\ worker' = [worker EXCEPT ![w] = IF told THEN [pc |-> "idle", job |-> 0, ok |-> TRUE]
                                        ELSE [@ EXCEPT !.pc = "orphan"]]
     /\ unsure' = IF told THEN unsure ELSE unsure \cup {j}
     /\ QueueOnly

-----------------------------------------------------------------------------
(* What is left when a step failed.                                         *)

(* _drop_orphan_saved_physical_table_if_any; it only logs its own failure.  *)
(* The table master and the mapping stay.                                   *)
KeepsOrphan(w) == table
WithoutOrphan(w) == [table EXCEPT ![Name(w)] = NotMade]
DropOrphan(w) ==
  /\ Quietly("save") /\ At(w, "orphan")
  /\ table' = WithoutOrphan(w)
  /\ dropped' = dropped \cup {Name(w)}
  /\ Go(w, "failing")
  /\ UNCHANGED <<job, unsure, project, master, map, gone, replaced>> /\ Apart

DropFails(w) ==
  /\ Quietly("save") /\ At(w, "orphan")
  /\ unsure' = unsure \cup {worker[w].job}
  /\ Go(w, "failing")
  /\ UNCHANGED job /\ QueueOnly

Rest(w) == worker' = [worker EXCEPT ![w] = [pc |-> "idle", job |-> 0, ok |-> TRUE]]

(* The row is marked, whatever it says by then.                             *)
MarkFailed(w) ==
  /\ Quietly("save") /\ At(w, "failing")
  /\ job' = [job EXCEPT ![worker[w].job].status = "failed"]
  /\ Rest(w)
  /\ UNCHANGED unsure /\ QueueOnly

(* The mark cannot be written, or the process dies: nothing takes the row   *)
(* up again.                                                                *)
GiveUp(w) ==
  /\ Quietly("save") /\ ~At(w, "idle")
  /\ unsure' = unsure \cup {worker[w].job}
  /\ Rest(w)
  /\ UNCHANGED job /\ QueueOnly

=============================================================================
