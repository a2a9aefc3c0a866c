----------------------------- MODULE Relationships -----------------------------
(***************************************************************************)
(* The relationships between the tables that a project may query: computed *)
(* under a semaphore, kept for a while under a key of the project and the  *)
(* names of its tables (query_studio_server/peak_guard.py and router.py).  *)
(***************************************************************************)
EXTENDS Desk

Alone == UNCHANGED <<access, tables, loads, saving, boards>>

(* get_main_query_studio_allowed_tables                                     *)
AllowedTables(p) == {t \in Table : "query" \in map[p][t]}

(* relationship_cache_key: the project and a fingerprint of the names.      *)
KeyOfProject(p, names) == [project |-> p, names |-> {}]
CacheKey(p, names) == [project |-> p, names |-> names]

Cached(k) == k \in DOMAIN cache
Working == {"computing", "columns", "known"}
Heavy == {r \in Reader : reader[r].pc \in Working}

(* GET /relationships: the names are read first and make the key; what is   *)
(* cached under it is the answer.                                           *)
ReadNames(r, s) ==
  LET names == AllowedTables(session[s].claim)
      k == CacheKey(session[s].claim, names)
  IN /\ Quietly("guard") /\ reader[r].pc = "idle"
     /\ Allowed(s, "query.read") /\ ~Cached(k)
     /\ reader' = [reader EXCEPT ![r] = [pc |-> "named", key |-> k, names |-> names, columns |-> {}, steady |-> TRUE]]
     /\ UNCHANGED <<cache, moved>> /\ Alone

(* run_under_relationship_sem: a permit in time, or 503; then the cache is  *)
(* looked up again.                                                         *)
Enter(r) ==
  /\ Quietly("guard") /\ reader[r].pc = "named" /\ Cardinality(Heavy) < MaxHeavy
  /\ reader' = [reader EXCEPT ![r].pc = IF Cached(reader[r].key) THEN "idle" ELSE "computing"]
  /\ UNCHANGED <<cache, moved>> /\ Alone

NoAnswer(r) ==
  /\ Quietly("guard") /\ reader[r].pc \in {"named"} \cup Working
  /\ reader' = [reader EXCEPT ![r].pc = "idle"]
  /\ UNCHANGED <<cache, moved>> /\ Alone

(* The computation reads the names three times more: those whose columns it *)
(* asks for (_compute_relationships_all_raw), those of them that it is      *)
(* given (get_all_tables_columns_with_types), and those whose keys it       *)
(* follows (_fetch_relationships).                                          *)
Now(r) == AllowedTables(reader[r].key.project)
Steady(r) == reader[r].steady /\ Now(r) = reader[r].names

AskColumns(r) ==
  /\ Quietly("guard") /\ reader[r].pc = "computing"
  /\ reader' = [reader EXCEPT ![r].pc = "columns", ![r].columns = Now(r), ![r].steady = Steady(r)]
  /\ UNCHANGED <<cache, moved>> /\ Alone

ReadColumns(r) ==
  /\ Quietly("guard") /\ reader[r].pc = "columns"
  /\ reader' = [reader EXCEPT ![r].pc = "known", ![r].columns = reader[r].columns \cap Now(r),
                              ![r].steady = Steady(r)]
  /\ UNCHANGED <<cache, moved>> /\ Alone

(* The result is stored under the key of the first reading.                 *)
Compute(r) ==
  LET k == reader[r].key
      answer == [columns |-> reader[r].columns, keys |-> Now(r)]
  IN /\ Quietly("guard") /\ reader[r].pc = "known"
     /\ cache' = [x \in DOMAIN cache \cup {k} |-> IF x = k THEN answer ELSE cache[x]]
     /\ reader' = [reader EXCEPT ![r].pc = "idle"]
     /\ moved' = IF Steady(r) THEN moved \ {k} ELSE moved \cup {k}
     /\ Alone

(* relationship_cache_purge_expired_entries                                 *)
Purge(k) ==
  /\ Quietly("guard") /\ Cached(k)
  /\ cache' = [x \in DOMAIN cache \ {k} |-> cache[x]]
  /\ UNCHANGED <<reader, moved>> /\ Alone

=============================================================================
