------------------------------ MODULE MCWorkspace ------------------------------
(* The admin has the ETL; p1 is the project that the admin and the member   *)
(* take part in, p2 is not active any more.  One scene or two for each      *)
(* part, and one in which a query is saved while its name is registered.    *)
EXTENDS Workspace, TLC

CONSTANTS admin, member, guest, s1, s2, s3, p1, p2, t1, t2, e1, e2, c1, c2, b1, b2, d1, d2, w1, w2

All == {"query.read", "query.execute", "widgetboard"}
Given == (p1 :> (admin :> All @@ member :> All @@ guest :> {}))
         @@ (p2 :> (admin :> {} @@ member :> All @@ guest :> {}))
Longer == {<<d2, d1>>}

Person == [at |-> "there", active |-> TRUE, pw |-> 0, code |-> FALSE]
Begin(u, claim) == [at |-> "open", of |-> u, pw |-> 0, claim |-> claim]
Both == {"query", "widget"}
NoRow == [status |-> "new", name |-> NoTable, project |-> NoProject, hints |-> FALSE, result |-> FALSE]
NoReg == [at |-> "new", conn |-> NoConn, target |-> NoTable, source |-> NoTable, loaded |-> FALSE]
Reg(from, into, loaded) == [NoReg EXCEPT !.at = "there", !.conn = from, !.target = into, !.loaded = loaded]
NoItem == [at |-> "new", board |-> d1, by |-> NoUser, table |-> NoTable]
NoBoard == [at |-> "new", active |-> FALSE, owner |-> NoUser, project |-> NoProject, scope |-> "private"]

(* A table that e1 loads and p1 uses; nothing else yet.                     *)
Scene ==
  [open |-> {"session"}, apart |-> FALSE, requests |-> 3,
   account |-> (admin :> Person) @@ (member :> Person) @@ (guest :> [Person EXCEPT !.at = "new", !.active = FALSE]),
   session |-> (s1 :> Begin(admin, p1)) @@ (s2 :> Begin(member, p1))
               @@ (s3 :> [at |-> "new", of |-> NoUser, pw |-> 0, claim |-> NoProject]),
   project |-> (p1 :> [active |-> TRUE, flags |-> Both]) @@ (p2 :> [active |-> FALSE, flags |-> Both]),
   table |-> (t1 :> Loaded) @@ (t2 :> NotMade), master |-> {t1},
   map |-> (p1 :> (t1 :> Both @@ t2 :> {})) @@ (p2 :> (t1 :> {} @@ t2 :> {})),
   conn |-> (c1 :> [at |-> "there", file |-> FALSE]) @@ (c2 :> [at |-> "new", file |-> FALSE]),
   etl |-> (e1 :> Reg(c1, t1, TRUE)) @@ (e2 :> NoReg),
   batch |-> [v \in Batch |-> [at |-> "new", etl |-> NoEtl, target |-> NoTable, active |-> FALSE, todo |-> "done"]],
   registry |-> [v \in Table |-> NoBatch], scheduled |-> {},
   job |-> [v \in Job |-> NoRow],
   board |-> [v \in Board |-> NoBoard], share |-> [v \in Board |-> [u \in User |-> "none"]],
   widget |-> [v \in Widget |-> NoItem], invite |-> {}]

(* The member has changed to p2, closed since, and has a code on its way.   *)
Signing == [Scene EXCEPT !.requests = 4, !.session[s2] = Begin(member, p2), !.account[member].code = TRUE]

(* What was deleted before keeps a scene small.                             *)
Gone(row) == [row EXCEPT !.at = "gone"]

(* t1 is mapped by nobody; then another registration loads it too, through  *)
(* another connection.                                                      *)
Loading == [Scene EXCEPT !.open = {"map", "etl"}, !.map[p1][t1] = {},
                         !.conn[c2] = Gone(@), !.batch[b2] = Gone(@)]
Twice == [Loading EXCEPT !.requests = 4, !.etl[e2] = Reg(c2, t1, TRUE), !.batch[b1] = Gone(@),
                         !.conn[c2] = [at |-> "there", file |-> FALSE]]

(* The table master was not made (upsert_table_master_after_load failed).   *)
Unlisted == [Loading EXCEPT !.master = {}, !.batch[b1] = Gone(@)]

(* An ETL database of its own; batches without a registration.              *)
Separate == [Scene EXCEPT !.open = {"map", "etl"}, !.apart = TRUE,
                          !.conn[c2] = Gone(@), !.etl[e2] = Gone(Reg(c1, t2, FALSE)),
                          !.batch[b1] = [at |-> "there", etl |-> NoEtl, target |-> t2,
                                        active |-> TRUE, todo |-> "done"],
                          !.batch[b2] = Gone(@), !.registry[t2] = b1, !.scheduled = {b1}]
Listing == [Separate EXCEPT !.open = {"etl"}, !.etl[e1] = Gone(@),
                            !.conn[c2] = Scene.conn[c2], !.batch[b2] = Scene.batch[b2]]

Saving == [Scene EXCEPT !.open = {"save"}, !.requests = 2,
                        !.job[1] = [NoRow EXCEPT !.status = "queued", !.name = t2, !.project = p1, !.hints = TRUE]]

(* The name that is being saved, once or twice, is registered for a load.   *)
Racing == [Saving EXCEPT !.open = {"save", "etl"}, !.etl[e2] = Reg(c1, t2, FALSE),
                         !.etl[e1] = Gone(@), !.conn[c2] = Gone(@),
                         !.batch = [v \in Batch |-> Gone(Scene.batch[v])],
                         !.job[2] = [NoRow EXCEPT !.status = "failed", !.name = t1, !.project = p1]]
Crowded == [Racing EXCEPT !.requests = 1, !.job[2].status = "queued", !.job[2].name = t2]

(* A query was saved under the name before, and is to be saved again.       *)
Again == [Racing EXCEPT !.requests = 1, !.table[t2] = Saved(1), !.master = {t1, t2}, !.map[p1][t2] = Both,
                        !.job[1].status = "completed", !.job[1].result = TRUE,
                        !.job[2] = [NoRow EXCEPT !.status = "queued", !.name = t2, !.project = p1]]

Asking == [Scene EXCEPT !.open = {"guard", "map"}, !.requests = 2, !.master = {t1, t2}, !.table[t2] = Loaded]

(* A board of the admin that the member may change, and one whose id starts *)
(* with the same digits, inactive, with a note for the member.              *)
Sharing == [Scene EXCEPT
  !.open = {"board"}, !.requests = 4,
  !.board = (d1 :> [at |-> "there", active |-> TRUE, owner |-> admin, project |-> p1, scope |-> "private"])
            @@ (d2 :> [at |-> "there", active |-> FALSE, owner |-> admin, project |-> p1, scope |-> "private"]),
  !.share[d1][member] = "edit",
  !.widget = [v \in Widget |-> IF v = w1 THEN [at |-> "there", board |-> d1, by |-> member, table |-> t1] ELSE NoItem],
  !.invite = {[to |-> member, board |-> d2, by |-> admin, edit |-> TRUE, read |-> FALSE]}]

(* The member was invited to an inactive board and has no share.            *)
Inviting == [Sharing EXCEPT !.board[d1].active = FALSE, !.board[d2] = NoBoard, !.share[d1][member] = "none",
  !.widget[w1].by = admin,
  !.invite = {[to |-> member, board |-> d1, by |-> admin, edit |-> TRUE, read |-> FALSE]}]

(* The member's board, that the admin may change and take over.             *)
Handing == [Sharing EXCEPT !.requests = 3, !.board[d1].owner = member, !.board[d2] = NoBoard,
  !.share[d1] = [Scene.share[d1] EXCEPT ![admin] = "edit"], !.invite = {}]

Fourteen == {Signing, Loading, Twice, Unlisted, Separate, Listing, Saving, Racing, Crowded, Again,
             Asking, Sharing, Inviting, Handing}

Bodies == {<<{"query"}, (t1 :> {"query"} @@ t2 :> Both)>>, <<Both, (t1 :> {} @@ t2 :> {"query"})>>}
=============================================================================
