-------------------------------- MODULE Boards --------------------------------
(***************************************************************************)
(* Widget boards of a project: who sees and changes them, the widgets on   *)
(* them, and invitations by notification (widget_board_server/service.py). *)
(* A session acts in the project that its token claims, with the           *)
(* permission widgetboard.                                                 *)
(***************************************************************************)
EXTENDS Desk

Only == UNCHANGED <<access, tables, loads, saving, caching>>
NoHandOver == UNCHANGED <<handing, missed>> /\ Only

(* Rows that the open transaction has updated: others wait for its commit.  *)
HeldBoard(b) == handing[1] = "transfer" /\ handing[2] = b
Held(w) == handing # Nothing /\ w \in handing[5]

Who(s) == session[s].of
Owner(s, b) == board[b].owner = Who(s)

(* _can_read_board, assert_board_read: an inactive board is its owner's.    *)
CanRead(s, b) ==
  /\ Allowed(s, "widgetboard")
  /\ board[b].at = "there" /\ board[b].project = session[s].claim
  /\ \/ Owner(s, b)
     \/ /\ board[b].active
        /\ share[b][Who(s)] # "none" \/ board[b].scope = "project"

(* assert_board_edit                                                        *)
CanEdit(s, b) ==
  CanRead(s, b) /\ board[b].active /\ (Owner(s, b) \/ share[b][Who(s)] = "edit")

(* assert_board_owner                                                       *)
Owns(s, b) == CanRead(s, b) /\ Owner(s, b)

CreateBoard(s, b, scope) ==
  Request("board", <<"board", s, b, scope>>, Allowed(s, "widgetboard"), {},
    /\ board[b].at = "new"
    /\ board' = [board EXCEPT ![b] = [at |-> "there", active |-> TRUE, owner |-> Who(s),
                                      project |-> session[s].claim, scope |-> scope]]
    /\ UNCHANGED <<share, widget, invite>> /\ NoHandOver)

(* PATCH /boards/{id}, of what counts here: activity and scope.             *)
PatchBoard(s, b, active, scope) ==
  Request("board", <<"patch", s, b, active, scope>>,
    /\ Owns(s, b)
    /\ ~board[b].active => scope = board[b].scope, {b},
    /\ board[b].at = "there" /\ ~HeldBoard(b)
    /\ board' = [board EXCEPT ![b].active = active, ![b].scope = scope]
    /\ UNCHANGED <<share, widget, invite>> /\ NoHandOver)

(* DELETE /boards/{id}: its widgets, its shares and the notes that invite   *)
(* to it, found by the text of their payload: a note for a board whose id   *)
(* starts with this one's is found too.                                     *)
InvitesTo(b) == {n \in invite : n.board = b \/ <<n.board, b>> \in StartsWith}
UnreadTo(b) == {n \in InvitesTo(b) : ~n.read}
NotesOf(b) == InvitesTo(b)
CanDeleteBoard(s, b) == Owns(s, b) /\ ~board[b].active
DeleteBoard(s, b) ==
  Request("board", <<"delete board", s, b>>, CanDeleteBoard(s, b), {b},
    /\ board[b].at = "there" /\ ~HeldBoard(b)
    /\ \A w \in There(widget) : widget[w].board = b => ~Held(w)
    /\ board' = [board EXCEPT ![b].at = "gone"]
    /\ widget' = [w \in Widget |-> IF widget[w].at = "there" /\ widget[w].board = b
                                   THEN [widget[w] EXCEPT !.at = "gone"] ELSE widget[w]]
    /\ share' = [share EXCEPT ![b] = [u \in User |-> "none"]]
    /\ invite' = invite \ NotesOf(b)
    /\ NoHandOver)

-----------------------------------------------------------------------------
(* Widgets.                                                                 *)

(* _allowed_saved_table: mapped for widgets, and there.                     *)
CanShow(s, t) == "widget" \in map[session[s].claim][t] /\ table[t] # NotMade

AddWidget(s, w, b, t) ==
  Request("board", <<"widget", s, w, b, t>>, CanEdit(s, b) /\ CanShow(s, t), {w},
    /\ widget[w].at = "new"
    /\ widget' = [widget EXCEPT ![w] = [at |-> "there", board |-> b, by |-> Who(s), table |-> t]]
    /\ missed' = IF handing # Nothing /\ handing[2] = b /\ handing[3] = Who(s)
                 THEN missed \cup {w} ELSE missed
    /\ UNCHANGED <<board, share, invite, handing>> /\ Only)

PatchWidget(s, w, t) ==
  Request("board", <<"patch widget", s, w, t>>,
    CanEdit(s, widget[w].board) /\ CanShow(s, t) /\ widget[w].at = "there", {w},
    /\ widget[w].at = "there" /\ ~Held(w)
    /\ widget' = [widget EXCEPT ![w].table = t]
    /\ UNCHANGED <<board, share, invite>> /\ NoHandOver)

DeleteWidget(s, w) ==
  Request("board", <<"delete widget", s, w>>, CanEdit(s, widget[w].board), {w},
    /\ widget[w].at = "there" /\ ~Held(w)
    /\ widget' = [widget EXCEPT ![w].at = "gone"]
    /\ UNCHANGED <<board, share, invite>> /\ NoHandOver)

-----------------------------------------------------------------------------
(* Sharing.                                                                 *)

Shared(b, u, level) == share' = [share EXCEPT ![b][u] = level]

(* Nobody asks whether the user takes part in the project.                  *)
UpsertShare(s, b, u, level) ==
  Request("board", <<"share", s, b, u, level>>,
    Owns(s, b) /\ board[b].active /\ u # Who(s), {b},
    /\ Shared(b, u, level)
    /\ UNCHANGED <<board, widget, invite>> /\ NoHandOver)

(* DELETE /boards/{id}/shares/{user}: the widgets of whoever loses the      *)
(* share go to the owner, then the share goes, in one transaction; widgets  *)
(* that are added between the two statements are not among them.            *)
WidgetsOn(b) == {w \in There(widget) : widget[w].board = b}
WidgetsBy(b, u) == {w \in WidgetsOn(b) : widget[w].by = u}
DeleteShare(s, b, u) ==
  Request("board", <<"unshare", s, b, u>>, Owns(s, b), {b} \cup WidgetsBy(b, u),
    /\ handing = Nothing
    /\ handing' = <<"unshare", b, u, Who(s), WidgetsBy(b, u)>>
    /\ UNCHANGED <<board, share, widget, invite, missed>> /\ Only)

(* transfer_resource_ownership: the UPDATE of the board asks for the owner  *)
(* again; all its widgets go to the new one.                                *)
TransferBoard(s, b, from, to) ==
  Request("board", <<"transfer", s, b, from, to>>,
    /\ Acts(s, OrgAdmin) /\ board[b].at = "there" /\ board[b].owner = from
    /\ to \in OrgAdmin \ {from} /\ account[to].active, {b},
    /\ handing = Nothing /\ board[b].at = "there" /\ board[b].owner = from
    /\ handing' = <<"transfer", b, from, to, WidgetsOn(b)>>
    /\ UNCHANGED <<board, share, widget, invite, missed>> /\ Only)

LeavesWidgets(ws, heir) == widget
GivesWidgets(ws, heir) == [w \in Widget |-> IF w \in ws THEN [widget[w] EXCEPT !.by = heir] ELSE widget[w]]

HandedOver ==
  /\ Quietly("board") /\ handing # Nothing
  /\ widget' = GivesWidgets(handing[5], handing[4])
  /\ IF handing[1] = "unshare"
     THEN Shared(handing[2], handing[3], "none") /\ UNCHANGED board
     ELSE board' = [board EXCEPT ![handing[2]].owner = handing[4]] /\ UNCHANGED share
  /\ handing' = Nothing
  /\ UNCHANGED <<invite, missed>> /\ Only

HandOverFails ==
  /\ Quietly("board") /\ handing # Nothing
  /\ handing' = Nothing
  /\ UNCHANGED <<board, share, widget, invite, missed>> /\ Only

(* POST /boards/{id}/invites: one pending invitation for a participant who  *)
(* may use boards and has no share yet.                                     *)
Pending(b, u) == \E n \in invite : n.board = b /\ n.to = u /\ ~n.read
SendInvite(s, b, u, edit) ==
  Request("board", <<"invite", s, b, u, edit>>,
    /\ Owns(s, b) /\ board[b].active /\ u # Who(s)
    /\ "widgetboard" \in Grants[board[b].project][u] \cap Enabled(board[b].project)
    /\ share[b][u] = "none" /\ ~Pending(b, u), {b},
    /\ invite' = invite \cup {[to |-> u, board |-> b, by |-> Who(s), edit |-> edit, read |-> FALSE]}
    /\ UNCHANGED <<board, share, widget>> /\ NoHandOver)

(* The note stays, read; it can be taken up again once the share is gone.   *)
AcceptInvite(s, n) ==
  Request("board", <<"accept", s, n>>,
    /\ Allowed(s, "widgetboard") /\ n \in invite /\ n.to = Who(s)
    /\ board[n.board].at = "there" /\ board[n.board].project = session[s].claim
    /\ board[n.board].active /\ share[n.board][n.to] = "none", {n.board},
    /\ Shared(n.board, n.to, IF n.edit THEN "edit" ELSE "view")
    /\ invite' = IF n \in invite THEN (invite \ {n}) \cup {[n EXCEPT !.read = TRUE]} ELSE invite
    /\ UNCHANGED <<board, widget>> /\ NoHandOver)

RejectInvite(s, n) ==
  Request("board", <<"reject", s, n>>,
    Allowed(s, "widgetboard") /\ n \in invite /\ n.to = Who(s), {n.board},
    /\ n \in invite
    /\ invite' = invite \ {n}
    /\ UNCHANGED <<board, share, widget>> /\ NoHandOver)

=============================================================================
