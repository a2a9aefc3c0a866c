------------------------------ MODULE BoardProofs ------------------------------
(***************************************************************************)
(* Proofs about what users look at: the cache of relationships, and the    *)
(* boards with their widgets, shares and invitations, for any number of    *)
(* readers, boards and users; and the types of all that the desk has.      *)
(***************************************************************************)
EXTENDS TableProofs

(* A reader that has met no change has read what its key names.             *)
Reads(row) ==
  /\ row \in Lookup
  /\ row.pc # "idle" => row.names = row.key.names
  /\ row.pc \in {"columns", "known"} /\ row.steady => row.columns = row.names

(* An answer that did not move under its computation is the one that its    *)
(* key names.                                                               *)
CacheInv ==
  /\ reader \in [Reader -> Lookup] /\ \A r \in Reader : Reads(reader[r])
  /\ moved \subseteq Key /\ DOMAIN cache \subseteq Key
  /\ \A k \in DOMAIN cache : cache[k] \in Answer
  /\ \A k \in DOMAIN cache \ moved : cache[k] = [columns |-> k.names, keys |-> k.names]

LEMMA ReaderGoesOn ==
  ASSUME CacheInv, NEW r \in Reader, NEW row, Reads(row), reader' = [reader EXCEPT ![r] = row],
         UNCHANGED <<cache, moved>>
  PROVE  CacheInv'
<1>1. reader' \in [Reader -> Lookup] /\ \A x \in Reader : Reads(reader'[x])
  BY DEF CacheInv, Reads
<1> QED BY <1>1 DEF CacheInv, Reads

(* What the steps of a reader make of its row.                              *)
LEMMA RowsRead ==
  ASSUME NEW row, Reads(row), row.pc # "idle", NEW names \in SUBSET Table, NEW steady \in BOOLEAN,
         steady => row.steady /\ names = row.names
  PROVE  /\ Reads([row EXCEPT !.pc = "idle"]) /\ Reads([row EXCEPT !.pc = "computing"])
         /\ Reads([row EXCEPT !.pc = "columns", !.columns = names, !.steady = steady])
         /\ row.pc = "columns" =>
              Reads([row EXCEPT !.pc = "known", !.columns = row.columns \cap names, !.steady = steady])
         /\ row.names = row.key.names /\ row.key \in Key /\ row.columns \in SUBSET Table
<1>1. row \in Lookup /\ row.names = row.key.names
  BY DEF Reads
<1>2. Reads([row EXCEPT !.pc = "idle"]) /\ Reads([row EXCEPT !.pc = "computing"])
  BY <1>1 DEF Reads, Lookup
<1>3. Reads([row EXCEPT !.pc = "columns", !.columns = names, !.steady = steady])
  BY <1>1 DEF Reads, Lookup
<1>4. ASSUME row.pc = "columns" PROVE Reads([row EXCEPT !.pc = "known", !.columns = row.columns \cap names, !.steady = steady])
  <2> DEFINE columns == row.columns \cap names
  <2>1. columns \in SUBSET Table /\ (steady => columns = row.names)
    BY <1>1, <1>4 DEF Reads
  <2> HIDE DEF columns
  <2>2. Reads([row EXCEPT !.pc = "known", !.columns = columns, !.steady = steady])
    BY <1>1, <2>1 DEF Reads, Lookup
  <2> QED BY <2>2 DEF columns
<1> QED BY <1>1, <1>2, <1>3, <1>4 DEF Lookup

LEMMA CacheStep == AccessType /\ CacheInv /\ [Next]_vars => CacheInv'
<1> SUFFICES ASSUME AccessType, CacheInv, [Next]_vars PROVE CacheInv'
  OBVIOUS
<1>1. ASSUME UNCHANGED caching PROVE CacheInv'
  BY <1>1 DEF CacheInv, Reads, caching
<1>2. CASE ~Guard
  <2>1. UNCHANGED caching
    BY <1>2, SessionFrame, MapFrame, EtlFrame, SaveFrame, BoardFrame DEF Next, Abandon, vars, data
  <2> QED BY <1>1, <2>1
<1>3. \A r \in Reader : Reads(reader[r]) /\ Now(r) \in SUBSET Table
  BY DEF CacheInv, Now, AllowedTables
<1>4. ASSUME NEW r \in Reader, Enter(r) \/ NoAnswer(r) PROVE CacheInv'
  <2>1. /\ reader[r].pc # "idle" /\ UNCHANGED <<cache, moved>>
        /\ \/ reader' = [reader EXCEPT ![r] = [reader[r] EXCEPT !.pc = "idle"]]
           \/ reader' = [reader EXCEPT ![r] = [reader[r] EXCEPT !.pc = "computing"]]
    BY <1>4 DEF Enter, NoAnswer, Working
  <2>2. Reads([reader[r] EXCEPT !.pc = "idle"]) /\ Reads([reader[r] EXCEPT !.pc = "computing"])
    BY <1>3, <2>1, RowsRead
  <2> QED BY <2>1, <2>2, ReaderGoesOn
<1>8. ASSUME NEW r \in Reader, AskColumns(r) \/ ReadColumns(r) PROVE CacheInv'
  <2> DEFINE asked == [reader[r] EXCEPT !.pc = "columns", !.columns = Now(r), !.steady = Steady(r)]
             given == [reader[r] EXCEPT !.pc = "known", !.columns = reader[r].columns \cap Now(r), !.steady = Steady(r)]
  <2>1. /\ reader[r].pc # "idle" /\ UNCHANGED <<cache, moved>>
        /\ \/ reader' = [reader EXCEPT ![r] = asked]
           \/ reader[r].pc = "columns" /\ reader' = [reader EXCEPT ![r] = given]
    BY <1>8 DEF AskColumns, ReadColumns
  <2>2. Steady(r) \in BOOLEAN /\ (Steady(r) => reader[r].steady /\ Now(r) = reader[r].names)
    BY DEF Steady
  <2>3. Reads(asked) /\ (reader[r].pc = "columns" => Reads(given))
    BY <1>3, <2>1, <2>2, RowsRead
  <2> HIDE DEF asked, given
  <2> QED BY <2>1, <2>3, ReaderGoesOn
<1>5. ASSUME NEW r \in Reader, Compute(r) PROVE CacheInv'
  <2> DEFINE k == reader[r].key
             answer == [columns |-> reader[r].columns, keys |-> Now(r)]
             row == [reader[r] EXCEPT !.pc = "idle"]
  <2>1. /\ reader[r].pc = "known" /\ reader' = [reader EXCEPT ![r] = row]
        /\ cache' = [x \in DOMAIN cache \cup {k} |-> IF x = k THEN answer ELSE cache[x]]
        /\ moved' = IF Steady(r) THEN moved \ {k} ELSE moved \cup {k}
    BY <1>5 DEF Compute
  <2>2. Reads(row) /\ k \in Key /\ reader[r].columns \in SUBSET Table /\ reader[r].names = k.names
    <3>1. /\ Reads([reader[r] EXCEPT !.pc = "idle"])
          /\ reader[r].names = reader[r].key.names /\ reader[r].key \in Key /\ reader[r].columns \in SUBSET Table
      BY <1>3, <2>1, RowsRead
    <3> QED BY <3>1
  <2>3. answer \in Answer /\ (Steady(r) => answer = [columns |-> k.names, keys |-> k.names])
    BY <1>3, <2>1, <2>2 DEF Answer, Reads, Steady
  <2> HIDE DEF k, answer, row
  <2>4. reader' \in [Reader -> Lookup] /\ \A x \in Reader : Reads(reader'[x])
    BY <2>1, <2>2 DEF CacheInv, Reads
  <2>5. \A x \in DOMAIN cache' \ moved' : cache'[x] = [columns |-> x.names, keys |-> x.names]
    BY <2>1, <2>2, <2>3 DEF CacheInv
  <2>6. moved' \subseteq Key /\ DOMAIN cache' \subseteq Key /\ \A x \in DOMAIN cache' : cache'[x] \in Answer
    BY <2>1, <2>2, <2>3 DEF CacheInv
  <2> QED BY <2>4, <2>5, <2>6 DEF CacheInv, Reads
<1>6. ASSUME NEW r \in Reader, NEW s \in Signed, ReadNames(r, s) PROVE CacheInv'
  <2> DEFINE names == AllowedTables(session[s].claim)
             row == [pc |-> "named", key |-> CacheKey(session[s].claim, names), names |-> names,
                     columns |-> {}, steady |-> TRUE]
  <2>1. reader' = [reader EXCEPT ![r] = row] /\ UNCHANGED <<cache, moved>> /\ session[s].claim # NoProject
    BY <1>6 DEF ReadNames, Allowed
  <2>2. session[s].claim \in Project /\ names \in SUBSET Table
    BY <2>1 DEF AccessType, Signed, Login, AllowedTables
  <2> HIDE DEF names
  <2>3. Reads(row)
    BY <2>2 DEF Reads, Lookup, Key, CacheKey
  <2> HIDE DEF row
  <2> QED BY <2>1, <2>3, ReaderGoesOn
<1>7. ASSUME NEW k \in DOMAIN cache, Purge(k) PROVE CacheInv'
  BY <1>7 DEF Purge, CacheInv, Reads
<1> QED BY <1>2, <1>4, <1>5, <1>6, <1>7, <1>8 DEF Guard

LEMMA CacheInit == Init => CacheInv
<1> SUFFICES ASSUME Init PROVE CacheInv
  OBVIOUS
<1> DEFINE p == CHOOSE p \in Project : TRUE
           row == [pc |-> "idle", names |-> {}, columns |-> {}, steady |-> TRUE, key |-> [project |-> p, names |-> {}]]
<1>1. reader = [r \in Reader |-> row] /\ cache = <<>> /\ moved = {}
  BY DEF Init
<1>2. p \in Project
  BY DeskAssumption
<1> HIDE DEF p
<1>3. Reads(row)
  BY <1>2 DEF Lookup, Key, Reads
<1> HIDE DEF row
<1> QED BY <1>1, <1>3 DEF CacheInv, Reads

-----------------------------------------------------------------------------
(* Boards.                                                                  *)
BoardType ==
  /\ board \in [Board -> WidgetBoard] /\ widget \in [Widget -> Item]
  /\ share \in [Board -> [User -> {"none", "view", "edit"}]] /\ invite \subseteq Invite

Hosts == \A w \in Widget : widget[w].at = "there" => board[widget[w].board].at = "there"
Makers == \A w \in Widget : widget[w].at = "there" => widget[w].by \in User
Belong ==
  \A w \in Widget \ (unchecked \cup missed) : widget[w].at = "there" =>
    \/ widget[w].by = board[widget[w].board].owner
    \/ share[widget[w].board][widget[w].by] # "none"

(* Widgets on their way to the owner of their board: all that the one who   *)
(* loses them had there when they were read.                                *)
HandType ==
  /\ handing \in {Nothing} \cup ({"unshare", "transfer"} \X Board \X User \X User \X (SUBSET Widget))
  /\ missed \subseteq Widget
Rightful(b, u, heir, ws) ==
  /\ \A w \in ws : widget[w].at # "new" /\ widget[w].board = b
  /\ handing[1] = "unshare" => (board[b].at # "new" /\ board[b].owner = heir) \/ ws \subseteq unchecked
  /\ handing[1] = "transfer" => board[b].at # "new" /\ board[b].owner = u
  /\ \A w \in Widget \ (unchecked \cup missed) :
       widget[w].at = "there" /\ widget[w].board = b /\ widget[w].by = u => w \in ws
Handed == handing # Nothing => Rightful(handing[2], handing[3], handing[4], handing[5])

BoardInv == BoardType /\ Hosts /\ Makers /\ Belong /\ InvitesHaveBoards /\ HandType /\ Handed

LEMMA HandingFields ==
  ASSUME HandType, handing # Nothing
  PROVE  /\ handing[1] \in {"unshare", "transfer"} /\ handing[2] \in Board
         /\ handing[3] \in User /\ handing[4] \in User /\ handing[5] \subseteq Widget
BY DEF HandType

LEMMA HostsReferred == ASSUME BoardType', References' PROVE Hosts'
BY DEF BoardType, References, There, Hosts

LEMMA BoardsUnmoved == ASSUME BoardInv, UNCHANGED boards, unchecked \subseteq unchecked' PROVE BoardInv'
<1>1. UNCHANGED <<board, share, widget, invite, handing, missed>>
  BY DEF boards
<1>2. Handed'
  BY <1>1 DEF BoardInv, Handed, Rightful
<1> QED BY <1>1, <1>2 DEF BoardInv, BoardType, Hosts, Makers, Belong, InvitesHaveBoards, HandType

(* Nothing is handed on: widgets stay where they are and whose they are, or *)
(* are known to have come too late.                                         *)
LEMMA HandKept ==
  ASSUME BoardInv, handing' = handing, missed \subseteq missed', missed' \subseteq Widget,
         unchecked \subseteq unchecked',
         \A b \in Board : board[b].at # "new" => board'[b].at # "new" /\ board'[b].owner = board[b].owner,
         \A w \in Widget :
           /\ widget[w].at # "new" => widget'[w].at # "new" /\ widget'[w].board = widget[w].board
           /\ widget'[w].at = "there" =>
                \/ widget[w].at = "there" /\ widget'[w].board = widget[w].board /\ widget'[w].by = widget[w].by
                \/ w \in missed' \cup unchecked'
                \/ handing # Nothing => ~(widget'[w].board = handing[2] /\ widget'[w].by = handing[3])
  PROVE  HandType' /\ Handed'
<1>1. HandType'
  BY DEF BoardInv, HandType
<1>2. ASSUME handing # Nothing PROVE Rightful(handing[2], handing[3], handing[4], handing[5])'
  <2>1. /\ Rightful(handing[2], handing[3], handing[4], handing[5])
        /\ handing[2] \in Board /\ handing[5] \subseteq Widget
    BY <1>2, HandingFields DEF BoardInv, Handed
  <2> QED BY <1>2, <2>1 DEF Rightful
<1> QED BY <1>1, <1>2 DEF Handed

LEMMA ItemType ==
  ASSUME NEW x \in Item
  PROVE  /\ [x EXCEPT !.at = "gone"] \in Item /\ [x EXCEPT !.at = "gone"].at = "gone"
         /\ [x EXCEPT !.at = "gone"].board = x.board
         /\ \A t \in Table : /\ [x EXCEPT !.table = t] \in Item /\ [x EXCEPT !.table = t].at = x.at
                            /\ [x EXCEPT !.table = t].board = x.board /\ [x EXCEPT !.table = t].by = x.by
         /\ \A u \in User : /\ [x EXCEPT !.by = u] \in Item /\ [x EXCEPT !.by = u].at = x.at
                           /\ [x EXCEPT !.by = u].board = x.board /\ [x EXCEPT !.by = u].by = u
BY SMTT(30) DEF Item

LEMMA WidgetBoardType ==
  ASSUME NEW x \in WidgetBoard
  PROVE  /\ [x EXCEPT !.at = "gone"] \in WidgetBoard /\ [x EXCEPT !.at = "gone"].at = "gone"
         /\ [x EXCEPT !.at = "gone"].owner = x.owner
         /\ \A active \in BOOLEAN, scope \in {"private", "project"} :
              /\ [x EXCEPT !.active = active, !.scope = scope] \in WidgetBoard
              /\ [x EXCEPT !.active = active, !.scope = scope].at = x.at
              /\ [x EXCEPT !.active = active, !.scope = scope].owner = x.owner
BY DEF WidgetBoard

LEMMA SignedUser == AccessType => \A s \in Signed : s \in Session /\ Who(s) \in User
                                             /\ session[s].claim \in Project \cup {NoProject}
BY DEF AccessType, Signed, Who, Login

(* Boards come, change and go.                                              *)
LEMMA BoardRequestStep == AccessType /\ BoardInv /\ BoardRequest => BoardInv'
<1> SUFFICES ASSUME AccessType, BoardInv, NEW s \in Signed,
                    \/ \E b \in New(board), scope \in {"private", "project"} : CreateBoard(s, b, scope)
                    \/ \E b \in Board :
                         \/ DeleteBoard(s, b)
                         \/ \E active \in BOOLEAN, scope \in {"private", "project"} : PatchBoard(s, b, active, scope)
             PROVE  BoardInv'
  BY DEF BoardRequest
<1>1. Who(s) \in User /\ session[s].claim \in Project \cup {NoProject}
  BY SignedUser
<1>2. BoardType
  BY DEF BoardInv
<1>3. BoardRequest => unchecked \subseteq unchecked'
  BY BoardFrame
<1>4. unchecked \subseteq unchecked'
  BY <1>3 DEF BoardRequest
<1>5. ASSUME UNCHANGED data PROVE BoardInv'
  BY <1>4, <1>5, BoardsUnmoved DEF data
<1>9. missed \subseteq Widget
  BY DEF BoardInv, HandType
<1>6. ASSUME NEW b \in New(board), NEW scope \in {"private", "project"}, CreateBoard(s, b, scope) PROVE BoardInv'
  <2> DEFINE row == [at |-> "there", active |-> TRUE, owner |-> Who(s), project |-> session[s].claim, scope |-> scope]
  <2>1. CASE /\ board[b].at = "new" /\ board' = [board EXCEPT ![b] = row]
             /\ UNCHANGED <<share, widget, invite, handing, missed>> /\ References'
    <3>1. row \in WidgetBoard /\ row.at = "there" /\ b \in Board
      BY <1>1, <1>2 DEF WidgetBoard, New, BoardType
    <3> HIDE DEF row
    <3>2. BoardType'
      BY <1>2, <2>1, <3>1 DEF BoardType
    <3>3. \A w \in Widget : widget[w].at = "there" => widget[w].board # b /\ widget[w].board \in Board
      BY <1>2, <2>1 DEF BoardInv, Hosts, BoardType, Item
    <3>4. Belong' /\ Makers'
      BY <1>2, <1>4, <2>1, <3>3 DEF BoardInv, Belong, Makers, BoardType
    <3>5. InvitesHaveBoards'
      BY <1>2, <1>4, <2>1, <3>1 DEF BoardInv, InvitesHaveBoards, BoardType
    <3>6. HandType' /\ Handed'
      BY <1>2, <1>4, <1>9, <2>1, HandKept DEF BoardType
    <3> QED BY <2>1, <3>2, <3>4, <3>5, <3>6, HostsReferred DEF BoardInv
  <2> QED BY <1>5, <1>6, <2>1 DEF CreateBoard, Request, NoHandOver
<1>7. ASSUME NEW b \in Board, NEW active \in BOOLEAN, NEW scope \in {"private", "project"}, PatchBoard(s, b, active, scope)
      PROVE  BoardInv'
  <2> DEFINE row == [board[b] EXCEPT !.active = active, !.scope = scope]
  <2>1. CASE /\ board[b].at = "there" /\ board' = [board EXCEPT ![b] = row]
             /\ UNCHANGED <<share, widget, invite, handing, missed>> /\ References'
    <3>1. row \in WidgetBoard /\ row.at = "there" /\ row.owner = board[b].owner
      <4>1. board[b] \in WidgetBoard
        BY <1>2 DEF BoardType
      <4>2. row \in WidgetBoard /\ row.at = board[b].at /\ row.owner = board[b].owner
        BY <4>1, WidgetBoardType, ZenonT(40)
      <4> QED BY <2>1, <4>2
    <3> HIDE DEF row
    <3>2. BoardType'
      BY <1>2, <2>1, <3>1 DEF BoardType
    <3>3. \A x \in Board : board'[x].owner = board[x].owner /\ board'[x].at = board[x].at
      BY <1>2, <2>1, <3>1 DEF BoardType
    <3>4. Belong' /\ Makers' /\ InvitesHaveBoards'
      BY <1>2, <1>4, <2>1, <3>3 DEF BoardInv, Belong, Makers, InvitesHaveBoards, BoardType, Item, Invite
    <3>5. HandType' /\ Handed'
      BY <1>4, <1>9, <2>1, <3>3, HandKept
    <3> QED BY <2>1, <3>2, <3>4, <3>5, HostsReferred DEF BoardInv
  <2> QED BY <1>5, <1>7, <2>1, ZenonT(40) DEF PatchBoard, Request, NoHandOver
<1>8. ASSUME NEW b \in Board, DeleteBoard(s, b) PROVE BoardInv'
  <2> DEFINE row == [board[b] EXCEPT !.at = "gone"]
  <2>1. CASE /\ board[b].at = "there" /\ board' = [board EXCEPT ![b] = row]
             /\ widget' = [w \in Widget |-> IF widget[w].at = "there" /\ widget[w].board = b
                                            THEN [widget[w] EXCEPT !.at = "gone"] ELSE widget[w]]
             /\ share' = [share EXCEPT ![b] = [u \in User |-> "none"]]
             /\ invite' = invite \ NotesOf(b) /\ UNCHANGED <<handing, missed>> /\ References'
    <3>1. row \in WidgetBoard /\ row.at = "gone" /\ row.owner = board[b].owner
      BY <1>2, <2>1, WidgetBoardType DEF BoardType
    <3> HIDE DEF row
    <3>2. \A w \in Widget : /\ widget'[w] \in Item
                            /\ widget'[w].at = "there" => widget'[w] = widget[w] /\ widget[w].board # b
      BY <1>2, <2>1, ItemType DEF BoardType
    <3>3. widget' \in [Widget -> Item]
      BY <2>1, <3>2
    <3>4. share' \in [Board -> [User -> {"none", "view", "edit"}]]
      BY <1>2, <2>1 DEF BoardType
    <3>5. BoardType'
      BY <1>2, <2>1, <3>1, <3>3, <3>4 DEF BoardType
    <3>6. \A x \in Board \ {b} : board'[x] = board[x] /\ share'[x] = share[x]
      BY <1>2, <2>1 DEF BoardType
    <3>7. Belong' /\ Makers'
      <4>1. \A w \in Widget : widget'[w].at = "there" => widget[w].board \in Board \ {b}
        BY <1>2, <3>2 DEF BoardType, Item
      <4>2. missed' = missed
        BY <2>1
      <4> QED BY <1>4, <3>2, <3>6, <4>1, <4>2 DEF BoardInv, Belong, Makers
    <3>8. InvitesHaveBoards'
      <4>1. \A n \in invite' : n \in invite /\ n.board # b /\ n.board \in Board
        BY <1>2, <2>1 DEF NotesOf, InvitesTo, BoardType, Invite
      <4> QED BY <1>4, <3>6, <4>1 DEF BoardInv, InvitesHaveBoards
    <3>9. HandType' /\ Handed'
      <4>1. \A x \in Board : board[x].at # "new" => board'[x].at # "new" /\ board'[x].owner = board[x].owner
        BY <1>2, <2>1, <3>1 DEF BoardType
      <4>2. \A w \in Widget : widget[w].at # "new" => widget'[w].at # "new" /\ widget'[w].board = widget[w].board
        BY <1>2, <2>1, ItemType DEF BoardType
      <4> QED BY <1>4, <1>9, <2>1, <3>2, <4>1, <4>2, HandKept
    <3> QED BY <2>1, <3>5, <3>7, <3>8, <3>9, HostsReferred DEF BoardInv
  <2> QED BY <1>5, <1>8, <2>1 DEF DeleteBoard, Request, NoHandOver
<1> QED BY <1>6, <1>7, <1>8

(* Widgets.                                                                 *)
LEMMA WidgetRequestStep == AccessType /\ BoardInv /\ WidgetRequest => BoardInv'
<1> SUFFICES ASSUME AccessType, BoardInv, NEW s \in Signed,
                    \/ \E w \in New(widget), b \in Board, t \in Table : AddWidget(s, w, b, t)
                    \/ \E w \in There(widget) :
                         \/ DeleteWidget(s, w)
                         \/ \E t \in Table : PatchWidget(s, w, t)
             PROVE  BoardInv'
  BY DEF WidgetRequest
<1>1. Who(s) \in User
  BY SignedUser
<1>2. BoardType /\ widget \in [Widget -> Item]
  BY DEF BoardInv, BoardType
<1>3. WidgetRequest => unchecked \subseteq unchecked'
  BY BoardFrame
<1>4. unchecked \subseteq unchecked'
  BY <1>3 DEF WidgetRequest
<1>5. ASSUME UNCHANGED data PROVE BoardInv'
  BY <1>4, <1>5, BoardsUnmoved DEF data
<1>9. missed \subseteq Widget
  BY DEF BoardInv, HandType
<1>6. ASSUME NEW w \in Widget, NEW row \in Item, widget' = [widget EXCEPT ![w] = row],
             \/ row.at = "gone" /\ row.board = widget[w].board
             \/ row.at = "there" /\ row.by \in User /\ widget[w].at = "new"
             \/ row.at = "there" /\ widget[w].at = "there" /\ row.board = widget[w].board /\ row.by = widget[w].by,
             row.at = "there" /\ widget[w].at = "new" =>
               \/ w \in unchecked'
               \/ row.by = board[row.board].owner \/ share[row.board][row.by] # "none",
             row.at = "there" /\ widget[w].at = "new" /\ handing # Nothing =>
               w \in missed' \/ ~(row.board = handing[2] /\ row.by = handing[3]),
             missed' = missed \/ missed' = missed \cup {w},
             UNCHANGED <<board, share, invite, handing>>, References'
      PROVE  BoardInv'
  <2>1. BoardType' /\ widget'[w] = row /\ \A x \in Widget \ {w} : widget'[x] = widget[x]
    BY <1>2, <1>6 DEF BoardType
  <2>2. Belong' /\ Makers'
    BY <1>2, <1>4, <1>6, <2>1 DEF BoardInv, Belong, Makers
  <2>3. InvitesHaveBoards'
    BY <1>4, <1>6 DEF BoardInv, InvitesHaveBoards
  <2>4. \A x \in Widget :
          /\ widget[x].at # "new" => widget'[x].at # "new" /\ widget'[x].board = widget[x].board
          /\ widget'[x].at = "there" =>
               \/ widget[x].at = "there" /\ widget'[x].board = widget[x].board /\ widget'[x].by = widget[x].by
               \/ x \in missed' \cup unchecked'
               \/ handing # Nothing => ~(widget'[x].board = handing[2] /\ widget'[x].by = handing[3])
    <3>1. /\ widget[w].at # "new" => row.at # "new" /\ row.board = widget[w].board
          /\ row.at = "there" =>
               \/ widget[w].at = "there" /\ row.board = widget[w].board /\ row.by = widget[w].by
               \/ w \in missed' \cup unchecked'
               \/ handing # Nothing => ~(row.board = handing[2] /\ row.by = handing[3])
      BY <1>6
    <3> QED BY <2>1, <3>1
  <2>5. HandType' /\ Handed'
    BY <1>4, <1>6, <1>9, <2>4, HandKept
  <2> QED BY <1>6, <2>1, <2>2, <2>3, <2>5, HostsReferred DEF BoardInv
<1>7. ASSUME NEW w \in New(widget), NEW b \in Board, NEW t \in Table, AddWidget(s, w, b, t) PROVE BoardInv'
  <2> DEFINE row == [at |-> "there", board |-> b, by |-> Who(s), table |-> t]
  <2>1. CASE /\ CanEdit(s, b) \/ w \in unchecked'
             /\ widget[w].at = "new" /\ widget' = [widget EXCEPT ![w] = row]
             /\ missed' = IF handing # Nothing /\ handing[2] = b /\ handing[3] = Who(s) THEN missed \cup {w} ELSE missed
             /\ UNCHANGED <<board, share, invite, handing>> /\ References'
    <3>1. w \in Widget /\ row \in Item /\ row.at = "there" /\ row.by = Who(s) /\ row.board = b
      BY <1>1, <1>2 DEF New, Item
    <3>2. CanEdit(s, b) => Who(s) = board[b].owner \/ share[b][Who(s)] # "none"
      BY DEF CanEdit, Owner
    <3> HIDE DEF row
    <3>3. missed' = missed \/ missed' = missed \cup {w}
      BY <2>1
    <3>4. handing # Nothing => w \in missed' \/ ~(row.board = handing[2] /\ row.by = handing[3])
      BY <2>1, <3>1
    <3> QED BY <1>1, <1>6, <2>1, <3>1, <3>2, <3>3, <3>4
  <2> QED BY <1>5, <1>7, <2>1 DEF AddWidget, Request
<1>8. ASSUME NEW w \in There(widget), NEW t \in Table, PatchWidget(s, w, t) PROVE BoardInv'
  <2> DEFINE row == [widget[w] EXCEPT !.table = t]
  <2>1. CASE /\ widget[w].at = "there" /\ widget' = [widget EXCEPT ![w] = row]
             /\ UNCHANGED <<board, share, invite, handing, missed>> /\ References'
    <3>1. w \in Widget /\ widget[w] \in Item
      BY <1>2 DEF There
    <3>2. row \in Item /\ row.at = widget[w].at /\ row.board = widget[w].board /\ row.by = widget[w].by
      BY <3>1, ItemType
    <3> HIDE DEF row
    <3> QED BY <1>6, <2>1, <3>1, <3>2
  <2> QED BY <1>5, <1>8, <2>1 DEF PatchWidget, Request, NoHandOver
<1>10. ASSUME NEW w \in There(widget), DeleteWidget(s, w) PROVE BoardInv'
  <2> DEFINE row == [widget[w] EXCEPT !.at = "gone"]
  <2>1. CASE widget' = [widget EXCEPT ![w] = row] /\ UNCHANGED <<board, share, invite, handing, missed>> /\ References'
    <3>1. w \in Widget /\ widget[w] \in Item
      BY <1>2 DEF There
    <3>2. row \in Item /\ row.at = "gone" /\ row.board = widget[w].board
      BY <3>1, ItemType
    <3> HIDE DEF row
    <3> QED BY <1>6, <2>1, <3>1, <3>2
  <2> QED BY <1>5, <1>10, <2>1 DEF DeleteWidget, Request, NoHandOver
<1> QED BY <1>7, <1>8, <1>10

(* Shares and invitations.                                                  *)
LEMMA SharesGrow ==
  ASSUME BoardInv, UNCHANGED <<board, widget, handing, missed>>, References', unchecked \subseteq unchecked',
         share' \in [Board -> [User -> {"none", "view", "edit"}]],
         \A b \in Board, u \in User : share[b][u] # "none" => share'[b][u] # "none",
         invite' \subseteq Invite,
         \A n \in invite' : /\ n.board \in unchecked' \/ board[n.board].at = "there"
                                \/ \E m \in invite : m.board = n.board
  PROVE  BoardInv'
<1>1. BoardType'
  BY DEF BoardInv, BoardType
<1>2. Belong'
  <2>1. \A w \in Widget : widget[w].at = "there" => widget[w].board \in Board /\ widget[w].by \in User
    BY DEF BoardInv, BoardType, Makers, Item
  <2> QED BY <2>1 DEF BoardInv, Belong
<1>3. InvitesHaveBoards' /\ Makers'
  BY DEF BoardInv, InvitesHaveBoards, Makers
<1>4. HandType' /\ Handed'
  BY HandKept DEF BoardInv, HandType
<1> QED BY <1>1, <1>2, <1>3, <1>4, HostsReferred DEF BoardInv

(* A new hand-over: what is handed on was read just now.                    *)
LEMMA HandingStep ==
  ASSUME BoardInv, handing = Nothing, NEW kind \in {"unshare", "transfer"}, NEW b \in Board, NEW u \in User,
         NEW heir \in User, NEW ws \in SUBSET WidgetsOn(b), handing' = <<kind, b, u, heir, ws>>,
         WidgetsBy(b, u) \subseteq ws,
         kind = "unshare" => (board[b].at # "new" /\ board[b].owner = heir) \/ ws \subseteq unchecked',
         kind = "transfer" => board[b].at # "new" /\ board[b].owner = u,
         UNCHANGED <<board, share, widget, invite, missed>>, unchecked \subseteq unchecked'
  PROVE  BoardInv'
<1>1. ws \subseteq Widget
  BY DEF WidgetsOn, There, BoardInv, BoardType
<1>2. HandType'
  BY <1>1 DEF BoardInv, HandType
<1>3. /\ handing'[1] = kind /\ handing'[2] = b /\ handing'[3] = u /\ handing'[4] = heir /\ handing'[5] = ws
  OBVIOUS
<1>4. Rightful(b, u, heir, ws)'
  BY <1>3 DEF Rightful, WidgetsOn, WidgetsBy, There, BoardInv, BoardType
<1>5. Handed'
  BY <1>3, <1>4 DEF Handed, Rightful
<1>6. BoardType' /\ Hosts' /\ Makers' /\ Belong' /\ InvitesHaveBoards'
  BY DEF BoardInv, BoardType, Hosts, Makers, Belong, InvitesHaveBoards
<1> QED BY <1>2, <1>5, <1>6 DEF BoardInv

LEMMA HandedOverStep == BoardInv /\ HandedOver => BoardInv'
<1> SUFFICES ASSUME BoardInv, HandedOver PROVE BoardInv'
  OBVIOUS
<1> DEFINE b == handing[2]
           u == handing[3]
           heir == handing[4]
           ws == handing[5]
<1>1. /\ handing # Nothing /\ handing' = Nothing /\ widget' = GivesWidgets(ws, heir)
      /\ UNCHANGED <<invite, missed, unchecked>>
      /\ \/ handing[1] = "unshare" /\ Shared(b, u, "none") /\ UNCHANGED board
         \/ handing[1] # "unshare" /\ board' = [board EXCEPT ![b].owner = heir] /\ UNCHANGED share
  BY DEF HandedOver, Quietly
<1>2. /\ handing[1] \in {"unshare", "transfer"} /\ b \in Board /\ u \in User /\ heir \in User /\ ws \subseteq Widget
      /\ Rightful(b, u, heir, ws)
  BY <1>1, HandingFields DEF BoardInv, Handed
<1> HIDE DEF b, u, heir, ws
<1>3. BoardType /\ widget \in [Widget -> Item]
  BY DEF BoardInv, BoardType
<1>4. \A w \in Widget :
        /\ widget'[w] \in Item
        /\ widget'[w].at = widget[w].at /\ widget'[w].board = widget[w].board
        /\ w \in ws => widget'[w].by = heir
        /\ w \notin ws => widget'[w].by = widget[w].by
  <2> SUFFICES ASSUME NEW w \in Widget
               PROVE  /\ widget'[w] \in Item
                      /\ widget'[w].at = widget[w].at /\ widget'[w].board = widget[w].board
                      /\ w \in ws => widget'[w].by = heir
                      /\ w \notin ws => widget'[w].by = widget[w].by
    OBVIOUS
  <2>1. widget[w] \in Item
    BY <1>3
  <2>2. CASE w \in ws
    <3>1. widget'[w] = [widget[w] EXCEPT !.by = heir]
      BY <1>1, <2>2 DEF GivesWidgets
    <3>2. /\ [widget[w] EXCEPT !.by = heir] \in Item
          /\ [widget[w] EXCEPT !.by = heir].at = widget[w].at
          /\ [widget[w] EXCEPT !.by = heir].board = widget[w].board
          /\ [widget[w] EXCEPT !.by = heir].by = heir
      BY <1>2, <2>1, ItemType, Zenon
    <3> QED BY <2>2, <3>1, <3>2
  <2>3. CASE w \notin ws
    <3>1. widget'[w] = widget[w]
      BY <1>1, <2>3 DEF GivesWidgets
    <3> QED BY <2>1, <2>3, <3>1
  <2> QED BY <2>2, <2>3
<1>5. widget' \in [Widget -> Item]
  BY <1>1, <1>4 DEF GivesWidgets
<1>6. HandType' /\ Handed'
  BY <1>1 DEF BoardInv, HandType, Handed
<1>7. /\ board' \in [Board -> WidgetBoard] /\ share' \in [Board -> [User -> {"none", "view", "edit"}]]
      /\ \A c \in Board : board'[c].at = board[c].at
      /\ \A c \in Board : board'[c].owner = board[c].owner \/ (c = b /\ board'[c].owner = heir)
  <2>1. CASE UNCHANGED board
    BY <1>1, <1>2, <1>3, <2>1 DEF BoardType, Shared
  <2>2. CASE board' = [board EXCEPT ![b].owner = heir] /\ UNCHANGED share
    <3> DEFINE row == [board[b] EXCEPT !.owner = heir]
    <3>1. row \in WidgetBoard /\ row.at = board[b].at /\ row.owner = heir
      BY <1>2, <1>3 DEF BoardType, WidgetBoard
    <3>2. board' = [board EXCEPT ![b] = row]
      BY <2>2
    <3> HIDE DEF row
    <3> QED BY <1>2, <1>3, <2>2, <3>1, <3>2 DEF BoardType
  <2> QED BY <1>1, <2>1, <2>2
<1>8. BoardType'
  BY <1>1, <1>3, <1>5, <1>7 DEF BoardType
<1>9. Makers' /\ Hosts' /\ InvitesHaveBoards'
  <2>1. Makers'
    BY <1>2, <1>4 DEF BoardInv, Makers
  <2>2. Hosts'
    BY <1>3, <1>4, <1>7 DEF BoardInv, Hosts, Item
  <2>3. InvitesHaveBoards'
    BY <1>1, <1>3, <1>7 DEF BoardInv, InvitesHaveBoards, BoardType, Invite
  <2> QED BY <2>1, <2>2, <2>3
<1>10. Belong'
  <2> SUFFICES ASSUME NEW w \in Widget, w \notin unchecked, w \notin missed, widget'[w].at = "there"
               PROVE  \/ widget'[w].by = board'[widget'[w].board].owner
                      \/ share'[widget'[w].board][widget'[w].by] # "none"
    BY <1>1 DEF Belong
  <2>1. /\ widget[w].at = "there" /\ widget'[w].board = widget[w].board /\ widget[w].board \in Board
        /\ widget[w].by \in User
        /\ widget[w].by = board[widget[w].board].owner \/ share[widget[w].board][widget[w].by] # "none"
    BY <1>3, <1>4 DEF Item, BoardInv, Makers, Belong
  <2>2. CASE w \in ws
    <3>1. widget[w].board = b /\ widget'[w].by = heir
      BY <1>2, <1>4, <2>2 DEF Rightful
    <3>2. board'[b].owner = heir
      <4>1. CASE handing[1] = "unshare"
        BY <1>1, <1>2, <2>2, <4>1 DEF Rightful
      <4>2. CASE handing[1] = "transfer"
        BY <1>1, <1>2, <1>3, <4>2 DEF BoardType, WidgetBoard
      <4> QED BY <1>2, <4>1, <4>2
    <3> QED BY <2>1, <3>1, <3>2
  <2>3. CASE w \notin ws
    <3>1. widget'[w].by = widget[w].by /\ ~(widget[w].board = b /\ widget[w].by = u)
      BY <1>2, <1>4, <2>1, <2>3 DEF Rightful
    <3>2. CASE handing[1] = "unshare"
      <4>1. \A c \in Board, v \in User : share'[c][v] = share[c][v] \/ (c = b /\ v = u)
        BY <1>1, <1>2, <1>3, <3>2 DEF Shared, BoardType
      <4> QED BY <1>1, <2>1, <3>1, <3>2, <4>1
    <3>3. CASE handing[1] = "transfer"
      <4>1. UNCHANGED share /\ board[b].owner = u
        BY <1>1, <1>2, <3>3 DEF Rightful
      <4>2. widget[w].board # b => board'[widget[w].board].owner = board[widget[w].board].owner
        BY <1>7, <2>1
      <4> QED BY <2>1, <3>1, <4>1, <4>2
    <3> QED BY <1>2, <3>2, <3>3
  <2> QED BY <2>2, <2>3
<1> QED BY <1>6, <1>8, <1>9, <1>10 DEF BoardInv

LEMMA SharingRequestStep == AccessType /\ BoardInv /\ SharingRequest => BoardInv'
<1> SUFFICES ASSUME AccessType, BoardInv, SharingRequest PROVE BoardInv'
  OBVIOUS
<1>1. PICK s \in Signed :
        \/ \E b \in Board, u \in User :
             \/ DeleteShare(s, b, u)
             \/ \E level \in {"view", "edit"} : UpsertShare(s, b, u, level)
             \/ \E edit \in BOOLEAN : SendInvite(s, b, u, edit)
        \/ \E n : AcceptInvite(s, n) \/ RejectInvite(s, n)
  BY DEF SharingRequest
<1>2. /\ Who(s) \in User /\ BoardType /\ invite \subseteq Invite
      /\ share \in [Board -> [User -> {"none", "view", "edit"}]]
  BY SignedUser DEF BoardInv, BoardType
<1>3. unchecked \subseteq unchecked'
  BY BoardFrame
<1>4. ASSUME UNCHANGED data PROVE BoardInv'
  BY <1>3, <1>4, BoardsUnmoved DEF data
<1>5. ASSUME NEW b \in Board, NEW u \in User, DeleteShare(s, b, u) PROVE BoardInv'
  <2>1. CASE /\ Owns(s, b) \/ WidgetsBy(b, u) \subseteq unchecked'
             /\ handing = Nothing /\ handing' = <<"unshare", b, u, Who(s), WidgetsBy(b, u)>>
             /\ UNCHANGED <<board, share, widget, invite, missed>>
    <3>1. WidgetsBy(b, u) \in SUBSET WidgetsOn(b)
      BY DEF WidgetsBy
    <3>2. Owns(s, b) => board[b].at # "new" /\ board[b].owner = Who(s)
      BY DEF Owns, CanRead, Owner
    <3> QED BY <1>2, <1>3, <2>1, <3>1, <3>2, HandingStep
  <2>2. Owns(s, b) \/ UNCHANGED data \/ unchecked' = unchecked \cup (IF Owns(s, b) THEN {} ELSE {b} \cup WidgetsBy(b, u))
    BY <1>5 DEF DeleteShare, Request
  <2>3. \/ UNCHANGED data
        \/ /\ handing = Nothing /\ handing' = <<"unshare", b, u, Who(s), WidgetsBy(b, u)>>
           /\ UNCHANGED <<board, share, widget, invite, missed>>
    BY <1>5 DEF DeleteShare, Request
  <2> QED BY <1>4, <2>1, <2>2, <2>3
<1>6. ASSUME NEW b \in Board, NEW u \in User, NEW level \in {"view", "edit"}, UpsertShare(s, b, u, level)
      PROVE  BoardInv'
  <2>1. CASE Shared(b, u, level) /\ UNCHANGED <<board, widget, invite, handing, missed>> /\ References'
    <3>1. /\ share' \in [Board -> [User -> {"none", "view", "edit"}]]
          /\ \A c \in Board, v \in User : share[c][v] # "none" => share'[c][v] # "none"
      BY <1>2, <1>6, <2>1 DEF Shared
    <3> QED BY <1>2, <1>3, <2>1, <3>1, SharesGrow
  <2> QED BY <1>4, <1>6, <2>1 DEF UpsertShare, Request, NoHandOver
<1>7. ASSUME NEW b \in Board, NEW u \in User, NEW edit \in BOOLEAN, SendInvite(s, b, u, edit) PROVE BoardInv'
  <2> DEFINE note == [to |-> u, board |-> b, by |-> Who(s), edit |-> edit, read |-> FALSE]
  <2>1. CASE /\ b \in unchecked' \/ Owns(s, b)
             /\ invite' = invite \cup {note} /\ UNCHANGED <<board, share, widget, handing, missed>> /\ References'
    <3>1. note \in Invite /\ note.board = b
      BY <1>2 DEF Invite
    <3>2. Owns(s, b) => board[b].at = "there"
      BY DEF Owns, CanRead
    <3> HIDE DEF note
    <3> QED BY <1>2, <1>3, <2>1, <3>1, <3>2, SharesGrow
  <2> QED BY <1>4, <1>7, <2>1 DEF SendInvite, Request, NoHandOver
<1>8. ASSUME NEW n, AcceptInvite(s, n) PROVE BoardInv'
  <2> DEFINE note == [n EXCEPT !.read = TRUE]
             level == IF n.edit THEN "edit" ELSE "view"
  <2>1. CASE /\ Shared(n.board, n.to, level)
             /\ invite' = IF n \in invite THEN (invite \ {n}) \cup {note} ELSE invite
             /\ UNCHANGED <<board, widget, handing, missed>> /\ References'
    <3>1. level \in {"edit", "view"}
      OBVIOUS
    <3>2. n \in invite => note \in Invite /\ note.board = n.board
      BY <1>2 DEF Invite
    <3> HIDE DEF level, note
    <3>3. /\ share' \in [Board -> [User -> {"none", "view", "edit"}]]
          /\ \A c \in Board, v \in User : share[c][v] # "none" => share'[c][v] # "none"
      BY <1>2, <2>1, <3>1 DEF Shared
    <3>4. /\ invite' \subseteq Invite
          /\ \A m \in invite' : \E i \in invite : i.board = m.board
      BY <1>2, <2>1, <3>2
    <3> QED BY <1>3, <2>1, <3>3, <3>4, SharesGrow
  <2> QED BY <1>4, <1>8, <2>1 DEF AcceptInvite, Request, NoHandOver
<1>9. ASSUME NEW n, RejectInvite(s, n) PROVE BoardInv'
  <2>1. CASE invite' = invite \ {n} /\ UNCHANGED <<board, share, widget, handing, missed>> /\ References'
    BY <1>2, <1>3, <2>1, SharesGrow
  <2> QED BY <1>4, <1>9, <2>1 DEF RejectInvite, Request, NoHandOver
<1> QED BY <1>1, <1>5, <1>6, <1>7, <1>8, <1>9

LEMMA TransferStep == BoardInv /\ TransferRequest => BoardInv'
<1> SUFFICES ASSUME BoardInv, NEW s \in Signed, NEW b \in Board, NEW from \in User, NEW to \in User,
                    TransferBoard(s, b, from, to)
             PROVE  BoardInv'
  BY DEF TransferRequest
<1>1. TransferRequest => unchecked \subseteq unchecked'
  BY BoardFrame
<1>2. unchecked \subseteq unchecked'
  BY <1>1 DEF TransferRequest
<1>3. CASE UNCHANGED data
  BY <1>2, <1>3, BoardsUnmoved DEF data
<1>4. CASE /\ handing = Nothing /\ board[b].at = "there" /\ board[b].owner = from
           /\ handing' = <<"transfer", b, from, to, WidgetsOn(b)>>
           /\ UNCHANGED <<board, share, widget, invite, missed>>
  <2>1. WidgetsBy(b, from) \subseteq WidgetsOn(b)
    BY DEF WidgetsBy
  <2> QED BY <1>2, <1>4, <2>1, HandingStep
<1> QED BY <1>3, <1>4 DEF TransferBoard, Request

-----------------------------------------------------------------------------
LEMMA BoardStep == AccessType /\ BoardInv /\ [Next]_vars => BoardInv'
<1> SUFFICES ASSUME AccessType, BoardInv, [Next]_vars PROVE BoardInv'
  OBVIOUS
<1>1. CASE BoardRequest \/ WidgetRequest \/ SharingRequest \/ TransferRequest
  BY <1>1, BoardRequestStep, WidgetRequestStep, SharingRequestStep, TransferStep
<1>2. CASE HandedOver
  BY <1>2, HandedOverStep
<1>3. CASE HandOverFails
  <2>1. handing' = Nothing /\ UNCHANGED <<board, share, widget, invite, missed, unchecked>>
    BY <1>3 DEF HandOverFails, Quietly
  <2>2. HandType' /\ Handed'
    BY <2>1 DEF BoardInv, HandType, Handed
  <2> QED BY <2>1, <2>2 DEF BoardInv, BoardType, Hosts, Makers, Belong, InvitesHaveBoards
<1>4. CASE ~(BoardRequest \/ WidgetRequest \/ SharingRequest \/ TransferRequest \/ HandedOver \/ HandOverFails)
  <2>1. UNCHANGED boards
    BY <1>4, SessionFrame, MapFrame, EtlFrame, SaveFrame, GuardFrame DEF Next, Abandon, vars, data
  <2>2. unchecked \subseteq unchecked'
    BY AccessStep
  <2> QED BY <2>1, <2>2, BoardsUnmoved
<1> QED BY <1>1, <1>2, <1>3, <1>4

LEMMA BoardInit == Init => BoardInv
<1> SUFFICES ASSUME Init PROVE BoardInv
  OBVIOUS
<1>1. PICK scene \in Scenes :
        board = scene.board /\ share = scene.share /\ widget = scene.widget /\ invite = scene.invite
  BY DEF Init
<1>2. Typed(scene) /\ Settled(scene)
  BY ScenesAssumption
<1>3. handing = Nothing /\ missed = {}
  BY DEF Init
<1>4. BoardType /\ HandType /\ Handed
  BY <1>1, <1>2, <1>3 DEF Typed, BoardType, HandType, Handed
<1>5. Hosts /\ Makers /\ Belong
  BY <1>1, <1>2 DEF Settled, Hosts, Makers, Belong
<1>6. InvitesHaveBoards
  BY <1>1, <1>2 DEF Settled, InvitesHaveBoards
<1> QED BY <1>4, <1>5, <1>6 DEF BoardInv

ViewInv == AccessType /\ CacheInv /\ BoardInv

LEMMA ViewInvStep == ViewInv /\ [Next]_vars => ViewInv'
BY AccessStep, AccessTypeStep, CacheStep, BoardStep DEF ViewInv

THEOREM ViewInvariance == Spec => []ViewInv
<1>1. Init => ViewInv
  BY AccessInit, CacheInit, BoardInit DEF AccessInv, ViewInv
<1> QED BY <1>1, ViewInvStep, PTL DEF Spec

(* The cache has for a project what the project may query now, for any      *)
(* number of readers and changes of mappings, unless names changed under a  *)
(* computation (relationship_cache_key, _compute_relationships_all).        *)
THEOREM CacheSound == Spec => []CacheFits
<1>1. ViewInv => CacheFits
  BY DEF ViewInv, CacheInv, CacheFits, Cached, CacheKey
<1> QED BY <1>1, ViewInvariance, PTL

(* Nobody has widgets on a board without having the board, however shares   *)
(* are given and taken and boards change hands meanwhile (delete_share,     *)
(* transfer_resource_ownership), but those that were added while the others *)
(* were handed on.                                                          *)
THEOREM CreatorsStay == Spec => []CreatorsBelong
<1>1. ViewInv => CreatorsBelong
  BY DEF ViewInv, BoardInv, BoardType, Belong, CreatorsBelong, There
<1> QED BY <1>1, ViewInvariance, PTL

(* No invitation is left to a board that was deleted (delete_board), but    *)
(* one that was sent meanwhile.                                             *)
THEOREM InvitesSound == Spec => []InvitesHaveBoards
<1>1. ViewInv => InvitesHaveBoards
  BY DEF ViewInv, BoardInv
<1> QED BY <1>1, ViewInvariance, PTL

-----------------------------------------------------------------------------
(* Types.  Requests are counted down to nothing.                            *)
Counted == requests' = requests \/ (requests' = requests - 1 /\ (requests > 0 \/ requests > 1))

LEMMA SessionsCounted == SessionRequest \/ EndOfSessions \/ MapRequest => Counted
<1> USE DEF Request, Quietly, Counted
<1>1. ASSUME NEW u, NEW s, NEW pw, CreateOrg(u) \/ LoginSendCode(u, pw) \/ VerifyLoginComplete(s, u) PROVE Counted
  BY <1>1 DEF CreateOrg, LoginSendCode, VerifyLoginComplete
<1>2. ASSUME NEW s, NEW p, RefreshSessionTokens(s, p) \/ RotateWithProject(s, p) \/ RotateClearProject(s) PROVE Counted
  BY <1>2 DEF RefreshSessionTokens, RotateWithProject, RotateClearProject
<1>3. ASSUME NEW s, NEW u, NEW pw,
             LogoutOneSession(s) \/ SuspendAccount(s, u) \/ ActivateAccount(s, u) \/ ChangePassword(s, pw)
      PROVE  Counted
  BY <1>3 DEF LogoutOneSession, SuspendAccount, ActivateAccount, ChangePassword
<1>4. EndOfSessions => Counted
  BY DEF EndOfSessions, InvalidateAllSessions, InvalidateFails
<1>5. ASSUME NEW s, NEW p, NEW t, AddMapping(s, p, t) \/ DeleteMapping(s, p, t) PROVE Counted
  BY <1>5 DEF AddMapping, DeleteMapping
<1>6. ASSUME NEW s, NEW p, NEW flags, NEW wanted, UpdateProject(s, p, flags, wanted) PROVE Counted
  BY <1>6 DEF UpdateProject
<1> HIDE DEF Request, Quietly, Counted
<1> QED BY <1>1, <1>2, <1>3, <1>4, <1>5, <1>6 DEF SessionRequest, MapRequest

LEMMA LoadsCounted == EtlRequest \/ Load \/ BatchRequest \/ Following => Counted
<1> USE DEF Request, Quietly, Counted
<1>1. ASSUME NEW s, NEW c, CreateConnection(s, c) \/ CreateFileConnection(s, c) \/ DeleteConnection(s, c) PROVE Counted
  BY <1>1 DEF CreateConnection, CreateFileConnection, DeleteConnection
<1>2. ASSUME NEW s, NEW e, NEW c, NEW t, NEW from, NEW mode, CreateEtlTable(s, e, c, t, from, mode) PROVE Counted
  BY <1>2 DEF CreateEtlTable
<1>3. ASSUME NEW s, NEW e, NEW drop, DeleteEtlTable(s, e, drop) \/ DeleteEtlTableRowOnly(s, e, drop) PROVE Counted
  BY <1>3 DEF DeleteEtlTable, DeleteEtlTableRowOnly
<1>4. Load => Counted
  BY DEF Load, LoadTable, RecordMaster, RecordLoad, LoadFails, LoadCancelled
<1>5. ASSUME NEW s, NEW b, NEW e, NEW t, NEW active, CreateBatchJob(s, b, e, t, active) PROVE Counted
  BY <1>5 DEF CreateBatchJob
<1>6. ASSUME NEW s, NEW b, NEW t, DeleteBatchJob(s, b) \/ DeleteTargetAndDrop(s, t, b) PROVE Counted
  BY <1>6 DEF DeleteBatchJob, DeleteTargetAndDrop
<1>7. Following => Counted
  BY DEF Following, DeletedEtlTable, DeletedConnection, DeletionFails, ScheduleBatch, RegisterTarget, EnterListed,
    DeletedBatchJob, ReadBatches
<1> HIDE DEF Request, Quietly, Counted
<1> QED BY <1>1, <1>2, <1>3, <1>4, <1>5, <1>6, <1>7 DEF EtlRequest, ConnectionRequest, RegistrationRequest,
          DeletionRequest, BatchRequest, NewBatchRequest, EndOfBatchRequest, EndOfTargetRequest

LEMMA SavesCounted == SaveRequest \/ (\E w \in Worker : SaveWorker(w)) => Counted
<1> USE DEF Request, Quietly, Counted
<1>1. ASSUME NEW s, NEW t, NEW hints, SaveQueryAsTable(s, t, hints) PROVE Counted
  BY <1>1 DEF SaveQueryAsTable
<1>2. ASSUME NEW s, NEW j, CancelSave(s, j) \/ RequeueSave(s, j) PROVE Counted
  BY <1>2, SMTT(30) DEF CancelSave, RequeueSave
<1>3. ASSUME NEW w, SaveWorker(w) PROVE Counted
  BY <1>3 DEF SaveWorker, Claim, CreateTable, RegisterTable, Finish, SetComments, CreateFails, StepFails,
    DropOrphan, DropFails, MarkFailed, GiveUp
<1> HIDE DEF Request, Quietly, Counted
<1> QED BY <1>1, <1>2, <1>3 DEF SaveRequest

LEMMA BoardsCounted ==
  \/ Guard \/ BoardRequest \/ WidgetRequest \/ SharingRequest \/ TransferRequest
  \/ HandedOver \/ HandOverFails
  => Counted
<1> USE DEF Request, Quietly, Counted
<1>1. Guard => Counted
  BY DEF Guard, Enter, NoAnswer, AskColumns, ReadColumns, Compute, ReadNames, Purge
<1>2. ASSUME NEW s, NEW b, NEW scope, CreateBoard(s, b, scope) \/ DeleteBoard(s, b) PROVE Counted
  BY <1>2 DEF CreateBoard, DeleteBoard
<1>3. ASSUME NEW s, NEW b, NEW active, NEW scope, PatchBoard(s, b, active, scope) PROVE Counted
  BY <1>3 DEF PatchBoard
<1>4. ASSUME NEW s, NEW w, NEW b, NEW t, AddWidget(s, w, b, t) \/ PatchWidget(s, w, t) \/ DeleteWidget(s, w) PROVE Counted
  BY <1>4 DEF AddWidget, PatchWidget, DeleteWidget
<1>5. ASSUME NEW s, NEW b, NEW u, NEW level,
             DeleteShare(s, b, u) \/ UpsertShare(s, b, u, level) \/ SendInvite(s, b, u, level)
      PROVE  Counted
  BY <1>5 DEF DeleteShare, UpsertShare, SendInvite
<1>6. ASSUME NEW s, NEW n, AcceptInvite(s, n) \/ RejectInvite(s, n) PROVE Counted
  BY <1>6 DEF AcceptInvite, RejectInvite
<1>7. ASSUME NEW s, NEW b, NEW from, NEW to, TransferBoard(s, b, from, to) PROVE Counted
  BY <1>7 DEF TransferBoard
<1>8. HandedOver \/ HandOverFails => Counted
  BY DEF HandedOver, HandOverFails
<1> HIDE DEF Request, Quietly, Counted
<1> QED BY <1>1, <1>2, <1>3, <1>4, <1>5, <1>6, <1>7, <1>8 DEF BoardRequest, WidgetRequest, SharingRequest, TransferRequest

Left == requests \in 0..MaxRequests

LEMMA RequestsStep == Left /\ [Next]_vars => Left'
<1> SUFFICES ASSUME requests \in 0..MaxRequests, [Next]_vars PROVE requests' \in 0..MaxRequests
  BY DEF Left
<1>1. Abandon \/ UNCHANGED vars => Counted
  BY DEF Abandon, vars, Counted
<1>2. Counted
  BY <1>1, SessionsCounted, LoadsCounted, SavesCounted, BoardsCounted DEF Next
<1> QED BY <1>2, DeskAssumption DEF Counted

(* Everything the desk keeps has its type, for any number of requests.      *)
THEOREM TypeCorrect == Spec => []TypeOK
<1>1. Init => Left
  BY ScenesAssumption DEF Init, Typed, Left
<1>2. TablesInv /\ ViewInv /\ Left => TypeOK
  BY DEF TablesInv, LoadInv, TableType, LoadType, SaveInv, SaveType, ViewInv, AccessType, CacheInv, BoardInv,
    BoardType, HandType, Made, TypeOK, Left
<1> QED BY <1>1, <1>2, RequestsStep, TablesInvariance, ViewInvariance, PTL DEF Spec

=============================================================================
