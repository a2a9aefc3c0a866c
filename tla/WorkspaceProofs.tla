---------------------------- MODULE WorkspaceProofs ----------------------------
(***************************************************************************)
(* Proofs about sessions, for any number of users, sessions and requests:  *)
(* what ends a session ends it for good.                                   *)
(***************************************************************************)
EXTENDS Workspace, TLAPS

(* No table was made by two jobs, and none that a job made is what a load   *)
(* makes or nothing.                                                        *)
LEMMA SavedApart ==
  /\ \A i, j \in Job : Saved(i) = Saved(j) => i = j
  /\ \A j \in Job : Saved(j) # NotMade /\ Saved(j) # Loaded
  /\ Loaded # NotMade
BY DEF Saved, NotMade, Loaded

-----------------------------------------------------------------------------
(* What each part of the system leaves alone.                               *)

LEMMA MapFrame == MapRequest => UNCHANGED <<access, loads, saving, caching, boards, apart>> /\ unchecked \subseteq unchecked'
<1> SUFFICES ASSUME NEW s \in Signed, NEW p \in Project,
                    \/ \E t \in Table : AddMapping(s, p, t) \/ DeleteMapping(s, p, t)
                    \/ \E l \in Lists : UpdateProject(s, p, l[1], l[2])
             PROVE  UNCHANGED <<access, loads, saving, caching, boards, apart>> /\ unchecked \subseteq unchecked'
  BY DEF MapRequest
<1> USE DEF Request, MapOnly, Others, data
<1>1. ASSUME NEW t \in Table, AddMapping(s, p, t) \/ DeleteMapping(s, p, t)
      PROVE  UNCHANGED <<access, loads, saving, caching, boards, apart>> /\ unchecked \subseteq unchecked'
  BY <1>1 DEF AddMapping, DeleteMapping
<1>2. ASSUME NEW l \in Lists, UpdateProject(s, p, l[1], l[2])
      PROVE  UNCHANGED <<access, loads, saving, caching, boards, apart>> /\ unchecked \subseteq unchecked'
  BY <1>2 DEF UpdateProject
<1> QED BY <1>1, <1>2

LEMMA GuardFrame == Guard => UNCHANGED <<access, tables, loads, saving, boards, apart>> /\ unchecked \subseteq unchecked'
BY DEF Guard, Enter, NoAnswer, AskColumns, ReadColumns, Compute, ReadNames, Purge, Quietly, Alone

LEMMA BoardFrame ==
  BoardRequest \/ WidgetRequest \/ SharingRequest \/ TransferRequest \/ HandedOver \/ HandOverFails =>
    UNCHANGED <<access, tables, loads, saving, caching, apart>> /\ unchecked \subseteq unchecked'
<1> USE DEF Request, NoHandOver, Only, data
<1>1. BoardRequest => UNCHANGED <<access, tables, loads, saving, caching, apart>> /\ unchecked \subseteq unchecked'
  <2>1. ASSUME NEW s \in Signed, NEW b, NEW scope, CreateBoard(s, b, scope)
        PROVE  UNCHANGED <<access, tables, loads, saving, caching, apart>> /\ unchecked \subseteq unchecked'
    BY <2>1 DEF CreateBoard
  <2>2. ASSUME NEW s \in Signed, NEW b, DeleteBoard(s, b)
        PROVE  UNCHANGED <<access, tables, loads, saving, caching, apart>> /\ unchecked \subseteq unchecked'
    BY <2>2 DEF DeleteBoard
  <2>3. ASSUME NEW s \in Signed, NEW b, NEW active, NEW scope, PatchBoard(s, b, active, scope)
        PROVE  UNCHANGED <<access, tables, loads, saving, caching, apart>> /\ unchecked \subseteq unchecked'
    BY <2>3 DEF PatchBoard
  <2> QED BY <2>1, <2>2, <2>3 DEF BoardRequest
<1>2. WidgetRequest => UNCHANGED <<access, tables, loads, saving, caching, apart>> /\ unchecked \subseteq unchecked'
  <2>1. ASSUME NEW s \in Signed, NEW w, NEW b, NEW t, AddWidget(s, w, b, t)
        PROVE  UNCHANGED <<access, tables, loads, saving, caching, apart>> /\ unchecked \subseteq unchecked'
    BY <2>1 DEF AddWidget
  <2>2. ASSUME NEW s \in Signed, NEW w, DeleteWidget(s, w)
        PROVE  UNCHANGED <<access, tables, loads, saving, caching, apart>> /\ unchecked \subseteq unchecked'
    BY <2>2 DEF DeleteWidget
  <2>3. ASSUME NEW s \in Signed, NEW w, NEW t, PatchWidget(s, w, t)
        PROVE  UNCHANGED <<access, tables, loads, saving, caching, apart>> /\ unchecked \subseteq unchecked'
    BY <2>3 DEF PatchWidget
  <2> QED BY <2>1, <2>2, <2>3 DEF WidgetRequest
<1>3. SharingRequest => UNCHANGED <<access, tables, loads, saving, caching, apart>> /\ unchecked \subseteq unchecked'
  <2>1. ASSUME NEW s \in Signed, NEW b, NEW u, NEW level, UpsertShare(s, b, u, level) \/ DeleteShare(s, b, u)
        PROVE  UNCHANGED <<access, tables, loads, saving, caching, apart>> /\ unchecked \subseteq unchecked'
    BY <2>1 DEF UpsertShare, DeleteShare
  <2>2. ASSUME NEW s \in Signed, NEW b, NEW u, NEW edit, SendInvite(s, b, u, edit)
        PROVE  UNCHANGED <<access, tables, loads, saving, caching, apart>> /\ unchecked \subseteq unchecked'
    BY <2>2 DEF SendInvite
  <2>3. ASSUME NEW s \in Signed, NEW n, AcceptInvite(s, n) \/ RejectInvite(s, n)
        PROVE  UNCHANGED <<access, tables, loads, saving, caching, apart>> /\ unchecked \subseteq unchecked'
    BY <2>3 DEF AcceptInvite, RejectInvite
  <2> QED BY <2>1, <2>2, <2>3 DEF SharingRequest
<1>4. TransferRequest => UNCHANGED <<access, tables, loads, saving, caching, apart>> /\ unchecked \subseteq unchecked'
  <2>1. ASSUME NEW s \in Signed, NEW b, NEW from, NEW to, TransferBoard(s, b, from, to)
        PROVE  UNCHANGED <<access, tables, loads, saving, caching, apart>> /\ unchecked \subseteq unchecked'
    BY <2>1 DEF TransferBoard
  <2> QED BY <2>1 DEF TransferRequest
<1>5. HandedOver \/ HandOverFails => UNCHANGED <<access, tables, loads, saving, caching, apart>> /\ unchecked \subseteq unchecked'
  BY DEF HandedOver, HandOverFails, Quietly
<1> QED BY <1>1, <1>2, <1>3, <1>4, <1>5

LEMMA SaveFrame ==
  /\ SaveRequest => UNCHANGED <<access, tables, loads, caching, boards, apart>> /\ unchecked \subseteq unchecked'
  /\ \A w \in Worker : SaveWorker(w) =>
       UNCHANGED <<access, loads, caching, boards, apart, gone>> /\ unchecked \subseteq unchecked'
<1> USE DEF Request, Quietly, QueueOnly, Apart, data
<1>1. SaveRequest => UNCHANGED <<access, tables, loads, caching, boards, apart>> /\ unchecked \subseteq unchecked'
  BY SMTT(30) DEF SaveRequest, SaveQueryAsTable, CancelSave, RequeueSave
<1>2. ASSUME NEW w \in Worker, SaveWorker(w)
      PROVE  UNCHANGED <<access, loads, caching, boards, apart, gone>> /\ unchecked \subseteq unchecked'
  BY <1>2 DEF SaveWorker, Claim, CreateTable, RegisterTable, Finish, SetComments, CreateFails,
    StepFails, DropOrphan, DropFails, MarkFailed, GiveUp, tables
<1> QED BY <1>1, <1>2

LEMMA EtlFrame ==
  EtlRequest \/ Load \/ BatchRequest \/ Following => UNCHANGED <<access, saving, caching, boards, apart>> /\ unchecked \subseteq unchecked'
<1> USE DEF Request, Quietly, Registering, BatchOnly, Others, data
<1>1. EtlRequest => UNCHANGED <<access, saving, caching, boards, apart>> /\ unchecked \subseteq unchecked'
  BY DEF EtlRequest, ConnectionRequest, RegistrationRequest, DeletionRequest, CreateConnection,
    CreateFileConnection, DeleteConnection, CreateEtlTable, DeleteEtlTable, DeleteEtlTableRowOnly
<1>2. Load => UNCHANGED <<access, saving, caching, boards, apart>> /\ unchecked \subseteq unchecked'
  <2>1. ASSUME NEW e, NEW how, LoadTable(e, how)
        PROVE  UNCHANGED <<access, saving, caching, boards, apart>> /\ unchecked \subseteq unchecked'
    BY <2>1 DEF LoadTable, LoadOnly
  <2>2. ASSUME NEW e, NEW done, RecordMaster(e, done) \/ RecordLoad(e) \/ LoadFails(e) \/ LoadCancelled(e)
        PROVE  UNCHANGED <<access, saving, caching, boards, apart>> /\ unchecked \subseteq unchecked'
    BY <2>2 DEF RecordMaster, RecordLoad, LoadFails, LoadCancelled, LoadOnly
  <2> QED BY <2>1, <2>2 DEF Load
<1>3. BatchRequest => UNCHANGED <<access, saving, caching, boards, apart>> /\ unchecked \subseteq unchecked'
  <2>1. ASSUME NEW s, NEW b, NEW e, NEW t, NEW active, CreateBatchJob(s, b, e, t, active)
        PROVE  UNCHANGED <<access, saving, caching, boards, apart>> /\ unchecked \subseteq unchecked'
    BY <2>1 DEF CreateBatchJob
  <2>2. EndOfBatchRequest => UNCHANGED <<access, saving, caching, boards, apart>> /\ unchecked \subseteq unchecked'
    BY ZenonT(40) DEF EndOfBatchRequest, DeleteBatchJob
  <2>3. ASSUME NEW s, NEW t, NEW b, DeleteTargetAndDrop(s, t, b)
        PROVE  UNCHANGED <<access, saving, caching, boards, apart>> /\ unchecked \subseteq unchecked'
    BY <2>3 DEF DeleteTargetAndDrop
  <2> QED BY <2>1, <2>2, <2>3 DEF BatchRequest, NewBatchRequest, EndOfTargetRequest
<1>4. Following => UNCHANGED <<access, saving, caching, boards, apart>> /\ unchecked \subseteq unchecked'
  BY DEF Following, DeletedEtlTable, DeletedConnection, DeletionFails, ScheduleBatch, RegisterTarget, EnterListed,
    DeletedBatchJob, ReadBatches
<1> QED BY <1>1, <1>2, <1>3, <1>4

LEMMA SessionFrame ==
  SessionRequest \/ EndOfSessions => UNCHANGED <<tables, loads, saving, caching, boards, apart>> /\ unchecked \subseteq unchecked'
<1> USE DEF Request, Quietly, Elsewhere, GiveTokens, data
<1>1. SessionRequest => UNCHANGED <<tables, loads, saving, caching, boards, apart>> /\ unchecked \subseteq unchecked'
  <2>1. ASSUME NEW u, NEW s, NEW pw,
               CreateOrg(u) \/ LoginSendCode(u, pw) \/ VerifyLoginComplete(s, u)
        PROVE  UNCHANGED <<tables, loads, saving, caching, boards, apart>> /\ unchecked \subseteq unchecked'
    BY <2>1 DEF CreateOrg, LoginSendCode, VerifyLoginComplete
  <2>2. ASSUME NEW s, NEW p, RefreshSessionTokens(s, p) \/ RotateWithProject(s, p) \/ RotateClearProject(s)
        PROVE  UNCHANGED <<tables, loads, saving, caching, boards, apart>> /\ unchecked \subseteq unchecked'
    BY <2>2 DEF RefreshSessionTokens, RotateWithProject, RotateClearProject
  <2>3. ASSUME NEW s, NEW u, NEW pw,
               \/ LogoutOneSession(s) \/ SuspendAccount(s, u) \/ ActivateAccount(s, u)
               \/ ChangePassword(s, pw)
        PROVE  UNCHANGED <<tables, loads, saving, caching, boards, apart>> /\ unchecked \subseteq unchecked'
    BY <2>3 DEF LogoutOneSession, SuspendAccount, ActivateAccount, ChangePassword
  <2> QED BY <2>1, <2>2, <2>3 DEF SessionRequest
<1>2. EndOfSessions => UNCHANGED <<tables, loads, saving, caching, boards, apart>> /\ unchecked \subseteq unchecked'
  BY DEF EndOfSessions, InvalidateAllSessions, InvalidateFails
<1> QED BY <1>1, <1>2

(* A request that has checked is followed to its end only where the proofs  *)
(* need what it has seen.                                                   *)
Watched(q) == q[1] \in {"load", "requeue"}
Unwatched == slow' = slow \/ ~Watched(slow')

LEMMA NothingWatched == ~Watched(Nothing)
BY DEF Watched, Nothing

LEMMA UnwatchedSlow ==
  Unwatched => /\ slow' = slow \/ slow'[1] # "load"
               /\ slow' = slow \/ slow'[1] # "requeue"
BY DEF Unwatched, Watched

LEMMA SlowFrame ==
  /\ SessionRequest \/ EndOfSessions \/ MapRequest \/ Guard \/ Abandon => Unwatched
  /\ EtlRequest \/ BatchRequest \/ Following => Unwatched
  /\ Load => Unwatched \/ \E e \in Etl, how \in {"full", "more", "nothing"} : LoadTable(e, how)
  /\ BoardRequest \/ WidgetRequest \/ SharingRequest \/ TransferRequest \/ HandedOver \/ HandOverFails => Unwatched
  /\ \A w \in Worker : SaveWorker(w) => Unwatched
  /\ SaveRequest => Unwatched \/ \E s \in Signed, j \in Job : RequeueSave(s, j)
<1>1. ASSUME NEW u, CreateOrg(u) PROVE Unwatched
  <2>1. ~Watched(<<"create org", u>>)
    BY DEF Watched
  <2> QED BY <1>1, <2>1, NothingWatched DEF CreateOrg, Request, Unwatched
<1>2. ASSUME NEW u, NEW pw, LoginSendCode(u, pw) PROVE Unwatched
  <2>1. ~Watched(<<"login", u, pw>>)
    BY DEF Watched
  <2> QED BY <1>2, <2>1, NothingWatched DEF LoginSendCode, Request, Unwatched
<1>3. ASSUME NEW s, NEW u, VerifyLoginComplete(s, u) PROVE Unwatched
  <2>1. ~Watched(<<"verify", s, u>>)
    BY DEF Watched
  <2> QED BY <1>3, <2>1, NothingWatched DEF VerifyLoginComplete, Request, Unwatched
<1>4. ASSUME NEW s, NEW claim, RefreshSessionTokens(s, claim) PROVE Unwatched
  <2>1. ~Watched(<<"refresh", s, claim>>)
    BY DEF Watched
  <2> QED BY <1>4, <2>1, NothingWatched DEF RefreshSessionTokens, Request, Unwatched
<1>5. ASSUME NEW s, NEW p, RotateWithProject(s, p) PROVE Unwatched
  <2>1. ~Watched(<<"rotate", s, p>>)
    BY DEF Watched
  <2> QED BY <1>5, <2>1, NothingWatched DEF RotateWithProject, Request, Unwatched
<1>6. ASSUME NEW s, RotateClearProject(s) PROVE Unwatched
  <2>1. ~Watched(<<"clear", s>>)
    BY DEF Watched
  <2> QED BY <1>6, <2>1, NothingWatched DEF RotateClearProject, Request, Unwatched
<1>7. ASSUME NEW s, LogoutOneSession(s) PROVE Unwatched
  <2>1. ~Watched(<<"logout", s>>)
    BY DEF Watched
  <2> QED BY <1>7, <2>1, NothingWatched DEF LogoutOneSession, Request, Unwatched
<1>8. ASSUME NEW s, NEW u, SuspendAccount(s, u) PROVE Unwatched
  <2>1. ~Watched(<<"suspend", s, u>>)
    BY DEF Watched
  <2> QED BY <1>8, <2>1, NothingWatched DEF SuspendAccount, Request, Unwatched
<1>9. ASSUME NEW s, NEW u, ActivateAccount(s, u) PROVE Unwatched
  <2>1. ~Watched(<<"activate", s, u>>)
    BY DEF Watched
  <2> QED BY <1>9, <2>1, NothingWatched DEF ActivateAccount, Request, Unwatched
<1>10. ASSUME NEW s, NEW pw, ChangePassword(s, pw) PROVE Unwatched
  <2>1. ~Watched(<<"password", s, pw>>)
    BY DEF Watched
  <2> QED BY <1>10, <2>1, NothingWatched DEF ChangePassword, Request, Unwatched
<1>11. ASSUME NEW s, NEW p, NEW t, AddMapping(s, p, t) PROVE Unwatched
  <2>1. ~Watched(<<"map", s, p, t>>)
    BY DEF Watched
  <2> QED BY <1>11, <2>1, NothingWatched DEF AddMapping, Request, Unwatched
<1>12. ASSUME NEW s, NEW p, NEW t, DeleteMapping(s, p, t) PROVE Unwatched
  <2>1. ~Watched(<<"unmap", s, p, t>>)
    BY DEF Watched
  <2> QED BY <1>12, <2>1, NothingWatched DEF DeleteMapping, Request, Unwatched
<1>13. ASSUME NEW s, NEW p, NEW flags, NEW wanted, UpdateProject(s, p, flags, wanted) PROVE Unwatched
  <2>1. ~Watched(<<"update", s, p, flags, wanted>>)
    BY DEF Watched
  <2> QED BY <1>13, <2>1, NothingWatched DEF UpdateProject, Request, Unwatched
<1>14. ASSUME NEW s, NEW c, CreateConnection(s, c) PROVE Unwatched
  <2>1. ~Watched(<<"connection", s, c>>)
    BY DEF Watched
  <2> QED BY <1>14, <2>1, NothingWatched DEF CreateConnection, Request, Unwatched
<1>15. ASSUME NEW s, NEW c, CreateFileConnection(s, c) PROVE Unwatched
  <2>1. ~Watched(<<"files", s, c>>)
    BY DEF Watched
  <2> QED BY <1>15, <2>1, NothingWatched DEF CreateFileConnection, Request, Unwatched
<1>16. ASSUME NEW s, NEW c, DeleteConnection(s, c) PROVE Unwatched
  <2>1. ~Watched(<<"disconnect", s, c>>)
    BY DEF Watched
  <2> QED BY <1>16, <2>1, NothingWatched DEF DeleteConnection, Request, Unwatched
<1>17. ASSUME NEW s, NEW e, NEW c, NEW t, NEW from, NEW mode, CreateEtlTable(s, e, c, t, from, mode) PROVE Unwatched
  <2>1. ~Watched(<<"etl", s, e, c, t, from, mode>>)
    BY DEF Watched
  <2> QED BY <1>17, <2>1, NothingWatched DEF CreateEtlTable, Request, Unwatched
<1>18. ASSUME NEW s, NEW e, NEW drop, DeleteEtlTable(s, e, drop) PROVE Unwatched
  <2>1. ~Watched(<<"delete", s, e, drop>>)
    BY DEF Watched
  <2> QED BY <1>18, <2>1, NothingWatched DEF DeleteEtlTable, Request, Unwatched
<1>19. ASSUME NEW s, NEW e, NEW too, DeleteEtlTableRowOnly(s, e, too) PROVE Unwatched
  <2>1. ~Watched(<<"row", s, e, too>>)
    BY DEF Watched
  <2> QED BY <1>19, <2>1, NothingWatched DEF DeleteEtlTableRowOnly, Request, Unwatched
<1>20. ASSUME NEW s, NEW b, NEW e, NEW t, NEW active, CreateBatchJob(s, b, e, t, active) PROVE Unwatched
  <2>1. ~Watched(<<"batch", s, b, e, t, active>>)
    BY DEF Watched
  <2> QED BY <1>20, <2>1, NothingWatched DEF CreateBatchJob, Request, Unwatched
<1>21. ASSUME NEW s, NEW b, DeleteBatchJob(s, b) PROVE Unwatched
  <2>1. ~Watched(<<"delete batch", s, b>>)
    BY DEF Watched
  <2> QED BY <1>21, <2>1, NothingWatched DEF DeleteBatchJob, Request, Unwatched
<1>22. ASSUME NEW s, NEW t, NEW b, DeleteTargetAndDrop(s, t, b) PROVE Unwatched
  <2>1. ~Watched(<<"delete target", s, t, b>>)
    BY DEF Watched
  <2> QED BY <1>22, <2>1, NothingWatched DEF DeleteTargetAndDrop, Request, Unwatched
<1>23. ASSUME NEW s, NEW b, NEW scope, CreateBoard(s, b, scope) PROVE Unwatched
  <2>1. ~Watched(<<"board", s, b, scope>>)
    BY DEF Watched
  <2> QED BY <1>23, <2>1, NothingWatched DEF CreateBoard, Request, Unwatched
<1>24. ASSUME NEW s, NEW b, DeleteBoard(s, b) PROVE Unwatched
  <2>1. ~Watched(<<"delete board", s, b>>)
    BY DEF Watched
  <2> QED BY <1>24, <2>1, NothingWatched DEF DeleteBoard, Request, Unwatched
<1>25. ASSUME NEW s, NEW b, NEW active, NEW scope, PatchBoard(s, b, active, scope) PROVE Unwatched
  <2>1. ~Watched(<<"patch", s, b, active, scope>>)
    BY DEF Watched
  <2> QED BY <1>25, <2>1, NothingWatched DEF PatchBoard, Request, Unwatched
<1>26. ASSUME NEW s, NEW w, NEW b, NEW t, AddWidget(s, w, b, t) PROVE Unwatched
  <2>1. ~Watched(<<"widget", s, w, b, t>>)
    BY DEF Watched
  <2> QED BY <1>26, <2>1, NothingWatched DEF AddWidget, Request, Unwatched
<1>27. ASSUME NEW s, NEW w, NEW t, PatchWidget(s, w, t) PROVE Unwatched
  <2>1. ~Watched(<<"patch widget", s, w, t>>)
    BY DEF Watched
  <2> QED BY <1>27, <2>1, NothingWatched DEF PatchWidget, Request, Unwatched
<1>28. ASSUME NEW s, NEW w, DeleteWidget(s, w) PROVE Unwatched
  <2>1. ~Watched(<<"delete widget", s, w>>)
    BY DEF Watched
  <2> QED BY <1>28, <2>1, NothingWatched DEF DeleteWidget, Request, Unwatched
<1>29. EndOfSessions \/ Guard \/ Abandon => Unwatched
  BY NothingWatched DEF EndOfSessions, InvalidateAllSessions, InvalidateFails, Guard, Enter, NoAnswer,
    AskColumns, ReadColumns, Compute, ReadNames, Purge, Abandon, Quietly, Unwatched
<1>30. Following => Unwatched
  BY DEF Following, DeletedEtlTable, DeletedConnection, DeletionFails, ScheduleBatch, RegisterTarget, EnterListed,
    DeletedBatchJob, ReadBatches, Quietly, Unwatched
<1>31. ASSUME NEW w \in Worker, SaveWorker(w) PROVE Unwatched
  BY <1>31 DEF SaveWorker, Claim, CreateTable, RegisterTable, Finish, SetComments, CreateFails,
    StepFails, DropOrphan, DropFails, MarkFailed, GiveUp, Quietly, Unwatched
<1>32. SessionRequest => Unwatched
  BY <1>1, <1>2, <1>3, <1>4, <1>5, <1>6, <1>7, <1>8, <1>9, <1>10 DEF SessionRequest
<1>33. MapRequest => Unwatched
  BY <1>11, <1>12, <1>13 DEF MapRequest
<1>34. EtlRequest => Unwatched
  BY <1>14, <1>15, <1>16, <1>17, <1>18, <1>19 DEF EtlRequest, ConnectionRequest, RegistrationRequest, DeletionRequest
<1>35. BatchRequest => Unwatched
  BY <1>20, <1>21, <1>22 DEF BatchRequest, NewBatchRequest, EndOfBatchRequest, EndOfTargetRequest
<1>36. BoardRequest => Unwatched
  BY <1>23, <1>24, <1>25 DEF BoardRequest
<1>37. WidgetRequest => Unwatched
  BY <1>26, <1>27, <1>28 DEF WidgetRequest
<1>38. ASSUME NEW s, NEW t, NEW hints, SaveQueryAsTable(s, t, hints) PROVE Unwatched
  <2>1. ~Watched(<<"save", s, t, hints>>)
    BY DEF Watched
  <2> QED BY <1>38, <2>1, NothingWatched DEF SaveQueryAsTable, Request, Unwatched
<1>39. ASSUME NEW s, NEW j, CancelSave(s, j) PROVE Unwatched
  <2>1. ~Watched(<<"cancel", s, j>>)
    BY DEF Watched
  <2> QED BY <1>39, <2>1, NothingWatched DEF CancelSave, Request, Unwatched
<1>40. ASSUME NEW s, NEW b, NEW u, NEW level, UpsertShare(s, b, u, level) PROVE Unwatched
  <2>1. ~Watched(<<"share", s, b, u, level>>)
    BY DEF Watched
  <2> QED BY <1>40, <2>1, NothingWatched DEF UpsertShare, Request, Unwatched
<1>41. ASSUME NEW s, NEW b, NEW u, NEW edit, SendInvite(s, b, u, edit) PROVE Unwatched
  <2>1. ~Watched(<<"invite", s, b, u, edit>>)
    BY DEF Watched
  <2> QED BY <1>41, <2>1, NothingWatched DEF SendInvite, Request, Unwatched
<1>42. ASSUME NEW s, NEW n, AcceptInvite(s, n) PROVE Unwatched
  <2>1. ~Watched(<<"accept", s, n>>)
    BY DEF Watched
  <2> QED BY <1>42, <2>1, NothingWatched DEF AcceptInvite, Request, Unwatched
<1>43. ASSUME NEW s, NEW n, RejectInvite(s, n) PROVE Unwatched
  <2>1. ~Watched(<<"reject", s, n>>)
    BY DEF Watched
  <2> QED BY <1>43, <2>1, NothingWatched DEF RejectInvite, Request, Unwatched
<1>44. SaveRequest => Unwatched \/ \E s \in Signed, j \in Job : RequeueSave(s, j)
  BY <1>38, <1>39 DEF SaveRequest
<1>45. ASSUME NEW s, NEW b, NEW u, DeleteShare(s, b, u) PROVE Unwatched
  <2>1. ~Watched(<<"unshare", s, b, u>>)
    BY DEF Watched
  <2> QED BY <1>45, <2>1, NothingWatched DEF DeleteShare, Request, Unwatched
<1>46. SharingRequest => Unwatched
  BY <1>40, <1>41, <1>42, <1>43, <1>45 DEF SharingRequest
<1>47. ASSUME NEW s, NEW b, NEW from, NEW to, TransferBoard(s, b, from, to) PROVE Unwatched
  <2>1. ~Watched(<<"transfer", s, b, from, to>>)
    BY DEF Watched
  <2> QED BY <1>47, <2>1, NothingWatched DEF TransferBoard, Request, Unwatched
<1>48. TransferRequest \/ HandedOver \/ HandOverFails => Unwatched
  BY <1>47 DEF TransferRequest, HandedOver, HandOverFails, Quietly, Unwatched
<1>49. Load => Unwatched \/ \E e \in Etl, how \in {"full", "more", "nothing"} : LoadTable(e, how)
  BY DEF Load, RecordMaster, RecordLoad, LoadFails, LoadCancelled, Quietly, Unwatched
<1> QED BY <1>29, <1>30, <1>31, <1>32, <1>33, <1>34, <1>35, <1>36, <1>37, <1>44, <1>46, <1>48, <1>49

-----------------------------------------------------------------------------
(* Sessions.                                                                *)

AccessType ==
  /\ account \in [User -> Account] /\ session \in [Session -> Login]
  /\ ending \in [User -> Nat] /\ left \subseteq User
  /\ \A s \in Session : session[s].at # "new" => session[s].of \in User

(* What a request of the sessions' part may write, and on what condition.   *)
WritesAccount ==
  /\ UNCHANGED <<session, ending, left>>
  /\ \E u \in User :
       \/ account' = [account EXCEPT ![u].at = "there", ![u].active = TRUE]
       \/ \E new \in BOOLEAN : account' = [account EXCEPT ![u].code = new]
       \/ \E new \in BOOLEAN : account' = [account EXCEPT ![u].active = new]
Begins ==
  /\ UNCHANGED <<ending, left>>
  /\ \E s \in Session, u \in User :
       /\ session[s].at = "new"
       /\ account' = [account EXCEPT ![u].code = FALSE]
       /\ session' = [session EXCEPT ![s] = Begun(u)]
Renews ==
  /\ UNCHANGED <<account, ending, left>>
  /\ \E s \in Signed, claim \in Project \cup {NoProject} :
       /\ session' = [session EXCEPT ![s].at = "open", ![s].claim = claim]
       /\ Open(s) \/ s \in unchecked'
Ends ==
  /\ UNCHANGED <<ending, left>>
  /\ \E ss \in SUBSET Session : session' = Ended(ss)
  /\ \/ UNCHANGED account
     \/ \E u \in User : account' = [account EXCEPT ![u].active = FALSE]
ChangesPassword ==
  /\ UNCHANGED <<session, left>>
  /\ \E u \in User :
       /\ account[u].pw < MaxPasswords
       /\ account' = [account EXCEPT ![u].pw = @ + 1]
       /\ ending' = [ending EXCEPT ![u] = @ + 1]

LEMMA SessionWrites ==
  ASSUME AccessType, SessionRequest
  PROVE  /\ unchecked \subseteq unchecked'
         /\ \/ UNCHANGED access
            \/ WritesAccount \/ Begins \/ Renews \/ Ends \/ ChangesPassword
<1> DEFINE Goal == /\ unchecked \subseteq unchecked'
                   /\ \/ UNCHANGED access
                      \/ WritesAccount \/ Begins \/ Renews \/ Ends \/ ChangesPassword
<1> USE DEF Request, data
<1>1. ASSUME NEW u \in User, CreateOrg(u) PROVE Goal
  BY <1>1 DEF CreateOrg, WritesAccount
<1>2. ASSUME NEW u \in User, NEW pw, LoginSendCode(u, pw) PROVE Goal
  BY <1>2 DEF LoginSendCode, WritesAccount
<1>3. ASSUME NEW u \in User, NEW s \in New(session), VerifyLoginComplete(s, u) PROVE Goal
  <2>1. s \in Session
    BY DEF New, AccessType
  <2> QED BY <1>3, <2>1 DEF VerifyLoginComplete, Begins
<1>4. ASSUME NEW s \in Signed, NEW claim \in Project \cup {NoProject}, RefreshSessionTokens(s, claim)
      PROVE  Goal
  BY <1>4 DEF RefreshSessionTokens, GiveTokens, Renews, CanRefresh
<1>5. ASSUME NEW s \in Signed, NEW p \in Project, RotateWithProject(s, p) PROVE Goal
  BY <1>5 DEF RotateWithProject, GiveTokens, Renews, Bound
<1>6. ASSUME NEW s \in Signed, RotateClearProject(s) PROVE Goal
  BY <1>6 DEF RotateClearProject, GiveTokens, Renews, Bound
<1>7. ASSUME NEW s \in Signed, LogoutOneSession(s) PROVE Goal
  <2>1. {s} \in SUBSET Session
    BY DEF Signed
  <2> QED BY <1>7, <2>1 DEF LogoutOneSession, Ends
<1>8. ASSUME NEW s \in Signed, NEW u \in User, SuspendAccount(s, u) PROVE Goal
  <2>1. SessionsOf(u) \in SUBSET Session
    BY DEF SessionsOf
  <2> QED BY <1>8, <2>1 DEF SuspendAccount, Ends
<1>9. ASSUME NEW s \in Signed, NEW u \in User, ActivateAccount(s, u) PROVE Goal
  BY <1>9 DEF ActivateAccount, WritesAccount
<1>10. ASSUME NEW s \in Signed, NEW pw, ChangePassword(s, pw) PROVE Goal
  <2>1. session[s].of \in User
    BY DEF Signed, AccessType, Login
  <2> QED BY <1>10, <2>1 DEF ChangePassword, ChangesPassword
<1> HIDE DEF Goal, Request, data
<1>11. Goal
  BY <1>1, <1>2, <1>3, <1>4, <1>5, <1>6, <1>7, <1>8, <1>9, <1>10 DEF SessionRequest
<1> QED BY <1>11 DEF Goal

(* Records stay records.                                                    *)
LEMMA AccountType ==
  ASSUME NEW a \in Account
  PROVE  /\ \A new \in BOOLEAN : [a EXCEPT !.code = new] \in Account /\ [a EXCEPT !.active = new] \in Account
         /\ [a EXCEPT !.at = "there", !.active = TRUE] \in Account
         /\ a.pw < MaxPasswords => [a EXCEPT !.pw = @ + 1] \in Account
<1>1. \A new \in BOOLEAN : [a EXCEPT !.code = new] \in Account /\ [a EXCEPT !.active = new] \in Account
  BY DEF Account
<1>2. [a EXCEPT !.at = "there", !.active = TRUE] \in Account
  BY DEF Account
<1>3. ASSUME a.pw < MaxPasswords PROVE [a EXCEPT !.pw = @ + 1] \in Account
  <2>1. a.pw + 1 \in 0..MaxPasswords
    BY <1>3, DeskAssumption DEF Account
  <2> QED BY <2>1 DEF Account
<1> QED BY <1>1, <1>2, <1>3

LEMMA AccountsType ==
  ASSUME account \in [User -> Account], NEW u \in User, NEW new \in BOOLEAN
  PROVE  /\ [account EXCEPT ![u].code = new] \in [User -> Account]
         /\ [account EXCEPT ![u].active = new] \in [User -> Account]
<1>1. [account[u] EXCEPT !.code = new] \in Account /\ [account[u] EXCEPT !.active = new] \in Account
  BY AccountType
<1>2. [account EXCEPT ![u] = [account[u] EXCEPT !.code = new]] \in [User -> Account]
  BY <1>1
<1>3. [account EXCEPT ![u] = [account[u] EXCEPT !.active = new]] \in [User -> Account]
  BY <1>1
<1> QED BY <1>2, <1>3

LEMMA LoginType ==
  ASSUME NEW l \in Login
  PROVE  /\ [l EXCEPT !.at = "ended"] \in Login
         /\ \A claim \in Project \cup {NoProject} : [l EXCEPT !.at = "open", !.claim = claim] \in Login
BY DEF Login

(* Ending sessions of one kind or another changes nothing else of them.     *)
LEMMA EndedType ==
  ASSUME AccessType, NEW ss
  PROVE  /\ Ended(ss) \in [Session -> Login]
         /\ \A s \in Session : /\ Ended(ss)[s].of = session[s].of /\ Ended(ss)[s].pw = session[s].pw
                               /\ Ended(ss)[s].at \in {session[s].at, "ended"}
                               /\ s \in ss => Ended(ss)[s].at # "open"
                               /\ Ended(ss)[s].at = "new" => session[s].at = "new"
                               /\ session[s].at = "new" => Ended(ss)[s].at = "new"
<1>1. \A s \in Session : session[s] \in Login /\ [session[s] EXCEPT !.at = "ended"] \in Login
  BY LoginType DEF AccessType
<1> QED BY <1>1 DEF Ended, Open, Login

LEMMA AccessTypeStep ==
  ASSUME AccessType,
         UNCHANGED access \/ WritesAccount \/ Begins \/ Renews \/ Ends \/ ChangesPassword \/ EndOfSessions
  PROVE  AccessType'
<1>1. /\ account \in [User -> Account] /\ session \in [Session -> Login]
      /\ ending \in [User -> Nat] /\ left \subseteq User
      /\ \A s \in Session : session[s].at # "new" => session[s].of \in User
  BY DEF AccessType
<1>2. CASE UNCHANGED access
  BY <1>1, <1>2 DEF AccessType, access
<1>3. CASE WritesAccount
  <2>1. account' \in [User -> Account]
    <3>1. PICK u \in User :
            \/ account' = [account EXCEPT ![u].at = "there", ![u].active = TRUE]
            \/ \E new \in BOOLEAN : account' = [account EXCEPT ![u].code = new]
            \/ \E new \in BOOLEAN : account' = [account EXCEPT ![u].active = new]
      BY <1>3 DEF WritesAccount
    <3>2. account[u] \in Account
      BY <1>1
    <3>3. CASE account' = [account EXCEPT ![u].at = "there", ![u].active = TRUE]
      <4>1. [account[u] EXCEPT !.at = "there", !.active = TRUE] \in Account
        BY <3>2, AccountType
      <4>2. account' = [account EXCEPT ![u] = [account[u] EXCEPT !.at = "there", !.active = TRUE]]
        BY <1>1, <3>3
      <4> QED BY <1>1, <4>1, <4>2
    <3>4. CASE \/ \E new \in BOOLEAN : account' = [account EXCEPT ![u].code = new]
               \/ \E new \in BOOLEAN : account' = [account EXCEPT ![u].active = new]
      <4>1. CASE \E new \in BOOLEAN : account' = [account EXCEPT ![u].code = new]
        <5>1. PICK new \in BOOLEAN : account' = [account EXCEPT ![u].code = new]
          BY <4>1
        <5>2. [account EXCEPT ![u].code = new] \in [User -> Account]
          BY <1>1, AccountsType
        <5> QED BY <5>1, <5>2
      <4>2. CASE \E new \in BOOLEAN : account' = [account EXCEPT ![u].active = new]
        <5>1. PICK new \in BOOLEAN : account' = [account EXCEPT ![u].active = new]
          BY <4>2
        <5>2. [account EXCEPT ![u].active = new] \in [User -> Account]
          BY <1>1, AccountsType
        <5> QED BY <5>1, <5>2
      <4> QED BY <3>4, <4>1, <4>2
    <3> QED BY <3>1, <3>3, <3>4
  <2> QED BY <1>1, <1>3, <2>1 DEF WritesAccount, AccessType
<1>4. CASE Begins
  <2>1. PICK s \in Session, u \in User :
          /\ account' = [account EXCEPT ![u].code = FALSE]
          /\ session' = [session EXCEPT ![s] = Begun(u)]
    BY <1>4 DEF Begins
  <2>2. Begun(u) \in Login /\ Begun(u).of = u
    BY <1>1 DEF Begun, Login, Account
  <2>3. account' \in [User -> Account]
    BY <1>1, <2>1, AccountType
  <2> QED BY <1>1, <1>4, <2>1, <2>2, <2>3 DEF Begins, AccessType
<1>5. CASE Renews
  <2>1. PICK s \in Signed, claim \in Project \cup {NoProject} :
          session' = [session EXCEPT ![s].at = "open", ![s].claim = claim]
    BY <1>5 DEF Renews
  <2>2. s \in Session /\ session[s] \in Login /\ session[s].of \in User
    BY <1>1 DEF Signed, Login
  <2>3. session' \in [Session -> Login]
    BY <1>1, <2>1, <2>2, LoginType
  <2>4. \A r \in Session : session'[r].at # "new" => session'[r].of \in User
    BY <1>1, <2>1, <2>2 DEF Login
  <2> QED BY <1>1, <1>5, <2>3, <2>4 DEF Renews, AccessType
<1>6. CASE Ends
  <2>1. session' \in [Session -> Login] /\ \A s \in Session : session'[s].at # "new" => session'[s].of \in User
    BY <1>1, <1>6, EndedType DEF Ends
  <2>2. account' \in [User -> Account]
    <3>1. ASSUME NEW u \in User, account' = [account EXCEPT ![u].active = FALSE]
          PROVE  account' \in [User -> Account]
      <4>1. [account EXCEPT ![u].active = FALSE] \in [User -> Account]
        BY <1>1, AccountsType
      <4> QED BY <3>1, <4>1
    <3> QED BY <1>1, <1>6, <3>1 DEF Ends
  <2> QED BY <1>1, <1>6, <2>1, <2>2 DEF Ends, AccessType
<1>7. CASE ChangesPassword
  <2>1. account' \in [User -> Account]
    <3>1. PICK u \in User : account[u].pw < MaxPasswords /\ account' = [account EXCEPT ![u].pw = @ + 1]
      BY <1>7 DEF ChangesPassword
    <3>2. [account[u] EXCEPT !.pw = @ + 1] \in Account
      BY <1>1, <3>1, AccountType
    <3> QED BY <1>1, <3>1, <3>2
  <2>2. ending' \in [User -> Nat]
    BY <1>1, <1>7 DEF ChangesPassword
  <2> QED BY <1>1, <1>7, <2>1, <2>2 DEF ChangesPassword, AccessType
<1>8. CASE EndOfSessions
  <2>1. PICK u \in User : InvalidateAllSessions(u) \/ InvalidateFails(u)
    BY <1>8 DEF EndOfSessions
  <2>2. ending' \in [User -> Nat]
    BY <1>1, <2>1 DEF InvalidateAllSessions, InvalidateFails, ToEnd
  <2>3. session' \in [Session -> Login] /\ \A s \in Session : session'[s].at # "new" => session'[s].of \in User
    BY <1>1, <2>1, EndedType DEF InvalidateAllSessions, InvalidateFails
  <2> QED BY <1>1, <2>1, <2>2, <2>3 DEF InvalidateAllSessions, InvalidateFails, AccessType
<1> QED BY <1>2, <1>3, <1>4, <1>5, <1>6, <1>7, <1>8

(* What a step of the system does to sessions and accounts.                 *)
LEMMA AccessStep ==
  ASSUME AccessType, [Next]_vars
  PROVE  /\ unchecked \subseteq unchecked'
         /\ \/ UNCHANGED access
            \/ WritesAccount \/ Begins \/ Renews \/ Ends \/ ChangesPassword \/ EndOfSessions
<1>1. CASE SessionRequest
  BY <1>1, SessionWrites
<1>2. CASE EndOfSessions
  BY <1>2 DEF EndOfSessions, InvalidateAllSessions, InvalidateFails, Quietly
<1>3. CASE MapRequest \/ EtlRequest \/ Load \/ BatchRequest \/ Following
  BY <1>3, MapFrame, EtlFrame
<1>4. CASE SaveRequest \/ \E w \in Worker : SaveWorker(w)
  BY <1>4, SaveFrame
<1>5. CASE Guard \/ BoardRequest \/ WidgetRequest \/ SharingRequest \/ TransferRequest \/ HandedOver \/ HandOverFails
  BY <1>5, GuardFrame, BoardFrame
<1>6. CASE Abandon \/ UNCHANGED vars
  BY <1>6 DEF Abandon, vars, data
<1> QED BY <1>1, <1>2, <1>3, <1>4, <1>5, <1>6 DEF Next

(* The inductive invariant of the sessions.                                 *)
AccessInv == AccessType /\ NewPasswordEnds

LEMMA AccessInit == Init => AccessInv
<1> SUFFICES ASSUME Init PROVE AccessInv
  OBVIOUS
<1>1. PICK scene \in Scenes : account = scene.account /\ session = scene.session
  BY DEF Init
<1>2. Typed(scene) /\ Settled(scene)
  BY ScenesAssumption
<1>3. AccessType
  <2>1. \A s \in Session : session[s].at # "new" => session[s].of \in User
    BY <1>1, <1>2, SMTT(30) DEF Settled
  <2> QED BY <1>1, <1>2, <2>1 DEF Typed, AccessType, Init
<1>4. NewPasswordEnds
  BY <1>1, <1>2 DEF Settled, NewPasswordEnds, Open
<1> QED BY <1>3, <1>4 DEF AccessInv

LEMMA PasswordStep == AccessInv /\ [Next]_vars => NewPasswordEnds'
<1> SUFFICES ASSUME AccessInv, [Next]_vars,
                    NEW s \in Session \ unchecked', Open(s)',
                    session'[s].pw # account'[session'[s].of].pw
             PROVE  ending'[session'[s].of] > 0 \/ session'[s].of \in left'
  BY DEF NewPasswordEnds
<1>1. /\ account \in [User -> Account] /\ session \in [Session -> Login]
      /\ ending \in [User -> Nat] /\ left \subseteq User
      /\ \A r \in Session : session[r].at # "new" => session[r].of \in User
  BY DEF AccessInv, AccessType
<1>2. s \in Session \ unchecked /\ unchecked \subseteq unchecked'
  BY AccessStep DEF AccessInv
<1>3. Open(s) /\ session[s].pw # account[session[s].of].pw =>
        ending[session[s].of] > 0 \/ session[s].of \in left
  BY <1>2 DEF AccessInv, NewPasswordEnds
<1> USE DEF Open
<1>4. CASE UNCHANGED access
  BY <1>3, <1>4 DEF access
<1>5. CASE WritesAccount
  <2>1. \A u \in User : account'[u].pw = account[u].pw
    BY <1>1, <1>5 DEF WritesAccount, Account
  <2>2. UNCHANGED <<session, ending, left>>
    BY <1>5 DEF WritesAccount
  <2>3. session[s].of \in User
    BY <1>1, <2>2
  <2> QED BY <1>3, <2>1, <2>2, <2>3
<1>6. CASE Begins
  <2>1. PICK r \in Session, u \in User :
          /\ session[r].at = "new"
          /\ account' = [account EXCEPT ![u].code = FALSE]
          /\ session' = [session EXCEPT ![r] = Begun(u)]
    BY <1>6 DEF Begins
  <2>2. \A v \in User : account'[v].pw = account[v].pw
    BY <1>1, <2>1 DEF Account
  <2>3. CASE r = s
    BY <1>1, <2>1, <2>2, <2>3 DEF Begun
  <2>4. CASE r # s
    BY <1>1, <1>3, <1>6, <2>1, <2>2, <2>4 DEF Begins
  <2> QED BY <2>3, <2>4
<1>7. CASE Renews
  <2>1. PICK r \in Signed, claim \in Project \cup {NoProject} :
          /\ session' = [session EXCEPT ![r].at = "open", ![r].claim = claim]
          /\ Open(r) \/ r \in unchecked'
    BY <1>7 DEF Renews
  <2>2. session'[s].of = session[s].of /\ session'[s].pw = session[s].pw /\ Open(s)
    BY <1>1, <2>1 DEF Login
  <2> QED BY <1>3, <1>7, <2>2 DEF Renews
<1>8. CASE Ends
  <2>1. session'[s].of = session[s].of /\ session'[s].pw = session[s].pw /\ Open(s)
    BY <1>1, <1>8, EndedType DEF Ends, AccessInv
  <2>2. \A v \in User : account'[v].pw = account[v].pw
    BY <1>1, <1>8 DEF Ends, Account
  <2> QED BY <1>1, <1>3, <1>8, <2>1, <2>2 DEF Ends
<1>9. CASE ChangesPassword
  <2>1. PICK u \in User : /\ account' = [account EXCEPT ![u].pw = @ + 1]
                          /\ ending' = [ending EXCEPT ![u] = @ + 1]
    BY <1>9 DEF ChangesPassword
  <2>2. CASE session[s].of = u
    BY <1>1, <1>9, <2>1, <2>2 DEF ChangesPassword
  <2>3. CASE session[s].of # u
    BY <1>1, <1>3, <1>9, <2>1, <2>3 DEF ChangesPassword
  <2> QED BY <2>2, <2>3
<1>10. CASE EndOfSessions
  <2>1. PICK u \in User : InvalidateAllSessions(u) \/ InvalidateFails(u)
    BY <1>10 DEF EndOfSessions
  <2>2. CASE InvalidateAllSessions(u)
    <3>1. /\ session'[s].of = session[s].of /\ session'[s].pw = session[s].pw /\ Open(s)
          /\ s \notin SessionsOf(u)
      BY <1>1, <2>2, EndedType DEF InvalidateAllSessions, AccessInv
    <3>2. session[s].of # u
      BY <3>1 DEF SessionsOf
    <3> QED BY <1>1, <1>3, <2>2, <3>1, <3>2 DEF InvalidateAllSessions
  <2>3. CASE InvalidateFails(u)
    BY <1>1, <1>3, <2>3 DEF InvalidateFails
  <2> QED BY <2>1, <2>2, <2>3
<1> QED BY <1>4, <1>5, <1>6, <1>7, <1>8, <1>9, <1>10, AccessStep DEF AccessInv

LEMMA EndedStep ==
  AccessType /\ [Next]_vars =>
    \A s \in Session \ unchecked' : session[s].at = "ended" => session'[s].at = "ended"
<1> SUFFICES ASSUME AccessType, [Next]_vars, NEW s \in Session \ unchecked', session[s].at = "ended"
             PROVE  session'[s].at = "ended"
  OBVIOUS
<1>1. session \in [Session -> Login]
  BY DEF AccessType
<1>2. CASE UNCHANGED access \/ WritesAccount \/ ChangesPassword
  BY <1>2 DEF access, WritesAccount, ChangesPassword
<1>3. CASE Begins
  BY <1>1, <1>3 DEF Begins
<1>4. CASE Renews
  BY <1>1, <1>4 DEF Renews, Open, Signed
<1>5. CASE Ends
  BY <1>5, EndedType DEF Ends
<1>6. CASE EndOfSessions
  BY <1>6, EndedType DEF EndOfSessions, InvalidateAllSessions, InvalidateFails
<1> QED BY <1>2, <1>3, <1>4, <1>5, <1>6, AccessStep

LEMMA AccessInvStep == AccessInv /\ [Next]_vars => AccessInv'
BY AccessStep, AccessTypeStep, PasswordStep DEF AccessInv

THEOREM AccessInvariance == Spec => []AccessInv
BY AccessInit, AccessInvStep, PTL DEF Spec

(* No session that began with an old password outlives the transaction that *)
(* ends them, for any number of users, sessions and changes of password     *)
(* (change_password, invalidate_all_sessions).                              *)
THEOREM OldPasswordsEnd == Spec => []NewPasswordEnds
<1>1. AccessInv => NewPasswordEnds
  BY DEF AccessInv
<1> QED BY <1>1, AccessInvariance, PTL

(* A session that was ended is not opened again by any request that finds   *)
(* it ended (verify_session_refreshable, rotate_tokens_with_project).       *)
THEOREM EndedForGood == Spec => EndedStays
<1>1. AccessInv /\ [Next]_vars =>
        [\A s \in Session \ unchecked' : session[s].at = "ended" => session[s].at' = "ended"]_vars
  BY EndedStep DEF AccessInv
<1> QED BY <1>1, AccessInvariance, PTL DEF Spec, EndedStays
=============================================================================
