--------------------------- MODULE OrganisationProofs ---------------------------
(***************************************************************************)
(* Proofs about accounts, projects and what people own, for any numbers of *)
(* users, departments, templates, projects and assets, any bodies of the   *)
(* requests, any number of requests and any organisation to start with in  *)
(* which the rules hold.                                                   *)
(***************************************************************************)
EXTENDS Organisation, TLAPS

(* The inductive invariant.                                                 *)
IInv == TypeOK /\ References /\ Registered /\ OwnersCanOwn /\ InvitersStay

Excused == unchecked \cup unguarded
May(kind, u) == Signed(u) /\ CanOwn(kind, user[u].dvsn, user[u].etl)

(* What a request may do, part by part.  It forgets no excuse;              *)
Growing ==
  /\ References'
  /\ unchecked \subseteq unchecked' /\ unguarded \subseteq unguarded' /\ late \subseteq late'
  /\ Created(user) \subseteq Created(user)'

(* it takes no right from anybody who has something that needs it;          *)
RightsKept ==
  \A u \in Created(user) \ Excused' : \A x \in Owned(u) : May(x[1], u) => May(x[1], u)'

(* it gives nothing to anybody who may not have it;                         *)
OwnedKept ==
  \A u \in Created(user)' \ Excused' : \A x \in Owned(u)' : x \in Owned(u) \/ May(x[1], u)'

(* it stops nobody who has brought others into a project;                   *)
InvitersKept ==
  \A w \in User : Signed(w) => Signed(w)' \/ w \in unchecked' \/ Vouches(w) = {}

(* it brings nobody into a project in the name of somebody who is stopped.  *)
SameInviter(p, v) ==
  p \in There(project) /\ Joined(p, v) /\ member'[p][v].by = member[p][v].by
PlacesKept ==
  \A p \in There(project)', v \in User :
    Joined(p, v)' =>
      \/ SameInviter(p, v)
      \/ member'[p][v].by \in unchecked' \cup {v} \/ <<p, v>> \in late'
      \/ Signed(member[p][v].by)'

(* The two action properties, of one step.                                  *)
Consents ==
  \A p \in Project, u \in User \ unchecked' :
    ~Joined(p, u) /\ Joined(p, u)' =>
      \/ AtHome(p, u)'
      \/ \E n \in note \ note' : n.to = u /\ n.project = p
      \/ user[member'[p][u].by].dvsn = "sa_dev"
ListsKept ==
  \A p \in Project, u \in User \ unchecked' :
    Joined(p, u) /\ Joined(p, u)' /\ member'[p][u].role = member[p][u].role =>
      role'[member[p][u].role].list = role[member[p][u].role].list

Lawful ==
  /\ TypeOK' /\ Growing /\ Registered'
  /\ RightsKept /\ OwnedKept
  /\ InvitersKept /\ PlacesKept
  /\ Consents /\ ListsKept

(* A request that has only made its checks, or is abandoned.                *)
Stays == UNCHANGED <<data, unchecked>> /\ requests' \in 0..MaxRequests

(* A request that has written, at once or later.                            *)
Wrote(touched) ==
  /\ References' /\ requests' \in 0..MaxRequests
  /\ unchecked \subseteq unchecked' /\ unchecked' \subseteq unchecked \cup touched

-----------------------------------------------------------------------------
(* What these parts are for.                                                *)

(* What there is belongs to somebody with an account.                       *)
LEMMA OwnersExist ==
  ASSUME TypeOK, References, Registered, NEW u \in User, NEW x \in Owned(u)
  PROVE  u \in Created(user)
<1>1. There(user) \subseteq Created(user) /\ NoUser \notin User /\ DOMAIN user = User
  BY OrgAssumption DEF TypeOK, There, Created
<1>2. CASE x \in {<<"project", p>> : p \in {p \in There(project) : project[p].owner = u}}
  BY <1>1, <1>2 DEF References
<1>3. CASE x \in {<<"role", r>> : r \in {r \in There(role) : role[r].owner = u}}
  BY <1>1, <1>3 DEF References
<1>4. CASE x \in {<<"dept", d>> : d \in {d \in There(dept) : dept[d].owner = u}}
  BY <1>1, <1>4 DEF References
<1>5. CASE x \in {<<KindOf[y], y>> : y \in {y \in There(asset) : asset[y].owner = u}}
  BY <1>5 DEF Registered
<1> QED BY <1>2, <1>3, <1>4, <1>5 DEF Owned

LEMMA LawfulStep == IInv /\ Lawful => IInv'
<1> SUFFICES ASSUME IInv, Lawful PROVE IInv'
  OBVIOUS
<1>1. TypeOK' /\ References' /\ Registered'
  BY DEF Lawful, Growing
<1>2. OwnersCanOwn'
  <2> SUFFICES ASSUME NEW u \in Created(user)' \ Excused', NEW x \in Owned(u)'
               PROVE  May(x[1], u)'
    BY DEF OwnersCanOwn, Excused, May
  <2> u \in User
    BY <1>1 DEF TypeOK, Created
  <2>1. CASE x \in Owned(u)
    <3>1. u \in Created(user)
      BY <2>1, OwnersExist DEF IInv
    <3>2. u \notin Excused
      BY DEF Lawful, Growing, Excused
    <3>3. May(x[1], u)
      BY <2>1, <3>1, <3>2 DEF IInv, OwnersCanOwn, Excused, May
    <3> QED BY <2>1, <3>1, <3>3 DEF Lawful, RightsKept
  <2> QED BY <2>1 DEF Lawful, OwnedKept
<1>3. InvitersStay'
  <2> SUFFICES ASSUME NEW p \in There(project)', NEW v \in User, Joined(p, v)',
                      member'[p][v].by \notin unchecked' \cup {v}, <<p, v>> \notin late'
               PROVE  Signed(member[p][v].by)'
    BY DEF InvitersStay
  <2>1. CASE SameInviter(p, v)
    <3> DEFINE w == member[p][v].by
    <3>1. /\ p \in There(project) /\ Joined(p, v)
          /\ w = member'[p][v].by /\ w \notin unchecked \cup {v} /\ <<p, v>> \notin late
      BY <2>1 DEF SameInviter, Lawful, Growing
    <3>2. Signed(w)
      BY <3>1 DEF IInv, InvitersStay
    <3>. w \in User
      BY <3>1 DEF IInv, References, There, Joined, TypeOK
    <3>3. Vouches(w) # {}
      BY <3>1 DEF Vouches
    <3>4. Signed(w)'
      BY <3>1, <3>2, <3>3 DEF Lawful, InvitersKept
    <3> QED BY <3>1, <3>4 DEF Signed
  <2> QED BY <2>1 DEF Lawful, PlacesKept
<1> QED BY <1>1, <1>2, <1>3 DEF IInv

LEMMA StaysStep == IInv /\ Stays => IInv' /\ Consents /\ ListsKept
<1> SUFFICES ASSUME IInv, Stays PROVE IInv' /\ Consents /\ ListsKept
  OBVIOUS
<1>1. UNCHANGED <<user, dept, role, project, member, note, code, asset, etlUp, late, unguarded, unchecked>>
  BY DEF Stays, data
<1>2. TypeOK'
  BY <1>1 DEF Stays, IInv, TypeOK
<1>3. References'
  BY <1>1 DEF IInv, References, There
<1>4. Registered'
  BY <1>1 DEF IInv, Registered, There, Created
<1>5. OwnersCanOwn'
  BY <1>1 DEF IInv, OwnersCanOwn, There, Created, Owned, Signed
<1>6. InvitersStay'
  BY <1>1 DEF IInv, InvitersStay, There, Joined, Signed
<1> QED BY <1>1, <1>2, <1>3, <1>4, <1>5, <1>6 DEF IInv, Consents, ListsKept, Joined

-----------------------------------------------------------------------------
(* What a step leaves alone.                                                *)

LEMMA SameUsers == user' = user => RightsKept /\ InvitersKept
BY DEF RightsKept, InvitersKept, May, Signed

LEMMA SameThings ==
  ASSUME UNCHANGED <<role, project, asset>>, There(dept)' = There(dept),
         \A d \in There(dept) : dept'[d].owner = dept[d].owner
  PROVE  OwnedKept
<1>1. \A u : Owned(u)' = Owned(u)
  BY DEF Owned, There
<1> QED BY <1>1 DEF OwnedKept, Created

LEMMA SamePlaces ==
  ASSUME member' = member, There(project)' \subseteq There(project)
  PROVE  PlacesKept /\ Consents
BY DEF PlacesKept, Consents, SameInviter, Joined

LEMMA SameLists == role' = role => ListsKept
BY DEF ListsKept

-----------------------------------------------------------------------------
(* The bound on the requests is a guard of whoever counts one.              *)
LEMMA Counts ==
  ASSUME IInv
  PROVE  /\ requests \in 0..MaxRequests
         /\ requests < MaxRequests => requests + 1 \in 0..MaxRequests
         /\ requests + 1 < MaxRequests => requests + 1 \in 0..MaxRequests
BY OrgAssumption DEF IInv, TypeOK

-----------------------------------------------------------------------------
(* Accounts.                                                                *)

(* An account whose data change, in what it is or may do.                   *)
LEMMA OneUserType ==
  ASSUME TypeOK, NEW u \in User, NEW rec \in Account, user' = [user EXCEPT ![u] = rec],
         user[u].at # "new" => rec.at # "new"
  PROVE  user' \in [User -> Account] /\ Created(user) \subseteq Created(user)'
BY DEF TypeOK, Created

LEMMA SuspendLawful ==
  ASSUME IInv, NEW a \in User, NEW u \in User, SuspendUser(a, u)
  PROVE  Stays \/ Lawful
<1> SUFFICES ASSUME ~Stays PROVE Lawful
  OBVIOUS
<1>1. /\ user' = [user EXCEPT ![u].active = FALSE]
      /\ unguarded' = unguarded \cup Unseen(u)
      /\ UNCHANGED <<dept, role, project, asset, etlUp, member, note, code, late>>
      /\ Wrote({u}) /\ (CanSuspend(a, u) \/ u \in unchecked')
  BY Counts DEF SuspendUser, Request, Stays, Wrote, work, joining
<1>2. user' \in [User -> Account] /\ Created(user) \subseteq Created(user)'
  <2> DEFINE rec == [user[u] EXCEPT !.active = FALSE]
  <2>1. rec \in Account /\ rec.at = user[u].at
    BY DEF IInv, TypeOK, Account
  <2>2. user' = [user EXCEPT ![u] = rec]
    BY <1>1
  <2> HIDE DEF rec
  <2> QED BY <2>1, <2>2, OneUserType DEF IInv
<1>3. TypeOK' /\ Growing /\ Registered'
  BY <1>1, <1>2 DEF IInv, TypeOK, Growing, Registered, Unseen, There, Wrote
<1>4. OwnedKept /\ PlacesKept /\ Consents /\ ListsKept
  BY <1>1, SameThings, SamePlaces, SameLists DEF There
<1>5. RightsKept
  <2> SUFFICES ASSUME NEW w \in Created(user) \ Excused', NEW x \in Owned(w), May(x[1], w)
               PROVE  May(x[1], w)'
    BY DEF RightsKept
  <2>1. w \in User
    BY DEF IInv, TypeOK, Created
  <2>2. w # u
    BY <1>1 DEF Excused, CanSuspend, HasNothing, Seen, Unseen
  <2> QED BY <1>1, <2>1, <2>2 DEF May, Signed
<1>6. InvitersKept
  <2> SUFFICES ASSUME NEW w \in User, Signed(w), ~Signed(w)', w \notin unchecked'
               PROVE  Vouches(w) = {}
    BY DEF InvitersKept
  <2>1. w = u
    BY <1>1 DEF Signed
  <2> QED BY <1>1, <2>1 DEF CanSuspend, HasNothing
<1> QED BY <1>3, <1>4, <1>5, <1>6 DEF Lawful

(* Only what u is and may do has changed.                                   *)
LEMMA OneUserKept ==
  ASSUME IInv, NEW u \in User, \A w \in User \ {u} : user'[w] = user[w],
         u \in Excused' \/ \A x \in Owned(u) : May(x[1], u) => May(x[1], u)',
         u \in unchecked' \/ Vouches(u) = {} \/ (Signed(u) => Signed(u)')
  PROVE  RightsKept /\ InvitersKept
<1>1. \A w \in User \ {u} : \A k : (May(k, w)' <=> May(k, w)) /\ (Signed(w)' <=> Signed(w))
  BY DEF May, Signed
<1>2. Created(user) \subseteq User
  BY DEF IInv, TypeOK, Created
<1> QED BY <1>1, <1>2 DEF RightsKept, InvitersKept

(* Rights depend on little.                                                 *)
LEMMA SameRights ==
  ASSUME NEW u \in User, user'[u].at = user[u].at, user'[u].dvsn = user[u].dvsn,
         user[u].etl => user'[u].etl, user[u].active => user'[u].active
  PROVE  (Signed(u) => Signed(u)') /\ \A k : May(k, u) => May(k, u)'
BY DEF May, Signed, CanOwn

LEMMA ActivateLawful ==
  ASSUME IInv, NEW a \in User, NEW u \in User, ActivateUser(a, u)
  PROVE  Stays \/ Lawful
<1> SUFFICES ASSUME ~Stays PROVE Lawful
  OBVIOUS
<1> DEFINE rec == [user[u] EXCEPT !.active = TRUE]
<1>1. /\ user' = [user EXCEPT ![u] = rec]
      /\ UNCHANGED <<dept, role, project, asset, etlUp, member, note, code, late, unguarded>>
      /\ Wrote({u})
  BY Counts DEF ActivateUser, Request, Stays, Wrote, work, joining
<1>2. rec \in Account /\ rec.at = user[u].at
  BY DEF IInv, TypeOK, Account
<1>3. user' \in [User -> Account] /\ Created(user) \subseteq Created(user)'
  <2> HIDE DEF rec
  <2> QED BY <1>1, <1>2, OneUserType DEF IInv
<1>4. TypeOK' /\ Growing /\ Registered'
  BY <1>1, <1>3 DEF IInv, TypeOK, Growing, Registered, There, Wrote
<1>5. OwnedKept /\ PlacesKept /\ Consents /\ ListsKept
  BY <1>1, SameThings, SamePlaces, SameLists DEF There
<1>6. RightsKept /\ InvitersKept
  <2>1. (Signed(u) => Signed(u)') /\ \A k : May(k, u) => May(k, u)'
    BY <1>1, SameRights DEF IInv, TypeOK, Account
  <2> QED BY <1>1, <2>1, OneUserKept DEF IInv, TypeOK
<1> QED BY <1>4, <1>5, <1>6 DEF Lawful

LEMMA DeleteUserLawful ==
  ASSUME IInv, NEW a \in User, NEW u \in User, DeleteInactiveUser(a, u)
  PROVE  Stays \/ Lawful
<1> SUFFICES ASSUME ~Stays PROVE Lawful
  OBVIOUS
<1> DEFINE rec == [user[u] EXCEPT !.at = "gone"]
<1>1. /\ user' = [user EXCEPT ![u] = rec]
      /\ note' = {n \in note : n.to # u}
      /\ member' = [p \in Project |-> [member[p] EXCEPT ![u] = NoPlace]]
      /\ code' = [v \in User |-> IF code[v].by = u THEN NoCode ELSE code[v]]
      /\ unguarded' = unguarded \cup Unseen(u)
      /\ UNCHANGED <<dept, role, project, asset, etlUp, late>>
      /\ Wrote({u}) /\ (CanDelete(a, u) \/ u \in unchecked')
  BY Counts DEF DeleteInactiveUser, Request, Stays, Wrote, work
<1>2. rec \in Account /\ rec.at # "new"
  BY DEF IInv, TypeOK, Account, Stage
<1>3. user' \in [User -> Account] /\ Created(user) \subseteq Created(user)'
  <2> HIDE DEF rec
  <2> QED BY <1>1, <1>2, OneUserType DEF IInv
<1>4. NoCode \in Code
  BY OrgAssumption DEF NoCode, Code, Dvsn
<1>5. TypeOK' /\ Growing /\ Registered'
  <2>1. member' \in [Project -> [User -> Place]]
    BY <1>1 DEF IInv, TypeOK, Place
  <2>2. code' \in [User -> Code]
    BY <1>1, <1>4 DEF IInv, TypeOK
  <2> QED BY <1>1, <1>3, <2>1, <2>2 DEF IInv, TypeOK, Growing, Registered, Unseen, There, Wrote
<1>6. OwnedKept /\ ListsKept
  BY <1>1, SameThings, SameLists DEF There
<1>7. PlacesKept /\ Consents
  <2>1. \A p \in Project, v \in User : Joined(p, v)' => Joined(p, v) /\ member'[p][v] = member[p][v]
    BY <1>1 DEF Joined, IInv, TypeOK
  <2> QED BY <1>1, <2>1 DEF PlacesKept, Consents, SameInviter, There, IInv, TypeOK
<1>8. RightsKept /\ InvitersKept
  <2>1. u \in Excused' \/ Owned(u) = {}
    BY <1>1 DEF Excused, CanDelete, HasNothing, Seen, Unseen
  <2>2. u \in unchecked' \/ Vouches(u) = {}
    BY <1>1 DEF CanDelete, HasNothing
  <2> QED BY <1>1, <2>1, <2>2, OneUserKept DEF IInv, TypeOK
<1> QED BY <1>5, <1>6, <1>7, <1>8 DEF Lawful

LEMMA SetDvsnLawful ==
  ASSUME IInv, NEW a \in User, NEW u \in User, NEW new \in Dvsn, SetUserDvsn(a, u, new)
  PROVE  Stays \/ Lawful
<1> SUFFICES ASSUME ~Stays PROVE Lawful
  OBVIOUS
<1> DEFINE rec == [user[u] EXCEPT !.dvsn = new]
<1>1. /\ user' = [user EXCEPT ![u] = rec] /\ unguarded' = unguarded \cup {u}
      /\ UNCHANGED <<dept, role, project, asset, etlUp, member, note, code, late>>
      /\ Wrote({u})
  BY Counts DEF SetUserDvsn, Request, Stays, Wrote, work, joining
<1>2. rec \in Account /\ rec.at = user[u].at /\ rec.active = user[u].active
  BY DEF IInv, TypeOK, Account
<1>3. user' \in [User -> Account] /\ Created(user) \subseteq Created(user)'
  <2> HIDE DEF rec
  <2> QED BY <1>1, <1>2, OneUserType DEF IInv
<1>4. TypeOK' /\ Growing /\ Registered'
  BY <1>1, <1>3 DEF IInv, TypeOK, Growing, Registered, There, Wrote
<1>5. OwnedKept /\ PlacesKept /\ Consents /\ ListsKept
  BY <1>1, SameThings, SamePlaces, SameLists DEF There
<1>6. RightsKept /\ InvitersKept
  <2>1. u \in Excused' /\ (Signed(u) => Signed(u)')
    BY <1>1, <1>2 DEF Excused, Signed, IInv, TypeOK
  <2> QED BY <1>1, <2>1, OneUserKept DEF IInv, TypeOK
<1> QED BY <1>4, <1>5, <1>6 DEF Lawful

LEMMA SetEtlLawful ==
  ASSUME IInv, NEW a \in User, NEW u \in User, NEW etl \in BOOLEAN, SetUserEtlFlag(a, u, etl)
  PROVE  Stays \/ Lawful
<1> SUFFICES ASSUME ~Stays PROVE Lawful
  OBVIOUS
<1> DEFINE rec == [user[u] EXCEPT !.etl = etl]
<1>1. /\ user' = [user EXCEPT ![u] = rec]
      /\ unguarded' = unguarded \cup (IF etl THEN {} ELSE Unseen(u))
      /\ UNCHANGED <<dept, role, project, asset, etlUp, member, note, code, late>>
      /\ Wrote({u}) /\ (CanSetEtl(a, u, etl) \/ u \in unchecked')
  BY Counts DEF SetUserEtlFlag, Request, Stays, Wrote, work, joining
<1>2. /\ rec \in Account /\ rec.at = user[u].at /\ rec.active = user[u].active
      /\ rec.dvsn = user[u].dvsn /\ rec.etl = etl
  BY DEF IInv, TypeOK, Account
<1>3. user' \in [User -> Account] /\ Created(user) \subseteq Created(user)'
  <2> HIDE DEF rec
  <2> QED BY <1>1, <1>2, OneUserType DEF IInv
<1>4. TypeOK' /\ Growing /\ Registered'
  BY <1>1, <1>3 DEF IInv, TypeOK, Growing, Registered, There, Wrote, Unseen
<1>5. OwnedKept /\ PlacesKept /\ Consents /\ ListsKept
  BY <1>1, SameThings, SamePlaces, SameLists DEF There
<1>6. user'[u] = rec
  BY <1>1 DEF IInv, TypeOK
<1>7. \A x \in Owned(u) : u \in Excused' \/ (May(x[1], u) => May(x[1], u)')
  <2> SUFFICES ASSUME NEW x \in Owned(u), u \notin Excused' PROVE May(x[1], u) => May(x[1], u)'
    OBVIOUS
  <2>1. CASE etl
    BY <1>2, <1>6, <2>1, SameRights
  <2>2. CASE ~etl
    <3>1. x[1] # "etl"
      BY <1>1, <2>2 DEF CanSetEtl, Excused, Seen, Unseen
    <3> QED BY <1>2, <1>6, <3>1 DEF May, Signed, CanOwn
  <2> QED BY <2>1, <2>2
<1>8. RightsKept /\ InvitersKept
  <2>1. Signed(u) => Signed(u)'
    BY <1>2, <1>6 DEF Signed
  <2> QED BY <1>1, <1>7, <2>1, OneUserKept DEF IInv, TypeOK
<1> QED BY <1>4, <1>5, <1>8 DEF Lawful

-----------------------------------------------------------------------------
(* PUT management.                                                          *)

LEMMA SentIn ==
  ASSUME NEW S, NEW field \in Optional(S), NEW old \in S
  PROVE  Sent(field, old) \in S
BY DEF Sent, Optional

Change == {Keep, Drop} \cup ({"add", "set"} \X Role)

LEMMA ChangedIs ==
  ASSUME NEW place \in Place, NEW change \in Change, NEW a \in User
  PROVE  /\ Changed(place, change, a) \in Place
         /\ \/ Changed(place, change, a) = NoPlace
            \/ Changed(place, change, a).by = place.by
            \/ place = NoPlace /\ change[1] = "add" /\ Changed(place, change, a).by = a
         /\ place = NoPlace /\ change[1] # "add" => Changed(place, change, a) = NoPlace
<1>1. CASE change = Keep
  <2>1. change # Drop /\ change[1] = "keep"
    BY <1>1 DEF Keep, Drop
  <2>2. Changed(place, change, a) = place
    BY <1>1, <2>1 DEF Changed
  <2> QED BY <2>1, <2>2
<1>2. CASE change = Drop
  <2>1. change # Keep /\ change[1] = "drop"
    BY <1>2 DEF Keep, Drop
  <2>2. Changed(place, change, a) = NoPlace
    BY <1>2, <2>1 DEF Changed
  <2> QED BY <2>2 DEF Place
<1>3. ASSUME NEW c \in {"add", "set"}, NEW r \in Role, change = <<c, r>>
      PROVE  /\ Changed(place, change, a) \in Place
             /\ \/ Changed(place, change, a) = NoPlace
                \/ Changed(place, change, a).by = place.by
                \/ place = NoPlace /\ change[1] = "add" /\ Changed(place, change, a).by = a
             /\ place = NoPlace /\ change[1] # "add" => Changed(place, change, a) = NoPlace
  <2>1. change[1] = c /\ change[2] = r /\ change # Keep /\ change # Drop
    BY <1>3 DEF Keep, Drop
  <2>2. CASE c = "add"
    <3>1. Changed(place, change, a) = IF place = NoPlace THEN Member(r, a) ELSE place
      BY <2>1, <2>2 DEF Changed
    <3>2. Member(r, a) \in Place /\ Member(r, a).by = a
      BY DEF Member, Place
    <3> QED BY <2>1, <2>2, <3>1, <3>2
  <2>3. CASE c = "set"
    <3>1. Changed(place, change, a) = IF place = NoPlace THEN place ELSE [place EXCEPT !.role = change[2]]
      BY <2>1, <2>3 DEF Changed
    <3>2. place # NoPlace => /\ [place EXCEPT !.role = r] \in [role : Role, by : User]
                             /\ [place EXCEPT !.role = r].by = place.by
      BY DEF Place
    <3> QED BY <2>1, <3>1, <3>2 DEF Place
  <2> QED BY <2>2, <2>3
<1> QED BY <1>1, <1>2, <1>3 DEF Change

(* What a user may keep by the checks, the user may keep by the writes.     *)
LEMMA EtlAfterKeeps ==
  ASSUME IInv, NEW u \in User, NEW dvsn \in Optional(Dvsn), NEW etl \in Optional(BOOLEAN)
  PROVE  /\ EtlAfter(u, dvsn, etl) \in BOOLEAN
         /\ Sent(etl, user[u].etl) /\ Sent(dvsn, user[u].dvsn) # "u" => EtlAfter(u, dvsn, etl)
         /\ dvsn = <<>> /\ etl = <<>> => EtlAfter(u, dvsn, etl) = user[u].etl
<1>1. user[u].etl \in BOOLEAN
  BY DEF IInv, TypeOK, Account
<1> DEFINE new == Sent(dvsn, user[u].dvsn)
<1>2. CASE etl = <<>>
  <2>1. EtlAfter(u, dvsn, etl) = (user[u].etl /\ ~(new = "u" /\ user[u].dvsn # "u"))
    BY <1>2 DEF EtlAfter, Sent
  <2>2. Sent(etl, user[u].etl) = user[u].etl /\ (dvsn = <<>> => new = user[u].dvsn)
    BY <1>2 DEF Sent
  <2> HIDE DEF new
  <2>3. EtlAfter(u, dvsn, etl) \in BOOLEAN
    BY <1>1, <2>1
  <2>4. user[u].etl /\ new # "u" => EtlAfter(u, dvsn, etl)
    BY <2>1
  <2>5. new = user[u].dvsn => EtlAfter(u, dvsn, etl) = user[u].etl
    BY <1>1, <2>1
  <2> QED BY <2>2, <2>3, <2>4, <2>5 DEF new
<1>3. CASE etl # <<>>
  <2>1. EtlAfter(u, dvsn, etl) = etl[1] /\ Sent(etl, user[u].etl) = etl[1]
    BY <1>3 DEF EtlAfter, Sent
  <2>2. etl[1] \in BOOLEAN
    BY <1>3 DEF Optional
  <2> QED BY <1>3, <2>1, <2>2
<1> QED BY <1>2, <1>3

LEMMA ManagementLawful ==
  ASSUME IInv, NEW a \in User, NEW u \in User, NEW d \in Optional(Dept),
         NEW dvsn \in Optional(Dvsn), NEW etl \in Optional(BOOLEAN),
         NEW change \in [Project -> Change], Management(a, u, d, dvsn, etl, change)
  PROVE  Stays \/ Lawful
<1> SUFFICES ASSUME ~Stays PROVE Lawful
  OBVIOUS
<1> DEFINE new == Sent(dvsn, user[u].dvsn)
           rec == [user[u] EXCEPT !.dept = Sent(d, user[u].dept), !.dvsn = new,
                                  !.etl = EtlAfter(u, dvsn, etl)]
           checks == CanManage(a, u, d, dvsn, etl) /\ MayChangePlaces(a, u, change)
<1>1. /\ user' = [user EXCEPT ![u] = rec]
      /\ member' = [p \in Project |-> [member[p] EXCEPT ![u] = Changed(@, change[p], a)]]
      /\ unguarded' = unguarded \cup Unseen(u)
      /\ UNCHANGED <<dept, role, project, asset, etlUp, note, code, late>>
      /\ Wrote({a, u}) /\ (checks \/ (a \in unchecked' /\ u \in unchecked'))
  <2>1. /\ user' = [user EXCEPT ![u].dept = Sent(d, @), ![u].dvsn = Sent(dvsn, @),
                              ![u].etl = EtlAfter(u, dvsn, etl)]
        /\ member' = [p \in Project |-> [member[p] EXCEPT ![u] = Changed(@, change[p], a)]]
        /\ unguarded' = unguarded \cup Unseen(u)
        /\ UNCHANGED <<dept, work, note, code, late>>
        /\ Wrote({a, u}) /\ (checks \/ {a, u} \subseteq unchecked')
    <3> HIDE DEF rec, new
    <3> QED BY Counts, Zenon DEF Management, Request, Stays, Wrote
  <2>2. user' = [user EXCEPT ![u] = rec]
    BY <2>1
  <2> HIDE DEF rec, new, checks
  <2> QED BY <2>1, <2>2 DEF work
<1>2. user[u] \in Account /\ Sent(d, user[u].dept) \in Dept /\ new \in Dvsn /\ EtlAfter(u, dvsn, etl) \in BOOLEAN
  BY SentIn, EtlAfterKeeps DEF IInv, TypeOK, Account
<1>3. /\ rec \in Account /\ rec.at = user[u].at /\ rec.active = user[u].active
      /\ rec.dept = Sent(d, user[u].dept) /\ rec.dvsn = new /\ rec.etl = EtlAfter(u, dvsn, etl)
  BY <1>2 DEF Account
<1>4. user'[u] = rec /\ \A w \in User \ {u} : user'[w] = user[w]
  BY <1>1 DEF IInv, TypeOK
<1>5. user' \in [User -> Account] /\ Created(user) \subseteq Created(user)'
  <2> HIDE DEF rec
  <2> QED BY <1>1, <1>3, OneUserType DEF IInv
<1> HIDE DEF rec, new, checks
<1>6. /\ member' \in [Project -> [User -> Place]]
      /\ \A p \in Project : /\ member'[p][u] = Changed(member[p][u], change[p], a)
                            /\ \A v \in User \ {u} : member'[p][v] = member[p][v]
  BY <1>1, ChangedIs DEF IInv, TypeOK
<1>7. TypeOK' /\ Growing /\ Registered'
  BY <1>1, <1>5, <1>6 DEF IInv, TypeOK, Growing, Registered, There, Wrote, Unseen
<1>8. OwnedKept /\ ListsKept
  BY <1>1, SameThings, SameLists DEF There
<1>9. Signed(a)' = Signed(a) /\ Signed(u)' = Signed(u)
  BY <1>3, <1>4 DEF Signed
<1>10. PlacesKept
  <2> SUFFICES ASSUME NEW p \in There(project)', NEW v \in User, Joined(p, v)', ~SameInviter(p, v),
                      member'[p][v].by \notin unchecked'
               PROVE  Signed(member[p][v].by)'
    BY DEF PlacesKept
  <2>1. p \in Project /\ p \in There(project) /\ member[p][v] \in Place /\ change[p] \in Change
    BY <1>1 DEF There, IInv, TypeOK
  <2>2. v = u
    BY <1>6, <2>1 DEF Joined, SameInviter
  <2>3. member'[p][u].by = a
    <3>1. member'[p][u] = Changed(member[p][u], change[p], a) /\ member'[p][u] # NoPlace
      BY <1>6, <2>1, <2>2 DEF Joined
    <3>2. member'[p][u].by = member[p][u].by => member[p][u] = NoPlace
      BY <2>1, <2>2 DEF SameInviter, Joined
    <3>3. member[p][u] = NoPlace /\ change[p][1] # "add" => member'[p][u] = NoPlace
      BY <2>1, <2>2, <3>1, ChangedIs
    <3>4. member'[p][u].by = member[p][u].by \/ member'[p][u].by = a
      BY <2>1, <2>2, <3>1, ChangedIs
    <3>5. member[p][u] = NoPlace /\ change[p][1] = "add" => member'[p][u].by = a
      <4> SUFFICES ASSUME member[p][u] = NoPlace, change[p][1] = "add" PROVE member'[p][u].by = a
        OBVIOUS
      <4>1. change[p] # Keep /\ change[p] # Drop
        BY DEF Keep, Drop
      <4> QED BY <3>1, <4>1 DEF Changed, Member
    <3> QED BY <3>2, <3>3, <3>4, <3>5, <3>1
  <2>4. Signed(a)
    BY <1>1, <2>2, <2>3 DEF checks, CanManage, Is
  <2> QED BY <1>9, <2>2, <2>3, <2>4 DEF Signed
<1>11. Consents
  <2> SUFFICES ASSUME NEW p \in Project, NEW v \in User \ unchecked', ~Joined(p, v), Joined(p, v)'
               PROVE  AtHome(p, v)' \/ user[member'[p][v].by].dvsn = "sa_dev"
    BY DEF Consents
  <2>1. v = u /\ checks
    BY <1>1, <1>6 DEF Joined
  <2>2. member[p][u] = NoPlace /\ member[p][u] \in Place /\ change[p] \in Change
    BY <2>1 DEF Joined, IInv, TypeOK
  <2>3. change[p][1] = "add"
    BY <1>6, <2>1, <2>2, ChangedIs DEF Joined
  <2>4. member'[p][u].by = a
    <3>1. change[p] # Keep /\ change[p] # Drop
      BY <2>3 DEF Keep, Drop
    <3>2. Changed(member[p][u], change[p], a) = Member(change[p][2], a)
      BY <2>2, <2>3, <3>1 DEF Changed
    <3> QED BY <1>6, <3>2 DEF Member
  <2>5. user[a].dvsn = "sa_dev" \/ project[p].dept = user[a].dept
    BY <2>1, <2>3 DEF checks, MayChangePlaces
  <2>6. CASE user[a].dvsn # "sa_dev"
    <3>1. user[u].dept \in Tree(user[a].dept) /\ (d # <<>> => d[1] \in Tree(user[a].dept))
      BY <2>1, <2>6 DEF checks, CanManage, Reaches, Manages
    <3>2. user'[u].dept \in Tree(project[p].dept)
      BY <1>3, <1>4, <2>5, <2>6, <3>1 DEF Sent
    <3>3. Tree(project[p].dept)' = Tree(project[p].dept)
      BY <1>1 DEF Tree, Closed, There
    <3> QED BY <2>1, <3>2, <3>3 DEF AtHome
  <2> QED BY <2>1, <2>4, <2>6
<1>12. u \in Excused' \/ \A x \in Owned(u) : May(x[1], u) => May(x[1], u)'
  <2> SUFFICES ASSUME u \notin Excused', NEW x \in Owned(u), May(x[1], u) PROVE May(x[1], u)'
    OBVIOUS
  <2>1. checks /\ etlUp
    BY <1>1 DEF Excused, Unseen
  <2>2. CASE dvsn = <<>> /\ etl = <<>>
    BY <1>3, <1>4, <2>2, EtlAfterKeeps DEF May, Signed, CanOwn, Sent, new
  <2>3. CASE ~(dvsn = <<>> /\ etl = <<>>)
    <3>1. CanOwn(x[1], new, Sent(etl, user[u].etl) /\ new # "u")
      BY <2>1, <2>3 DEF checks, CanManage, MayKeep, Seen, new
    <3>2. CanOwn(x[1], new, EtlAfter(u, dvsn, etl))
      BY <1>2, <3>1, EtlAfterKeeps DEF CanOwn, new
    <3> QED BY <1>3, <1>4, <1>9, <3>2 DEF May, Signed
  <2> QED BY <2>2, <2>3
<1>13. RightsKept /\ InvitersKept
  BY <1>4, <1>9, <1>12, OneUserKept
<1> QED BY <1>7, <1>8, <1>10, <1>11, <1>13 DEF Lawful

-----------------------------------------------------------------------------
(* Invitations by mail and departments.                                     *)

LEMMA TreeRoot == \A d \in There(dept) : d \in Tree(d)
BY DEF Tree

LEMMA SameTree == dept' = dept => \A d : Tree(d)' = Tree(d)
BY DEF Tree, Closed, There

LEMMA InviteLawful ==
  ASSUME IInv, NEW a \in User, NEW v \in User, NEW d \in Dept, NEW dvsn \in Dvsn, NEW etl \in BOOLEAN,
         NEW p \in Project \cup {NoProject}, NEW r \in Role \cup {NoRole},
         InviteUserByEmail(a, v, d, dvsn, etl, p, r)
  PROVE  Stays \/ Lawful
<1> SUFFICES ASSUME ~Stays PROVE Lawful
  OBVIOUS
<1> DEFINE new == [at |-> "open", by |-> a, dept |-> d, dvsn |-> dvsn, etl |-> etl,
                   project |-> p, role |-> r]
<1>1. /\ code' = [code EXCEPT ![v] = new]
      /\ UNCHANGED <<user, dept, unguarded, role, project, asset, etlUp, member, note, late>>
      /\ Wrote({a, v})
  BY Counts DEF InviteUserByEmail, Request, Stays, Wrote, work, people
<1>2. code' \in [User -> Code]
  BY <1>1 DEF IInv, TypeOK, Code
<1>3. TypeOK' /\ Growing /\ Registered'
  BY <1>1, <1>2 DEF IInv, TypeOK, Growing, Registered, There, Created, Wrote
<1>4. RightsKept /\ InvitersKept /\ OwnedKept /\ PlacesKept /\ Consents /\ ListsKept
  BY <1>1, SameUsers, SameThings, SamePlaces, SameLists DEF There
<1> QED BY <1>3, <1>4 DEF Lawful

LEMMA SignUpLawful ==
  ASSUME IInv, NEW v \in User, SignUp(v)
  PROVE  Stays \/ Lawful
<1> SUFFICES ASSUME ~Stays PROVE Lawful
  OBVIOUS
<1> DEFINE c == code[v]
           rec == [at |-> "there", dvsn |-> c.dvsn, dept |-> c.dept, active |-> TRUE, etl |-> c.etl]
           place == [role |-> c.role, by |-> c.by]
<1>1. /\ user[v].at = "new" /\ c.at = "open"
      /\ user' = [user EXCEPT ![v] = rec] /\ code' = [code EXCEPT ![v].at = "used"]
      /\ \/ c.project = NoProject /\ member' = member /\ late' = late
         \/ /\ c.project # NoProject
            /\ member' = [member EXCEPT ![c.project][v] = place]
            /\ late' = late \cup (IF Signed(c.by) THEN {} ELSE {<<c.project, v>>})
      /\ UNCHANGED <<dept, unguarded, role, project, asset, etlUp, note>>
      /\ Wrote({v, c.by}) /\ (CanSignUp(v) \/ (v \in unchecked' /\ c.by \in unchecked'))
  BY Counts DEF SignUp, Request, Stays, Wrote, work
<1>2. c \in Code /\ c.dept \in Dept /\ c.dvsn \in Dvsn /\ c.etl \in BOOLEAN
      /\ c.project \in Project \cup {NoProject} /\ c.by \in User
  <2>1. c \in Code
    BY DEF IInv, TypeOK
  <2>2. c.by \in There(user)
    BY <1>1 DEF IInv, References
  <2> QED BY <2>1, <2>2 DEF Code, There, IInv, TypeOK
<1>3. rec \in Account /\ rec.at = "there"
  BY <1>2 DEF Account, Stage
<1>4. user'[v] = rec /\ (\A w \in User \ {v} : user'[w] = user[w]) /\ DOMAIN user = User
  BY <1>1 DEF IInv, TypeOK
<1>5. user' \in [User -> Account] /\ Created(user) \subseteq Created(user)'
  <2> HIDE DEF rec
  <2> QED BY <1>1, <1>3, OneUserType DEF IInv
<1> HIDE DEF c, rec
<1>6. /\ member' \in [Project -> [User -> Place]] /\ late' \subseteq Project \X User /\ late \subseteq late'
      /\ \A p \in Project, w \in User : member'[p][w] = member[p][w] \/ (p = c.project /\ w = v)
  <2>1. CASE c.project = NoProject
    BY <1>1, <2>1 DEF IInv, TypeOK
  <2>2. CASE c.project # NoProject
    <3>1. c.project \in Project
      BY <1>2, <2>2
    <3>2. member'[c.project][v] = place
      BY <1>1, <2>2, <3>1 DEF IInv, TypeOK
    <3>3. There(role)' \subseteq Role /\ There(user)' \subseteq User
      BY <1>1, <1>5 DEF There, IInv, TypeOK
    <3>4. place \in Place
      BY <1>1, <3>1, <3>2, <3>3 DEF Wrote, References, Place
    <3>5. late' = late \cup (IF Signed(c.by) THEN {} ELSE {<<c.project, v>>})
      BY <1>1, <2>2
    <3>6. late' \subseteq Project \X User /\ late \subseteq late'
      BY <3>1, <3>5 DEF IInv, TypeOK
    <3>7. member' = [member EXCEPT ![c.project][v] = place]
      BY <1>1, <2>2
    <3> HIDE DEF place
    <3> QED BY <3>1, <3>4, <3>6, <3>7 DEF IInv, TypeOK
  <2> QED BY <2>1, <2>2
<1>7. TypeOK' /\ Growing /\ Registered'
  <2>1. code' \in [User -> Code]
    BY <1>1, <1>2 DEF IInv, TypeOK, Code, c
  <2> QED BY <1>1, <1>2, <1>5, <1>6, <2>1 DEF IInv, TypeOK, Growing, Registered, There, Wrote
<1>8. OwnedKept /\ ListsKept
  BY <1>1, SameThings, SameLists DEF There
<1>9. RightsKept /\ InvitersKept
  <2>1. Owned(v) = {} /\ ~Signed(v)
    BY <1>1, OwnersExist DEF IInv, Created, Signed
  <2> QED BY <1>4, <2>1, OneUserKept
<1>10. PlacesKept
  <2> SUFFICES ASSUME NEW p \in There(project)', NEW w \in User, Joined(p, w)', ~SameInviter(p, w),
                      member'[p][w].by # w, <<p, w>> \notin late'
               PROVE  Signed(member[p][w].by)'
    BY DEF PlacesKept
  <2>1. p \in Project /\ p \in There(project)
    BY <1>1 DEF There, IInv, TypeOK
  <2>2. p = c.project /\ w = v /\ c.project # NoProject
    BY <1>1, <1>6, <2>1 DEF SameInviter, Joined
  <2>3. member'[p][w].by = c.by
    BY <1>1, <2>1, <2>2 DEF IInv, TypeOK
  <2>4. Signed(c.by) /\ c.by # v
    BY <1>1, <2>2, <2>3
  <2> QED BY <1>2, <1>4, <2>3, <2>4 DEF Signed
<1>11. Consents
  <2> SUFFICES ASSUME NEW p \in Project, NEW w \in User \ unchecked', ~Joined(p, w), Joined(p, w)'
               PROVE  AtHome(p, w)'
    BY DEF Consents
  <2>1. p = c.project /\ w = v /\ c.project # NoProject /\ CanSignUp(v)
    BY <1>1, <1>6 DEF Joined
  <2>2. project[p].at = "there" /\ project[p].dept = c.dept
    BY <2>1 DEF CanSignUp, Assignable, c
  <2>3. user'[v].dept = c.dept
    BY <1>4 DEF rec
  <2>4. c.dept \in There(dept)
    BY <1>1, <2>2 DEF IInv, References, There, TypeOK
  <2>5. c.dept \in Tree(project[p].dept)
    BY <2>2, <2>4, TreeRoot
  <2>6. Tree(project[p].dept)' = Tree(project[p].dept)
    BY <1>1 DEF Tree, Closed, There
  <2> QED BY <2>1, <2>3, <2>5, <2>6 DEF AtHome
<1> QED BY <1>7, <1>8, <1>9, <1>10, <1>11 DEF Lawful

(* Things may go, or one more thing be a's.                                 *)
LEMMA OneGiven ==
  ASSUME NEW a, NEW k, NEW y, a \in Excused' \/ May(k, a)',
         \A p \in There(project)' : \/ p \in There(project) /\ project'[p].owner = project[p].owner
                                    \/ k = "project" /\ y = p /\ project'[p].owner = a,
         \A r \in There(role)' : \/ r \in There(role) /\ role'[r].owner = role[r].owner
                                 \/ k = "role" /\ y = r /\ role'[r].owner = a,
         \A d \in There(dept)' : \/ d \in There(dept) /\ dept'[d].owner = dept[d].owner
                                 \/ k = "dept" /\ y = d /\ dept'[d].owner = a,
         \A x \in There(asset)' : \/ x \in There(asset) /\ asset'[x].owner = asset[x].owner
                                  \/ k = KindOf[x] /\ y = x /\ asset'[x].owner = a
  PROVE  OwnedKept
<1> SUFFICES ASSUME NEW u \in Created(user)' \ Excused', NEW x \in Owned(u)'
             PROVE  x \in Owned(u) \/ (u = a /\ x[1] = k)
  BY DEF OwnedKept
<1>1. ASSUME NEW p \in There(project)', project'[p].owner = u, x = <<"project", p>>
      PROVE  x \in Owned(u) \/ (u = a /\ x[1] = k)
  BY <1>1 DEF Owned
<1>2. ASSUME NEW r \in There(role)', role'[r].owner = u, x = <<"role", r>>
      PROVE  x \in Owned(u) \/ (u = a /\ x[1] = k)
  BY <1>2 DEF Owned
<1>3. ASSUME NEW d \in There(dept)', dept'[d].owner = u, x = <<"dept", d>>
      PROVE  x \in Owned(u) \/ (u = a /\ x[1] = k)
  BY <1>3 DEF Owned
<1>4. ASSUME NEW z \in There(asset)', asset'[z].owner = u, x = <<KindOf[z], z>>
      PROVE  x \in Owned(u) \/ (u = a /\ x[1] = k)
  BY <1>4 DEF Owned
<1> QED BY <1>1, <1>2, <1>3, <1>4 DEF Owned

LEMMA NoneGiven ==
  ASSUME \A p \in There(project)' : p \in There(project) /\ project'[p].owner = project[p].owner,
         \A r \in There(role)' : r \in There(role) /\ role'[r].owner = role[r].owner,
         \A d \in There(dept)' : d \in There(dept) /\ dept'[d].owner = dept[d].owner,
         \A x \in There(asset)' : x \in There(asset) /\ asset'[x].owner = asset[x].owner
  PROVE  OwnedKept
<1> SUFFICES ASSUME NEW u \in Created(user)' \ Excused', NEW x \in Owned(u)' PROVE x \in Owned(u)
  BY DEF OwnedKept
<1> QED BY DEF Owned

LEMMA CreateDepartmentLawful ==
  ASSUME IInv, NEW a \in User, NEW d \in Dept, NEW parent \in Dept \cup {NoDept},
         CreateDepartment(a, d, parent)
  PROVE  Stays \/ Lawful
<1> SUFFICES ASSUME ~Stays PROVE Lawful
  OBVIOUS
<1>1. /\ dept' = [dept EXCEPT ![d] = [at |-> "there", use |-> TRUE, parent |-> parent, owner |-> a]]
      /\ UNCHANGED <<user, unguarded, role, project, asset, etlUp, member, note, code, late>>
      /\ Wrote({a}) /\ (CanCreateDepartment(a, d, parent) \/ a \in unchecked')
  BY Counts DEF CreateDepartment, Request, Stays, Wrote, work, joining
<1>2. TypeOK' /\ Growing /\ Registered'
  BY <1>1 DEF IInv, TypeOK, Growing, Registered, There, Created, Wrote, Department, Stage
<1>3. RightsKept /\ InvitersKept /\ PlacesKept /\ Consents /\ ListsKept
  BY <1>1, SameUsers, SamePlaces, SameLists DEF There
<1>4. OwnedKept
  <2>1. a \in Excused' \/ May("dept", a)'
    BY <1>1 DEF Excused, May, CanOwn, CanCreateDepartment, Is, Signed
  <2>2. \A c \in There(dept)' : \/ c \in There(dept) /\ dept'[c].owner = dept[c].owner
                                \/ d = c /\ dept'[c].owner = a
    BY <1>1 DEF There, IInv, TypeOK
  <2> QED BY <1>1, <2>1, <2>2, OneGiven DEF There
<1> QED BY <1>2, <1>3, <1>4 DEF Lawful

LEMMA UpdateDepartmentLawful ==
  ASSUME IInv, NEW a \in User, NEW d \in Dept, NEW use \in BOOLEAN, NEW to \in Dept \cup {NoDept},
         UpdateDepartment(a, d, use, to)
  PROVE  Stays \/ Lawful
<1> SUFFICES ASSUME ~Stays PROVE Lawful
  OBVIOUS
<1>1. /\ dept' = [dept EXCEPT ![d].use = use]
      /\ user' = [u \in User |-> IF to # NoDept /\ user[u].at = "there" /\ user[u].dept = d
                                 THEN [user[u] EXCEPT !.dept = to] ELSE user[u]]
      /\ UNCHANGED <<unguarded, role, project, asset, etlUp, member, note, code, late>>
      /\ Wrote({a})
  BY Counts DEF UpdateDepartment, Request, Stays, Wrote, work
<1>2. \A u \in User : /\ user'[u] \in Account /\ user'[u].at = user[u].at
                      /\ user'[u].active = user[u].active /\ user'[u].dvsn = user[u].dvsn
                      /\ user'[u].etl = user[u].etl
  <2>1. \A u \in User : user[u] \in Account
    BY DEF IInv, TypeOK
  <2>2. to # NoDept => to \in Dept
    OBVIOUS
  <2> DEFINE moved(rec) == [rec EXCEPT !.dept = to]
  <2>3. \A rec \in Account : to # NoDept =>
          /\ moved(rec) \in Account /\ moved(rec).at = rec.at /\ moved(rec).active = rec.active
          /\ moved(rec).dvsn = rec.dvsn /\ moved(rec).etl = rec.etl
    BY <2>2 DEF Account
  <2>4. user' = [u \in User |-> IF to # NoDept /\ user[u].at = "there" /\ user[u].dept = d
                                THEN moved(user[u]) ELSE user[u]]
    BY <1>1
  <2> HIDE DEF moved
  <2>5. \A u \in User : user'[u] = user[u] \/ (to # NoDept /\ user'[u] = moved(user[u]))
    BY <2>4
  <2> QED BY <2>1, <2>3, <2>5
<1>3. user' \in [User -> Account] /\ dept' \in [Dept -> Department]
  <2>1. dept[d] \in Department
    BY DEF IInv, TypeOK
  <2>2. [dept[d] EXCEPT !.use = use] \in Department
    BY <2>1 DEF Department
  <2>3. dept' \in [Dept -> Department]
    BY <1>1, <2>2 DEF IInv, TypeOK
  <2>4. user' \in [User -> Account]
    BY <1>1, <1>2
  <2> QED BY <2>3, <2>4
<1>4. Created(user)' = Created(user)
  BY <1>2, <1>3 DEF Created, IInv, TypeOK
<1>5. TypeOK' /\ Growing /\ Registered'
  BY <1>1, <1>3, <1>4 DEF IInv, TypeOK, Growing, Registered, There, Wrote
<1>6. There(dept)' = There(dept) /\ \A c \in There(dept) : dept'[c].owner = dept[c].owner
  BY <1>1 DEF There, IInv, TypeOK, Department
<1>7. OwnedKept /\ PlacesKept /\ Consents /\ ListsKept
  BY <1>1, <1>6, SameThings, SamePlaces, SameLists DEF There
<1>8. \A u \in User : (Signed(u)' <=> Signed(u)) /\ \A k : May(k, u) => May(k, u)'
  BY <1>2 DEF Signed, May
<1>9. RightsKept /\ InvitersKept
  BY <1>4, <1>8 DEF RightsKept, InvitersKept, Created, IInv, TypeOK
<1> QED BY <1>5, <1>7, <1>9 DEF Lawful

LEMMA DeleteDepartmentLawful ==
  ASSUME IInv, NEW a \in User, NEW d \in Dept, DeleteDepartment(a, d)
  PROVE  Stays \/ Lawful
<1> SUFFICES ASSUME ~Stays PROVE Lawful
  OBVIOUS
<1>1. /\ dept' = [dept EXCEPT ![d].at = "gone"]
      /\ UNCHANGED <<user, unguarded, role, project, asset, etlUp, member, note, code, late>>
      /\ Wrote(User)
  BY Counts DEF DeleteDepartment, Request, Stays, Wrote, work, joining
<1>2. dept' \in [Dept -> Department]
  <2>1. dept[d] \in Department
    BY DEF IInv, TypeOK
  <2>2. [dept[d] EXCEPT !.at = "gone"] \in Department
    BY <2>1 DEF Department, Stage
  <2> QED BY <1>1, <2>2 DEF IInv, TypeOK
<1>3. TypeOK' /\ Growing /\ Registered'
  BY <1>1, <1>2 DEF IInv, TypeOK, Growing, Registered, There, Created, Wrote
<1>4. RightsKept /\ InvitersKept /\ PlacesKept /\ Consents /\ ListsKept
  BY <1>1, SameUsers, SamePlaces, SameLists DEF There
<1>5. OwnedKept
  <2>1. \A c \in There(dept)' : c \in There(dept) /\ dept'[c].owner = dept[c].owner
    BY <1>1 DEF There, IInv, TypeOK
  <2> QED BY <1>1, <2>1, NoneGiven DEF There
<1> QED BY <1>3, <1>4, <1>5 DEF Lawful

-----------------------------------------------------------------------------
(* Permission templates.                                                    *)

LEMMA CreateRoleLawful ==
  ASSUME IInv, NEW a \in User, NEW r \in Role, NEW d \in Dept, NEW l \in List,
         CreateCustomRole(a, r, d, l)
  PROVE  Stays \/ Lawful
<1> SUFFICES ASSUME ~Stays PROVE Lawful
  OBVIOUS
<1>1. /\ role[r].at = "new"
      /\ role' = [role EXCEPT ![r] = [at |-> "there", dept |-> d, owner |-> a, list |-> l]]
      /\ UNCHANGED <<user, dept, unguarded, project, asset, etlUp, member, note, code, late>>
      /\ Wrote({a}) /\ (CanCreateCustomRole(a, r, d) \/ a \in unchecked')
  BY Counts DEF CreateCustomRole, Request, Stays, Wrote, people, joining, Unchanged
<1>2. TypeOK' /\ Growing /\ Registered'
  BY <1>1 DEF IInv, TypeOK, Growing, Registered, There, Created, Wrote, Template, Stage
<1>3. RightsKept /\ InvitersKept /\ PlacesKept /\ Consents
  BY <1>1, SameUsers, SamePlaces DEF There
<1>4. OwnedKept
  <2>1. a \in Excused' \/ May("role", a)'
    BY <1>1 DEF Excused, May, CanOwn, CanCreateCustomRole, Is, Signed
  <2>2. \A q \in There(role)' : \/ q \in There(role) /\ role'[q].owner = role[q].owner
                                \/ r = q /\ role'[q].owner = a
    BY <1>1 DEF There, IInv, TypeOK
  <2> QED BY <1>1, <2>1, <2>2, OneGiven DEF There
<1>5. ListsKept
  <2>1. \A p \in Project, u \in User : Joined(p, u) => member[p][u].role # r
    BY <1>1 DEF Joined, IInv, References, There
  <2>2. \A q \in Role \ {r} : role'[q] = role[q]
    BY <1>1 DEF IInv, TypeOK
  <2>3. \A p \in Project, u \in User : Joined(p, u) => member[p][u].role \in Role
    BY DEF Joined, IInv, TypeOK, Place
  <2> QED BY <2>1, <2>2, <2>3 DEF ListsKept
<1> QED BY <1>2, <1>3, <1>4, <1>5 DEF Lawful

LEMMA UpdateRoleLawful ==
  ASSUME IInv, NEW a \in User, NEW r \in Role, NEW l \in List, UpdateCustomRole(a, r, l)
  PROVE  Stays \/ Lawful
<1> SUFFICES ASSUME ~Stays PROVE Lawful
  OBVIOUS
<1>1. /\ role' = [role EXCEPT ![r].list = l]
      /\ UNCHANGED <<user, dept, unguarded, project, asset, etlUp, member, note, code, late>>
      /\ Wrote(HasRole(r)) /\ (CanUpdateCustomRole(a, r, l) \/ HasRole(r) \subseteq unchecked')
  BY Counts DEF UpdateCustomRole, Request, Stays, Wrote, people, joining, Unchanged
<1>2. role' \in [Role -> Template]
  BY <1>1 DEF IInv, TypeOK, Template
<1>3. TypeOK' /\ Growing /\ Registered'
  BY <1>1, <1>2 DEF IInv, TypeOK, Growing, Registered, There, Created, Wrote, HasRole
<1>4. RightsKept /\ InvitersKept /\ PlacesKept /\ Consents
  BY <1>1, SameUsers, SamePlaces DEF There
<1>5. OwnedKept
  <2>1. \A q \in There(role)' : q \in There(role) /\ role'[q].owner = role[q].owner
    BY <1>1 DEF There, IInv, TypeOK
  <2> QED BY <1>1, <2>1, NoneGiven DEF There
<1>6. ListsKept
  <2>1. l # role[r].list => \A p \in Project, u \in User \ unchecked' : member[p][u].role # r
    BY <1>1 DEF CanUpdateCustomRole, HasRole
  <2>2. (l = role[r].list => role'[r].list = role[r].list) /\ \A q \in Role \ {r} : role'[q] = role[q]
    BY <1>1 DEF IInv, TypeOK
  <2>3. \A p \in Project, u \in User : Joined(p, u) => member[p][u].role \in Role
    BY DEF Joined, IInv, TypeOK, Place
  <2> QED BY <2>1, <2>2, <2>3 DEF ListsKept
<1> QED BY <1>3, <1>4, <1>5, <1>6 DEF Lawful

LEMMA DeleteRoleLawful ==
  ASSUME IInv, NEW a \in User, NEW r \in Role, DeleteCustomRole(a, r)
  PROVE  Stays \/ Lawful
<1> SUFFICES ASSUME ~Stays PROVE Lawful
  OBVIOUS
<1>1. /\ role' = [role EXCEPT ![r].at = "gone"]
      /\ UNCHANGED <<user, dept, unguarded, project, asset, etlUp, member, note, code, late>>
      /\ Wrote(HasRole(r))
  BY Counts DEF DeleteCustomRole, Request, Stays, Wrote, people, joining, Unchanged
<1>2. role' \in [Role -> Template]
  <2>1. role[r] \in Template
    BY DEF IInv, TypeOK
  <2>2. [role[r] EXCEPT !.at = "gone"] \in Template
    BY <2>1 DEF Template, Stage
  <2> QED BY <1>1, <2>2 DEF IInv, TypeOK
<1>3. TypeOK' /\ Growing /\ Registered'
  BY <1>1, <1>2 DEF IInv, TypeOK, Growing, Registered, There, Created, Wrote, HasRole
<1>4. RightsKept /\ InvitersKept /\ PlacesKept /\ Consents
  BY <1>1, SameUsers, SamePlaces DEF There
<1>5. OwnedKept
  <2>1. \A q \in There(role)' : q \in There(role) /\ role'[q].owner = role[q].owner
    BY <1>1 DEF There, IInv, TypeOK
  <2> QED BY <1>1, <2>1, NoneGiven DEF There
<1>6. ListsKept
  <2>1. \A q \in Role : role'[q].list = role[q].list
    BY <1>1 DEF IInv, TypeOK
  <2>2. \A p \in Project, u \in User : Joined(p, u) => member[p][u].role \in Role
    BY DEF Joined, IInv, TypeOK, Place
  <2> QED BY <2>1, <2>2 DEF ListsKept
<1> QED BY <1>3, <1>4, <1>5, <1>6 DEF Lawful

-----------------------------------------------------------------------------
(* Projects and participants.                                               *)

(* Somebody with an account joins, or is invited.                           *)
LEMMA MemberIs ==
  ASSUME NEW r \in Role, NEW a \in User
  PROVE  Member(r, a) \in Place /\ Member(r, a) # NoPlace /\ Member(r, a).by = a /\ Member(r, a).role = r
BY OrgAssumption DEF Member, Place, NoPlace

LEMMA CreateProjectLawful ==
  ASSUME IInv, NEW a \in User, NEW p \in Project, NEW d \in Dept, NEW r \in Role, NEW guest \in User,
         NEW inside \in BOOLEAN, CreateProject(a, p, d, r, guest, inside)
  PROVE  Stays \/ Lawful
<1> SUFFICES ASSUME ~Stays PROVE Lawful
  OBVIOUS
<1> DEFINE new == [at |-> "there", active |-> TRUE, dept |-> d, owner |-> a]
           started == [member EXCEPT ![p][a] = Member(r, a)]
<1>1. /\ project[p].at = "new" /\ project' = [project EXCEPT ![p] = new]
      /\ \/ guest = a /\ member' = started /\ note' = note
         \/ guest # a /\ JoinOrInvite(p, guest, r, a, inside, started)
      /\ UNCHANGED <<user, dept, unguarded, role, asset, etlUp, code, late>>
      /\ Wrote({a, guest})
      /\ CanCreateProject(a, p, d, r, guest, inside) \/ (a \in unchecked' /\ guest \in unchecked')
  BY Counts DEF CreateProject, Request, Stays, Wrote, people, Unchanged
<1>2. /\ member' \in [Project -> [User -> Place]] /\ note' \subseteq Note
      /\ \A q \in Project \ {p} : member'[q] = member[q]
      /\ \A v \in User : \/ member'[p][v] = member[p][v]
                         \/ member'[p][v] = Member(r, a) /\ (v = a \/ (v = guest /\ inside))
  <2>1. started \in [Project -> [User -> Place]] /\ \A q \in Project \ {p} : started[q] = member[q]
    BY MemberIs DEF IInv, TypeOK
  <2>2. \A v \in User : started[p][v] = IF v = a THEN Member(r, a) ELSE member[p][v]
    BY DEF IInv, TypeOK
  <2>3. Invitation(p, guest, r, a) \in Note
    BY DEF Invitation, Note
  <2> HIDE DEF started, new
  <2>4. CASE member' = started /\ note' = note
    BY <2>1, <2>2, <2>4 DEF IInv, TypeOK
  <2>5. CASE JoinOrInvite(p, guest, r, a, inside, started)
    <3>1. CASE inside
      <4>1. member' = [started EXCEPT ![p][guest] = Member(r, a)] /\ note' = note
        BY <2>5, <3>1 DEF JoinOrInvite
      <4> QED BY <2>1, <2>2, <3>1, <4>1, MemberIs DEF IInv, TypeOK
    <3>2. CASE ~inside
      <4>1. member' = started /\ note' = note \cup {Invitation(p, guest, r, a)}
        BY <2>5, <3>2 DEF JoinOrInvite
      <4> QED BY <2>1, <2>2, <2>3, <4>1 DEF IInv, TypeOK
    <3> QED BY <3>1, <3>2
  <2> QED BY <1>1, <2>4, <2>5
<1>3. TypeOK' /\ Growing /\ Registered'
  BY <1>1, <1>2 DEF IInv, TypeOK, Growing, Registered, There, Created, Wrote, Undertaking, Stage
<1>4. RightsKept /\ InvitersKept /\ ListsKept
  BY <1>1, SameUsers, SameLists
<1>5. OwnedKept
  <2>1. a \in Excused' \/ May("project", a)'
    BY <1>1 DEF Excused, May, CanOwn, CanCreateProject, Is, Signed
  <2>2. \A q \in There(project)' : \/ q \in There(project) /\ project'[q].owner = project[q].owner
                                   \/ p = q /\ project'[q].owner = a
    BY <1>1 DEF There, IInv, TypeOK
  <2> QED BY <1>1, <2>1, <2>2, OneGiven DEF There
<1>6. \A q \in Project, v \in User : Joined(q, v)' =>
        \/ q # p /\ Joined(q, v) /\ member'[q][v] = member[q][v]
        \/ q = p /\ member'[q][v] = Member(r, a) /\ (v = a \/ (v = guest /\ inside))
  BY <1>1, <1>2 DEF Joined, IInv, References, There
<1>7. PlacesKept
  <2> SUFFICES ASSUME NEW q \in There(project)', NEW v \in User, Joined(q, v)', ~SameInviter(q, v),
                      member'[q][v].by \notin unchecked'
               PROVE  Signed(member[q][v].by)'
    BY DEF PlacesKept
  <2>1. q \in Project /\ (q # p => q \in There(project))
    BY <1>1 DEF There, IInv, TypeOK
  <2>2. member'[q][v].by = a
    BY <1>6, <2>1, MemberIs DEF SameInviter
  <2>3. Signed(a)
    BY <1>1, <2>2 DEF CanCreateProject, Is
  <2> QED BY <1>1, <2>2, <2>3 DEF Signed
<1>8. Consents
  <2> SUFFICES ASSUME NEW q \in Project, NEW v \in User \ unchecked', ~Joined(q, v), Joined(q, v)'
               PROVE  AtHome(q, v)'
    BY DEF Consents
  <2>1. q = p /\ (v = a \/ (v = guest /\ inside)) /\ CanCreateProject(a, p, d, r, guest, inside)
    BY <1>1, <1>6
  <2>2. project'[p].dept = d /\ project'[p].at = "there"
    BY <1>1 DEF IInv, TypeOK
  <2>3. d \in There(dept)
    BY <1>1, <2>2 DEF Wrote, References, There, IInv, TypeOK
  <2>4. user[v].dept \in Tree(d)
    BY <2>1, <2>3, TreeRoot DEF CanCreateProject, InScope
  <2>5. Tree(project[p].dept)' = Tree(d)
    BY <1>1, <2>2 DEF Tree, Closed, There
  <2> QED BY <1>1, <2>1, <2>4, <2>5 DEF AtHome
<1> QED BY <1>3, <1>4, <1>5, <1>7, <1>8 DEF Lawful

LEMMA SetActiveLawful ==
  ASSUME IInv, NEW a \in User, NEW p \in Project, NEW active \in BOOLEAN, SetProjectActive(a, p, active)
  PROVE  Stays \/ Lawful
<1> SUFFICES ASSUME ~Stays PROVE Lawful
  OBVIOUS
<1>1. /\ project' = [project EXCEPT ![p].active = active]
      /\ UNCHANGED <<user, dept, unguarded, role, asset, etlUp, member, note, code, late>>
      /\ Wrote({a})
  BY Counts DEF SetProjectActive, Request, Stays, Wrote, people, joining, Unchanged
<1>2. project' \in [Project -> Undertaking]
  BY <1>1 DEF IInv, TypeOK, Undertaking
<1>3. TypeOK' /\ Growing /\ Registered'
  BY <1>1, <1>2 DEF IInv, TypeOK, Growing, Registered, There, Created, Wrote
<1>4. \A q \in There(project)' : q \in There(project) /\ project'[q].owner = project[q].owner
  BY <1>1 DEF There, IInv, TypeOK
<1>5. RightsKept /\ InvitersKept /\ PlacesKept /\ Consents /\ ListsKept /\ OwnedKept
  BY <1>1, <1>4, SameUsers, SamePlaces, SameLists, NoneGiven DEF There
<1> QED BY <1>3, <1>5 DEF Lawful

LEMMA PurgeLawful ==
  ASSUME IInv, NEW a \in User, NEW p \in Project, PurgeInactiveProject(a, p)
  PROVE  Stays \/ Lawful
<1> SUFFICES ASSUME ~Stays PROVE Lawful
  OBVIOUS
<1>1. /\ note' = {n \in note : n.project # p}
      /\ code' = [v \in User |-> IF code[v].project = p
                                 THEN [code[v] EXCEPT !.project = NoProject, !.role = NoRole]
                                 ELSE code[v]]
      /\ asset' = [x \in Asset |->
           IF asset[x].project # p THEN asset[x]
           ELSE IF KindOf[x] = "board" THEN [asset[x] EXCEPT !.at = "gone", !.project = NoProject]
           ELSE [asset[x] EXCEPT !.project = NoProject]]
      /\ member' = [member EXCEPT ![p] = [v \in User |-> NoPlace]]
      /\ project' = [project EXCEPT ![p].at = "gone"]
      /\ UNCHANGED <<user, dept, unguarded, role, etlUp, late>>
      /\ Wrote({v \in User : Joined(p, v)})
  BY Counts, Zenon DEF PurgeInactiveProject, Request, Stays, Wrote, people
<1> DEFINE without(c) == [c EXCEPT !.project = NoProject, !.role = NoRole]
           gone(x) == [x EXCEPT !.at = "gone", !.project = NoProject]
           out(x) == [x EXCEPT !.project = NoProject]
<1>2. project' \in [Project -> Undertaking] /\ code' \in [User -> Code] /\ asset' \in [Asset -> Thing]
  <2>1. project' \in [Project -> Undertaking]
    <3>1. project[p] \in Undertaking
      BY DEF IInv, TypeOK
    <3>2. [project[p] EXCEPT !.at = "gone"] \in Undertaking
      BY <3>1 DEF Undertaking, Stage
    <3> QED BY <1>1, <3>2 DEF IInv, TypeOK
  <2>2. \A v \in User : without(code[v]) \in Code /\ code[v] \in Code
    <3>1. \A v \in User : code[v] \in Code
      BY DEF IInv, TypeOK
    <3>2. \A c \in Code : without(c) \in Code
      BY DEF Code
    <3> QED BY <3>1, <3>2
  <2>3. code' \in [User -> Code]
    <3> HIDE DEF without
    <3>1. code' = [v \in User |-> IF code[v].project = p THEN without(code[v]) ELSE code[v]]
      BY <1>1 DEF without
    <3> QED BY <2>2, <3>1
  <2>4. \A x \in Asset : /\ asset[x] \in Thing /\ gone(asset[x]) \in Thing /\ out(asset[x]) \in Thing
    BY DEF IInv, TypeOK, Thing, Stage
  <2>5. asset' \in [Asset -> Thing]
    <3> HIDE DEF gone, out
    <3>1. asset' = [x \in Asset |-> IF asset[x].project # p THEN asset[x]
                                    ELSE IF KindOf[x] = "board" THEN gone(asset[x]) ELSE out(asset[x])]
      BY <1>1 DEF gone, out
    <3> QED BY <2>4, <3>1
  <2> QED BY <2>1, <2>3, <2>5
<1>3. member' \in [Project -> [User -> Place]] /\ note' \subseteq Note
  BY <1>1 DEF IInv, TypeOK, Place
<1>4. /\ \A q \in There(project)' : q \in There(project) /\ project'[q].owner = project[q].owner
      /\ \A x \in There(asset)' : x \in There(asset) /\ asset'[x].owner = asset[x].owner
  <2>1. \A q \in There(project)' : q \in There(project) /\ project'[q].owner = project[q].owner
    <3>1. \A q \in Project : project[q] \in Undertaking
      BY DEF IInv, TypeOK
    <3>2. \A q \in Project : project'[q] = IF q = p THEN [project[q] EXCEPT !.at = "gone"] ELSE project[q]
      BY <1>1 DEF IInv, TypeOK
    <3> QED BY <1>2, <3>1, <3>2 DEF There, Undertaking, IInv, TypeOK
  <2>2. \A x \in Asset : asset'[x].owner = asset[x].owner /\ (asset'[x].at = "there" => asset[x].at = "there")
    <3>1. \A x \in Asset : /\ gone(asset[x]).owner = asset[x].owner /\ gone(asset[x]).at = "gone"
                            /\ out(asset[x]).owner = asset[x].owner /\ out(asset[x]).at = asset[x].at
      <4> SUFFICES ASSUME NEW x \in Asset
                   PROVE  /\ gone(asset[x]).owner = asset[x].owner /\ gone(asset[x]).at = "gone"
                          /\ out(asset[x]).owner = asset[x].owner /\ out(asset[x]).at = asset[x].at
        OBVIOUS
      <4>1. asset[x] \in Thing
        BY DEF IInv, TypeOK
      <4> QED BY <4>1 DEF Thing
    <3>2. \A x \in Asset : asset'[x] \in {asset[x], gone(asset[x]), out(asset[x])}
      BY <1>1
    <3> HIDE DEF gone, out
    <3> QED BY <3>1, <3>2
  <2> QED BY <1>2, <2>1, <2>2 DEF There, IInv, TypeOK
<1>5. TypeOK' /\ Growing /\ Registered'
  BY <1>1, <1>2, <1>3, <1>4 DEF IInv, TypeOK, Growing, Registered, Created, Wrote
<1>6. RightsKept /\ InvitersKept /\ ListsKept /\ OwnedKept
  BY <1>1, <1>4, SameUsers, SameLists, NoneGiven DEF There
<1>7. \A q \in Project, v \in User : Joined(q, v)' => Joined(q, v) /\ member'[q][v] = member[q][v]
  BY <1>1 DEF Joined, IInv, TypeOK
<1>8. PlacesKept /\ Consents
  BY <1>2, <1>4, <1>7 DEF PlacesKept, Consents, SameInviter, There
<1> QED BY <1>5, <1>6, <1>8 DEF Lawful

(* A place is left, or changed in its template only.                        *)
LEMMA PlacesLeft ==
  ASSUME IInv, project' = project,
         \A p \in Project, v \in User : Joined(p, v)' => Joined(p, v) /\ member'[p][v].by = member[p][v].by
  PROVE  PlacesKept /\ Consents
BY DEF PlacesKept, Consents, SameInviter, There, IInv, TypeOK

LEMMA AddMemberLawful ==
  ASSUME IInv, NEW a \in User, NEW p \in Project, NEW u \in User, NEW r \in Role,
         NEW inside \in BOOLEAN, AddMember(a, p, u, r, inside)
  PROVE  Stays \/ Lawful
<1> SUFFICES ASSUME ~Stays PROVE Lawful
  OBVIOUS
<1>1. /\ JoinOrInvite(p, u, r, a, inside, member)
      /\ UNCHANGED <<user, dept, unguarded, role, project, asset, etlUp, code, late>>
      /\ Wrote({a, u})
      /\ CanAddMember(a, p, u, r, inside) \/ (a \in unchecked' /\ u \in unchecked')
  BY Counts DEF AddMember, Request, Stays, Wrote, people, Unchanged
<1>2. /\ member' \in [Project -> [User -> Place]] /\ note' \subseteq Note
      /\ \A q \in Project, v \in User :
           member'[q][v] = member[q][v] \/ (q = p /\ v = u /\ inside /\ member'[q][v] = Member(r, a))
  <2>1. CASE inside
    <3>1. member' = [member EXCEPT ![p][u] = Member(r, a)] /\ note' = note
      BY <1>1, <2>1 DEF JoinOrInvite
    <3> QED BY <2>1, <3>1, MemberIs DEF IInv, TypeOK
  <2>2. CASE ~inside
    <3>1. member' = member /\ note' = note \cup {Invitation(p, u, r, a)}
      BY <1>1, <2>2 DEF JoinOrInvite
    <3>2. Invitation(p, u, r, a) \in Note
      BY DEF Invitation, Note
    <3> QED BY <3>1, <3>2 DEF IInv, TypeOK
  <2> QED BY <2>1, <2>2
<1>3. TypeOK' /\ Growing /\ Registered'
  BY <1>1, <1>2 DEF IInv, TypeOK, Growing, Registered, There, Created, Wrote
<1>4. RightsKept /\ InvitersKept /\ ListsKept /\ OwnedKept
  BY <1>1, SameUsers, SameLists, SameThings DEF There
<1>5. PlacesKept
  <2> SUFFICES ASSUME NEW q \in There(project)', NEW v \in User, Joined(q, v)', ~SameInviter(q, v),
                      member'[q][v].by \notin unchecked'
               PROVE  Signed(member[q][v].by)'
    BY DEF PlacesKept
  <2>1. q \in Project /\ q \in There(project)
    BY <1>1 DEF There, IInv, TypeOK
  <2>2. member'[q][v].by = a
    BY <1>2, <2>1, MemberIs DEF SameInviter, Joined
  <2>3. Signed(a)
    BY <1>1, <2>2 DEF CanAddMember, MayChange, MayRun, Is
  <2> QED BY <1>1, <2>2, <2>3 DEF Signed
<1>6. Consents
  <2> SUFFICES ASSUME NEW q \in Project, NEW v \in User \ unchecked', ~Joined(q, v), Joined(q, v)'
               PROVE  AtHome(q, v)'
    BY DEF Consents
  <2>1. q = p /\ v = u /\ inside /\ CanAddMember(a, p, u, r, inside)
    BY <1>1, <1>2 DEF Joined
  <2>2. user[u].dept \in Tree(project[p].dept)
    BY <2>1 DEF CanAddMember, MayChange, MayRun, InScope
  <2>3. Tree(project[p].dept)' = Tree(project[p].dept)
    BY <1>1 DEF Tree, Closed, There
  <2> QED BY <1>1, <2>1, <2>2, <2>3 DEF AtHome
<1> QED BY <1>3, <1>4, <1>5, <1>6 DEF Lawful

LEMMA MemberRoleLawful ==
  ASSUME IInv, NEW a \in User, NEW p \in Project, NEW u \in User, NEW r \in Role,
         UpdateMemberRole(a, p, u, r)
  PROVE  Stays \/ Lawful
<1> SUFFICES ASSUME ~Stays PROVE Lawful
  OBVIOUS
<1>1. /\ Joined(p, u) /\ member' = [member EXCEPT ![p][u].role = r]
      /\ UNCHANGED <<user, dept, unguarded, role, project, asset, etlUp, note, code, late>>
      /\ Wrote({u})
  BY Counts DEF UpdateMemberRole, Request, Stays, Wrote, people, Unchanged
<1>2. /\ member' \in [Project -> [User -> Place]]
      /\ \A q \in Project, v \in User :
           member'[q][v].by = member[q][v].by /\ (Joined(q, v)' => Joined(q, v))
  <2>1. member[p][u] \in [role : Role, by : User]
    BY <1>1 DEF Joined, IInv, TypeOK, Place
  <2>2. [member[p][u] EXCEPT !.role = r] \in Place /\ [member[p][u] EXCEPT !.role = r].by = member[p][u].by
    BY <2>1 DEF Place
  <2> QED BY <1>1, <2>2 DEF Joined, IInv, TypeOK
<1>3. TypeOK' /\ Growing /\ Registered'
  BY <1>1, <1>2 DEF IInv, TypeOK, Growing, Registered, There, Created, Wrote
<1>4. RightsKept /\ InvitersKept /\ ListsKept /\ OwnedKept
  BY <1>1, SameUsers, SameLists, SameThings DEF There
<1> QED BY <1>1, <1>2, <1>3, <1>4, PlacesLeft DEF Lawful

LEMMA RemoveMemberLawful ==
  ASSUME IInv, NEW a \in User, NEW p \in Project, NEW u \in User, RemoveMember(a, p, u)
  PROVE  Stays \/ Lawful
<1> SUFFICES ASSUME ~Stays PROVE Lawful
  OBVIOUS
<1>1. /\ member' = [member EXCEPT ![p][u] = NoPlace] /\ note' = note \ Pending(p, u)
      /\ UNCHANGED <<user, dept, unguarded, role, project, asset, etlUp, code, late>>
      /\ Wrote({u})
  BY Counts DEF RemoveMember, Request, Stays, Wrote, people, Unchanged
<1>2. /\ member' \in [Project -> [User -> Place]]
      /\ \A q \in Project, v \in User : Joined(q, v)' => Joined(q, v) /\ member'[q][v].by = member[q][v].by
  BY <1>1 DEF Joined, IInv, TypeOK, Place
<1>3. TypeOK' /\ Growing /\ Registered'
  BY <1>1, <1>2 DEF IInv, TypeOK, Growing, Registered, There, Created, Wrote
<1>4. RightsKept /\ InvitersKept /\ ListsKept /\ OwnedKept
  BY <1>1, SameUsers, SameLists, SameThings DEF There
<1> QED BY <1>1, <1>2, <1>3, <1>4, PlacesLeft DEF Lawful

LEMMA CancelInviteLawful ==
  ASSUME IInv, NEW a \in User, NEW n \in note, CancelProjectInvite(a, n)
  PROVE  Stays \/ Lawful
<1> SUFFICES ASSUME ~Stays PROVE Lawful
  OBVIOUS
<1>1. /\ note' = note \ {n}
      /\ UNCHANGED <<user, dept, unguarded, role, project, asset, etlUp, member, code, late>>
      /\ Wrote({n.to})
  BY Counts DEF CancelProjectInvite, Request, Stays, Wrote, people, Unchanged
<1>2. TypeOK' /\ Growing /\ Registered'
  BY <1>1 DEF IInv, TypeOK, Growing, Registered, There, Created, Wrote, Note
<1>3. RightsKept /\ InvitersKept /\ ListsKept /\ OwnedKept /\ PlacesKept /\ Consents
  BY <1>1, SameUsers, SameLists, SameThings, SamePlaces DEF There
<1> QED BY <1>2, <1>3 DEF Lawful

LEMMA RejectLawful ==
  ASSUME IInv, NEW n, RejectProjectInvite(n)
  PROVE  Stays \/ Lawful
<1> SUFFICES ASSUME ~Stays PROVE Lawful
  OBVIOUS
<1>1. /\ n \in note /\ note' = note \ {n}
      /\ UNCHANGED <<user, dept, unguarded, role, project, asset, etlUp, member, code, late>>
      /\ Wrote({n.to})
  BY Counts DEF RejectProjectInvite, Request, Stays, Wrote, people, Unchanged
<1>2. TypeOK' /\ Growing /\ Registered'
  BY <1>1 DEF IInv, TypeOK, Growing, Registered, There, Created, Wrote, Note
<1>3. RightsKept /\ InvitersKept /\ ListsKept /\ OwnedKept /\ PlacesKept /\ Consents
  BY <1>1, SameUsers, SameLists, SameThings, SamePlaces DEF There
<1> QED BY <1>2, <1>3 DEF Lawful

LEMMA AcceptLawful ==
  ASSUME IInv, NEW n, AcceptProjectInvite(n)
  PROVE  Stays \/ Lawful
<1> SUFFICES ASSUME ~Stays PROVE Lawful
  OBVIOUS
<1>1. /\ n \in note /\ note' = note \ {n}
      /\ member' = [member EXCEPT ![n.project][n.to] = Member(n.role, n.by)]
      /\ late' = late \cup (IF Signed(n.by) THEN {} ELSE {<<n.project, n.to>>})
      /\ UNCHANGED <<user, dept, unguarded, role, project, asset, etlUp, code>>
      /\ Wrote({})
  BY Counts DEF AcceptProjectInvite, Request, Stays, Wrote, people, Unchanged, Join
<1>2. n.to \in User /\ n.project \in Project /\ n.role \in Role /\ n.by \in User
  BY <1>1 DEF IInv, TypeOK, Note
<1>3. /\ member' \in [Project -> [User -> Place]]
      /\ \A q \in Project, v \in User :
           member'[q][v] = IF q = n.project /\ v = n.to THEN Member(n.role, n.by) ELSE member[q][v]
  <2>1. Member(n.role, n.by) \in Place
    BY <1>2, MemberIs
  <2> QED BY <1>1, <1>2, <2>1 DEF IInv, TypeOK
<1>4. late' \subseteq Project \X User /\ late \subseteq late'
  BY <1>1, <1>2 DEF IInv, TypeOK
<1>5. TypeOK' /\ Growing /\ Registered'
  BY <1>1, <1>3, <1>4 DEF IInv, TypeOK, Growing, Registered, There, Created, Wrote
<1>6. RightsKept /\ InvitersKept /\ ListsKept /\ OwnedKept
  BY <1>1, SameUsers, SameLists, SameThings DEF There
<1>7. PlacesKept
  <2> SUFFICES ASSUME NEW q \in There(project)', NEW v \in User, Joined(q, v)', ~SameInviter(q, v),
                      <<q, v>> \notin late'
               PROVE  Signed(member[q][v].by)'
    BY DEF PlacesKept
  <2>1. q \in Project /\ q \in There(project)
    BY <1>1 DEF There, IInv, TypeOK
  <2>2. q = n.project /\ v = n.to /\ member'[q][v].by = n.by
    BY <1>2, <1>3, <2>1, MemberIs DEF SameInviter, Joined
  <2>3. Signed(n.by)
    BY <1>1, <2>2
  <2> QED BY <1>1, <2>2, <2>3 DEF Signed
<1>8. Consents
  BY <1>1, <1>3 DEF Consents, Joined
<1> QED BY <1>5, <1>6, <1>7, <1>8 DEF Lawful

-----------------------------------------------------------------------------
(* What people own.                                                         *)

(* Assets are registered, deleted or given.                                 *)
LEMMA AssetsGiven ==
  ASSUME IInv, NEW touched \in SUBSET User, Wrote(touched),
         UNCHANGED <<user, dept, role, project, etlUp, member, note, code, late>>,
         asset' \in [Asset -> Thing], unguarded \subseteq unguarded', unguarded' \subseteq User,
         \A x \in There(asset)' :
           \/ x \in There(asset) /\ asset'[x].owner = asset[x].owner
           \/ /\ asset'[x].owner \in Created(user)
              /\ asset'[x].owner \in Excused' \/ May(KindOf[x], asset'[x].owner)
  PROVE  Lawful
<1>1. TypeOK' /\ Growing
  BY DEF IInv, TypeOK, Growing, Created, Wrote
<1>2. Registered'
  BY DEF IInv, Registered, Created, There
<1>3. RightsKept /\ InvitersKept /\ PlacesKept /\ Consents /\ ListsKept
  BY SameUsers, SamePlaces, SameLists DEF There
<1>4. OwnedKept
  <2> SUFFICES ASSUME NEW u \in Created(user)' \ Excused', NEW x \in Owned(u)', x \notin Owned(u)
               PROVE  May(x[1], u)
    BY DEF OwnedKept, May, Signed
  <2>1. PICK y \in There(asset)' : asset'[y].owner = u /\ x = <<KindOf[y], y>>
    BY DEF Owned, There
  <2>2. ~(y \in There(asset) /\ asset'[y].owner = asset[y].owner)
    BY <2>1 DEF Owned
  <2> QED BY <2>1, <2>2
<1> QED BY <1>1, <1>2, <1>3, <1>4 DEF Lawful

LEMMA RegisterLawful ==
  ASSUME IInv, NEW a \in Created(user), NEW x \in Asset, NEW p \in Project \cup {NoProject},
         RegisterAsset(a, x, p)
  PROVE  Stays \/ Lawful
<1> SUFFICES ASSUME ~Stays PROVE Lawful
  OBVIOUS
<1> a \in User
  BY DEF Created, IInv, TypeOK
<1> DEFINE new == [at |-> "there", owner |-> a, project |-> p]
<1>1. /\ asset[x].at = "new" /\ asset' = [asset EXCEPT ![x] = new]
      /\ UNCHANGED <<user, dept, role, project, etlUp, member, note, code, late, unguarded>>
      /\ Wrote({a}) /\ (CanRegister(a, x, p) \/ a \in unchecked')
  BY Counts DEF RegisterAsset, Request, Stays, Wrote, Nobody, people, joining
<1>2. new \in Thing /\ new.owner = a
  BY DEF Thing, Stage
<1>3. asset' \in [Asset -> Thing] /\ \A y \in Asset : asset'[y] = IF y = x THEN new ELSE asset[y]
  <2> HIDE DEF new
  <2> QED BY <1>1, <1>2 DEF IInv, TypeOK
<1>4. a \in Excused' \/ May(KindOf[x], a)
  <2>1. KindOf[x] \in Kind
    BY OrgAssumption
  <2>2. CASE KindOf[x] = "etl" /\ CanRegister(a, x, p)
    BY <2>2 DEF CanRegister, HasEtl, May, CanOwn
  <2>3. CASE KindOf[x] # "etl" /\ CanRegister(a, x, p)
    BY <2>1, <2>3 DEF CanRegister, May, CanOwn, Kind
  <2> QED BY <1>1, <2>2, <2>3 DEF Excused
<1>5. \A y \in There(asset)' : \/ y \in There(asset) /\ asset'[y].owner = asset[y].owner
                               \/ y = x /\ asset'[y].owner = a
  <2> HIDE DEF new
  <2> QED BY <1>2, <1>3 DEF There, IInv, TypeOK
<1> HIDE DEF new
<1> QED BY <1>1, <1>3, <1>4, <1>5, AssetsGiven DEF IInv, TypeOK

LEMMA DeleteAssetLawful ==
  ASSUME IInv, NEW a \in User, NEW x \in Asset, DeleteAsset(a, x)
  PROVE  Stays \/ Lawful
<1> SUFFICES ASSUME ~Stays PROVE Lawful
  OBVIOUS
<1>1. /\ asset' = [asset EXCEPT ![x].at = "gone"]
      /\ UNCHANGED <<user, dept, role, project, etlUp, member, note, code, late, unguarded>>
      /\ Wrote({a})
  BY Counts DEF DeleteAsset, Request, Stays, Wrote, Nobody, people, joining
<1>2. asset' \in [Asset -> Thing]
  <2>1. asset[x] \in Thing
    BY DEF IInv, TypeOK
  <2>2. [asset[x] EXCEPT !.at = "gone"] \in Thing
    BY <2>1 DEF Thing, Stage
  <2> QED BY <1>1, <2>2 DEF IInv, TypeOK
<1>3. \A y \in There(asset)' : y \in There(asset) /\ asset'[y].owner = asset[y].owner
  <2>1. \A y \in Asset \ {x} : asset'[y] = asset[y]
    BY <1>1 DEF IInv, TypeOK
  <2>2. asset'[x].at = "gone"
    BY <1>1 DEF IInv, TypeOK, Thing
  <2> QED BY <1>2, <2>1, <2>2 DEF There, IInv, TypeOK
<1> QED BY <1>1, <1>2, <1>3, AssetsGiven DEF IInv, TypeOK

(* A recipient is active, and may have what it takes.                       *)
LEMMA GivenAsset ==
  ASSUME IInv, NEW x \in Asset, NEW from, NEW to \in There(user), asset[x].at = "there",
         asset[x].owner = from, Given(x, to), Wrote({from, to}),
         UNCHANGED <<user, dept, role, project, etlUp, member, note, code, late, unguarded>>,
         to \in unchecked' \/ May(KindOf[x], to)
  PROVE  Lawful
<1>1. from \in User /\ to \in Created(user) /\ to \in User
  BY DEF There, Created, IInv, TypeOK, Registered
<1>2. asset' = [asset EXCEPT ![x] = [asset[x] EXCEPT !.owner = to]]
  BY DEF Given, IInv, TypeOK, Thing
<1>3. [asset[x] EXCEPT !.owner = to] \in Thing /\ [asset[x] EXCEPT !.owner = to].owner = to
  BY <1>1 DEF IInv, TypeOK, Thing
<1>4. /\ asset' \in [Asset -> Thing]
      /\ \A y \in There(asset)' : \/ y \in There(asset) /\ asset'[y].owner = asset[y].owner
                                  \/ y = x /\ asset'[y].owner = to
  BY <1>2, <1>3 DEF There, IInv, TypeOK
<1> QED BY <1>1, <1>4, AssetsGiven DEF Excused, IInv, TypeOK

LEMMA TransferEtlLawful ==
  ASSUME IInv, NEW a \in User, NEW x \in Asset, NEW from, NEW to \in There(user),
         TransferEtl(a, x, from, to)
  PROVE  Stays \/ Lawful
<1> SUFFICES ASSUME ~Stays PROVE Lawful
  OBVIOUS
<1>1. /\ asset[x].at = "there" /\ asset[x].owner = from /\ Given(x, to)
      /\ UNCHANGED <<user, dept, role, project, etlUp, member, note, code, late, unguarded>>
      /\ Wrote({from, to})
      /\ (KindOf[x] = "etl" /\ HasEtl(to)) \/ to \in unchecked'
  BY Counts DEF TransferEtl, Request, Stays, Wrote, Nobody, people, joining
<1>2. to \in unchecked' \/ May(KindOf[x], to)
  BY <1>1 DEF HasEtl, May, CanOwn
<1> QED BY <1>1, <1>2, GivenAsset

LEMMA TransferBoardLawful ==
  ASSUME IInv, NEW a \in User, NEW x \in Asset, NEW from, NEW to \in There(user),
         TransferBoard(a, x, from, to)
  PROVE  Stays \/ Lawful
<1> SUFFICES ASSUME ~Stays PROVE Lawful
  OBVIOUS
<1>1. /\ asset[x].at = "there" /\ asset[x].owner = from /\ Given(x, to)
      /\ UNCHANGED <<user, dept, role, project, etlUp, member, note, code, late, unguarded>>
      /\ Wrote({from, to})
      /\ (KindOf[x] = "board" /\ Signed(to)) \/ to \in unchecked'
  BY Counts DEF TransferBoard, Request, Stays, Wrote, Nobody, people, joining, MayTransferIn,
                MayTransfer, Reaches, Signed
<1>2. to \in unchecked' \/ May(KindOf[x], to)
  BY <1>1 DEF May, CanOwn
<1> QED BY <1>1, <1>2, GivenAsset

LEMMA TransferTableLawful ==
  ASSUME IInv, NEW a \in User, NEW x \in Asset, NEW from, NEW to \in There(user),
         NEW moved \in BOOLEAN, TransferTable(a, x, from, to, moved)
  PROVE  Stays \/ Lawful
<1> SUFFICES ASSUME ~Stays PROVE Lawful
  OBVIOUS
<1>1. /\ asset[x].at = "there" /\ asset[x].owner = from
      /\ asset' = [y \in Asset |->
           IF y \in Fills(x, from) \/ (y = x /\ moved) THEN [asset[y] EXCEPT !.owner = to]
           ELSE asset[y]]
      /\ unguarded' = unguarded \cup (IF Fills(x, from) = {} THEN {} ELSE {to})
      /\ UNCHANGED <<user, dept, role, project, etlUp, member, note, code, late>>
      /\ Wrote({from, to})
      /\ (KindOf[x] = "table" /\ Signed(to)) \/ to \in unchecked'
  BY Counts, Zenon DEF TransferTable, Request, Stays, Wrote, joining, MayTransfer, Reaches, Signed
<1>2. from \in User /\ to \in Created(user) /\ to \in User
  BY <1>1 DEF There, Created, IInv, TypeOK, Registered
<1> DEFINE given(y) == [asset[y] EXCEPT !.owner = to]
<1>3. \A y \in Asset : given(y) \in Thing /\ given(y).owner = to /\ asset[y] \in Thing
  BY <1>2 DEF IInv, TypeOK, Thing
<1>4. asset' = [y \in Asset |->
        IF y \in Fills(x, from) \/ (y = x /\ moved) THEN given(y) ELSE asset[y]]
  BY <1>1
<1> HIDE DEF given
<1>5. asset' \in [Asset -> Thing]
  BY <1>3, <1>4
<1>6. \A y \in There(asset)' :
        \/ y \in There(asset) /\ asset'[y].owner = asset[y].owner
        \/ asset'[y].owner = to /\ (y \in Fills(x, from) \/ y = x)
  BY <1>3, <1>4 DEF There, IInv, TypeOK
<1>7. to \in Excused' \/ May("table", to)
  BY <1>1 DEF May, CanOwn, Excused
<1>8. \A y \in Fills(x, from) : to \in Excused'
  BY <1>1 DEF Excused
<1>9. to \in Excused' \/ KindOf[x] = "table"
  BY <1>1 DEF Excused
<1>10. \A y \in There(asset)' :
         \/ y \in There(asset) /\ asset'[y].owner = asset[y].owner
         \/ /\ asset'[y].owner \in Created(user)
            /\ asset'[y].owner \in Excused' \/ May(KindOf[y], asset'[y].owner)
  BY <1>2, <1>6, <1>7, <1>8, <1>9
<1>11. unguarded \subseteq unguarded' /\ unguarded' \subseteq User
  BY <1>1, <1>2 DEF IInv, TypeOK
<1> QED BY <1>1, <1>2, <1>5, <1>10, <1>11, AssetsGiven

LEMMA TransferDeptLawful ==
  ASSUME IInv, NEW a \in User, NEW d \in Dept, NEW from \in User, NEW to \in There(user),
         TransferDept(a, d, from, to)
  PROVE  Stays \/ Lawful
<1> SUFFICES ASSUME ~Stays PROVE Lawful
  OBVIOUS
<1>1. /\ dept[d].at = "there" /\ dept' = [dept EXCEPT ![d].owner = to]
      /\ UNCHANGED <<user, unguarded, role, project, asset, etlUp, member, note, code, late>>
      /\ Wrote({from, to})
      /\ (Signed(to) /\ user[to].dvsn \in Super) \/ to \in unchecked'
  BY Counts DEF TransferDept, Request, Stays, Wrote, work, joining, MayTransfer, Reaches, Signed
<1> to \in User
  BY DEF There, IInv, TypeOK
<1>2. dept' \in [Dept -> Department]
  BY <1>1 DEF IInv, TypeOK, Department
<1>3. TypeOK' /\ Growing /\ Registered'
  BY <1>1, <1>2 DEF IInv, TypeOK, Growing, Registered, There, Created, Wrote
<1>4. RightsKept /\ InvitersKept /\ PlacesKept /\ Consents /\ ListsKept
  BY <1>1, SameUsers, SamePlaces, SameLists DEF There
<1>5. OwnedKept
  <2>1. to \in Excused' \/ May("dept", to)'
    BY <1>1 DEF Excused, May, CanOwn, Signed
  <2>2. \A e \in There(dept)' : \/ e \in There(dept) /\ dept'[e].owner = dept[e].owner
                                \/ d = e /\ dept'[e].owner = to
    BY <1>1 DEF There, IInv, TypeOK, Department
  <2> QED BY <1>1, <2>1, <2>2, OneGiven DEF There
<1> QED BY <1>3, <1>4, <1>5 DEF Lawful

LEMMA TransferProjectLawful ==
  ASSUME IInv, NEW a \in User, NEW p \in Project, NEW to \in There(user), TransferProject(a, p, to)
  PROVE  Stays \/ Lawful
<1> SUFFICES ASSUME ~Stays PROVE Lawful
  OBVIOUS
<1>1. /\ project[p].at = "there" /\ project' = [project EXCEPT ![p].owner = to]
      /\ UNCHANGED <<user, dept, unguarded, role, asset, etlUp, member, note, code, late>>
      /\ Wrote({to})
      /\ (Signed(to) /\ user[to].dvsn \in OrgAdmin) \/ to \in unchecked'
  BY Counts DEF TransferProject, Request, Stays, Wrote, people, joining, MayTransferIn, MayTransfer,
                Reaches, Signed
<1> to \in User
  BY DEF There, IInv, TypeOK
<1>2. project' \in [Project -> Undertaking]
  <2>1. project[p] \in Undertaking
    BY DEF IInv, TypeOK
  <2>2. [project[p] EXCEPT !.owner = to] \in Undertaking
    BY <2>1 DEF Undertaking
  <2> QED BY <1>1, <2>2 DEF IInv, TypeOK
<1>3. TypeOK' /\ Growing /\ Registered'
  BY <1>1, <1>2 DEF IInv, TypeOK, Growing, Registered, There, Created, Wrote
<1>4. \A q \in There(project)' : /\ q \in There(project)
                                 /\ project'[q].owner = project[q].owner \/ (q = p /\ project'[q].owner = to)
  BY <1>1 DEF There, IInv, TypeOK, Undertaking
<1>5. RightsKept /\ InvitersKept /\ PlacesKept /\ Consents /\ ListsKept
  BY <1>1, <1>4, SameUsers, SamePlaces, SameLists
<1>6. OwnedKept
  <2>1. to \in Excused' \/ May("project", to)'
    BY <1>1 DEF Excused, May, CanOwn, Signed
  <2> QED BY <1>1, <1>4, <2>1, OneGiven DEF There
<1> QED BY <1>3, <1>5, <1>6 DEF Lawful

LEMMA TransferRoleLawful ==
  ASSUME IInv, NEW a \in User, NEW r \in Role, NEW to \in There(user), TransferRole(a, r, to)
  PROVE  Stays \/ Lawful
<1> SUFFICES ASSUME ~Stays PROVE Lawful
  OBVIOUS
<1>1. /\ role[r].at = "there" /\ role' = [role EXCEPT ![r].owner = to]
      /\ UNCHANGED <<user, dept, unguarded, project, asset, etlUp, member, note, code, late>>
      /\ Wrote({to})
      /\ (Signed(to) /\ user[to].dvsn \in OrgAdmin) \/ to \in unchecked'
  BY Counts DEF TransferRole, Request, Stays, Wrote, people, joining, MayTransferIn, MayTransfer,
                Reaches, Signed
<1> to \in User
  BY DEF There, IInv, TypeOK
<1>2. role' \in [Role -> Template] /\ \A q \in Role : role'[q].list = role[q].list
  <2> DEFINE rec == [role[r] EXCEPT !.owner = to]
  <2>1. role[r] \in Template
    BY DEF IInv, TypeOK
  <2>2. rec \in Template /\ rec.list = role[r].list
    BY <2>1 DEF Template
  <2>3. role' = [role EXCEPT ![r] = rec]
    BY <1>1
  <2> HIDE DEF rec
  <2> QED BY <2>2, <2>3 DEF IInv, TypeOK
<1>3. TypeOK' /\ Growing /\ Registered'
  BY <1>1, <1>2 DEF IInv, TypeOK, Growing, Registered, There, Created, Wrote
<1>4. RightsKept /\ InvitersKept /\ PlacesKept /\ Consents
  BY <1>1, SameUsers, SamePlaces DEF There
<1>5. OwnedKept
  <2>1. to \in Excused' \/ May("role", to)'
    BY <1>1 DEF Excused, May, CanOwn, Signed
  <2>2. \A q \in There(role)' : /\ q \in There(role)
                                /\ role'[q].owner = role[q].owner \/ (q = r /\ role'[q].owner = to)
    BY <1>1 DEF There, IInv, TypeOK, Template
  <2> QED BY <1>1, <2>1, <2>2, OneGiven DEF There
<1>6. ListsKept
  <2>1. \A p \in Project, u \in User : Joined(p, u) => member[p][u].role \in Role
    BY DEF Joined, IInv, TypeOK, Place
  <2> QED BY <1>2, <2>1 DEF ListsKept
<1> QED BY <1>3, <1>4, <1>5, <1>6 DEF Lawful

LEMMA TransferVoucherLawful ==
  ASSUME IInv, NEW a \in User, NEW p \in Project, NEW v \in User, NEW from,
         NEW to \in There(user), TransferVoucher(a, p, v, from, to)
  PROVE  Stays \/ Lawful
<1> SUFFICES ASSUME ~Stays PROVE Lawful
  OBVIOUS
<1>1. /\ Joined(p, v) /\ member[p][v].by = from /\ member' = [member EXCEPT ![p][v].by = to]
      /\ UNCHANGED <<user, dept, unguarded, role, project, asset, etlUp, note, code, late>>
      /\ Wrote({from, to}) /\ (Signed(to) \/ to \in unchecked')
  BY Counts DEF TransferVoucher, Request, Stays, Wrote, people, work, MayTransferIn, MayTransfer,
                Reaches, Signed
<1> to \in User /\ from \in User
  BY <1>1 DEF There, Joined, Place, IInv, TypeOK
<1>2. /\ member' \in [Project -> [User -> Place]]
      /\ \A q \in Project, w \in User :
           \/ member'[q][w] = member[q][w]
           \/ q = p /\ w = v /\ member'[q][w].by = to
  <2> DEFINE moved == [member[p][v] EXCEPT !.by = to]
  <2>1. member[p][v] \in [role : Role, by : User]
    BY <1>1 DEF Joined, IInv, TypeOK, Place
  <2>2. moved \in Place /\ moved.by = to
    BY <2>1 DEF Place
  <2>3. member' = [member EXCEPT ![p][v] = moved]
    BY <1>1
  <2> HIDE DEF moved
  <2> QED BY <2>2, <2>3 DEF IInv, TypeOK
<1>3. TypeOK' /\ Growing /\ Registered'
  BY <1>1, <1>2 DEF IInv, TypeOK, Growing, Registered, There, Created, Wrote
<1>4. RightsKept /\ InvitersKept /\ ListsKept /\ OwnedKept
  BY <1>1, SameUsers, SameLists, SameThings DEF There
<1>5. There(project)' = There(project) /\ There(project) \subseteq Project
  BY <1>1 DEF There, IInv, TypeOK
<1>6. PlacesKept
  <2> SUFFICES ASSUME NEW q \in There(project)', NEW w \in User, Joined(q, w)', ~SameInviter(q, w),
                      member'[q][w].by \notin unchecked'
               PROVE  Signed(member[q][w].by)'
    BY DEF PlacesKept
  <2>1. member'[q][w].by = to
    BY <1>2, <1>5 DEF SameInviter, Joined
  <2> QED BY <1>1, <2>1 DEF Signed
<1>7. Consents
  BY <1>1, <1>2 DEF Consents, Joined
<1> QED BY <1>3, <1>4, <1>6, <1>7 DEF Lawful

-----------------------------------------------------------------------------
(* All steps.                                                               *)

LEMMA AccountRequestLawful ==
  ASSUME IInv, NEW a \in User, AccountRequest(a)
  PROVE  Stays \/ Lawful
<1>1. ASSUME NEW u \in Target(a), SuspendUser(a, u) \/ ActivateUser(a, u) \/ DeleteInactiveUser(a, u)
      PROVE  Stays \/ Lawful
  <2> u \in User
    BY DEF Target, There, IInv, TypeOK
  <2> QED BY <1>1, SuspendLawful, ActivateLawful, DeleteUserLawful
<1>2. ASSUME NEW u \in Target(a),
             (\E new \in Dvsn : SetUserDvsn(a, u, new)) \/ (\E etl \in BOOLEAN : SetUserEtlFlag(a, u, etl))
      PROVE  Stays \/ Lawful
  <2> u \in User
    BY DEF Target, There, IInv, TypeOK
  <2> QED BY <1>2, SetDvsnLawful, SetEtlLawful
<1>3. ASSUME NEW u \in Target(a), NEW body \in Bodies,
             Management(a, u, body[1], body[2], body[3], [p \in Project |-> Keep])
      PROVE  Stays \/ Lawful
  <2>1. u \in User
    BY DEF Target, There, IInv, TypeOK
  <2>2. body[1] \in Optional(Dept) /\ body[2] \in Optional(Dvsn) /\ body[3] \in Optional(BOOLEAN)
    BY OfficesAssumption
  <2>3. [p \in Project |-> Keep] \in [Project -> Change]
    BY DEF Change
  <2> QED BY <1>3, <2>1, <2>2, <2>3, ManagementLawful
<1>4. <<>> \in Optional(Dept) /\ <<>> \in Optional(Dvsn) /\ <<>> \in Optional(BOOLEAN)
  BY DEF Optional
<1>5. ASSUME NEW u \in Target(a), NEW p \in There(project), NEW r \in There(role), NEW c \in {"add", "set"},
             Management(a, u, <<>>, <<>>, <<>>, [q \in Project |-> IF q = p THEN <<c, r>> ELSE Keep])
      PROVE  Stays \/ Lawful
  <2>1. u \in User /\ r \in Role
    BY DEF Target, There, IInv, TypeOK
  <2>2. [q \in Project |-> IF q = p THEN <<c, r>> ELSE Keep] \in [Project -> Change]
    BY <2>1 DEF Change
  <2> QED BY <1>4, <1>5, <2>1, <2>2, ManagementLawful
<1>6. ASSUME NEW u \in Target(a), NEW p \in There(project),
             Management(a, u, <<>>, <<>>, <<>>, [q \in Project |-> IF q = p THEN Drop ELSE Keep])
      PROVE  Stays \/ Lawful
  <2>1. u \in User
    BY DEF Target, There, IInv, TypeOK
  <2>2. [q \in Project |-> IF q = p THEN Drop ELSE Keep] \in [Project -> Change]
    BY DEF Change
  <2> QED BY <1>4, <1>6, <2>1, <2>2, ManagementLawful
<1>7. ASSUME NEW v \in User \ Created(user), NEW d \in There(dept), NEW o \in Offers,
             InviteUserByEmail(a, v, d, o[1], o[2], o[3], o[4])
      PROVE  Stays \/ Lawful
  <2>1. d \in Dept
    BY DEF There, IInv, TypeOK
  <2>2. /\ o[1] \in Dvsn /\ o[2] \in BOOLEAN
        /\ o[3] \in Project \cup {NoProject} /\ o[4] \in Role \cup {NoRole}
    BY OfficesAssumption
  <2> QED BY <1>7, <2>1, <2>2, InviteLawful
<1> QED BY <1>1, <1>2, <1>3, <1>5, <1>6, <1>7 DEF AccountRequest

LEMMA DepartmentRequestLawful ==
  ASSUME IInv, NEW a \in User, DepartmentRequest(a)
  PROVE  Stays \/ Lawful
<1>1. There(dept) \subseteq Dept
  BY DEF There, IInv, TypeOK
<1>2. CASE \E d \in Dept \ Created(dept), parent \in There(dept) \cup {NoDept} :
             CreateDepartment(a, d, parent)
  BY <1>1, <1>2, CreateDepartmentLawful
<1>3. ASSUME NEW d \in There(dept), DeleteDepartment(a, d)
      PROVE  Stays \/ Lawful
  BY <1>1, <1>3, DeleteDepartmentLawful
<1>4. ASSUME NEW d \in There(dept), UpdateDepartment(a, d, TRUE, NoDept)
      PROVE  Stays \/ Lawful
  BY <1>1, <1>4, UpdateDepartmentLawful
<1>5. ASSUME NEW d \in There(dept), NEW to \in There(dept) \cup {NoDept}, UpdateDepartment(a, d, FALSE, to)
      PROVE  Stays \/ Lawful
  BY <1>1, <1>5, UpdateDepartmentLawful
<1> QED BY <1>2, <1>3, <1>4, <1>5 DEF DepartmentRequest

LEMMA RoleRequestLawful ==
  ASSUME IInv, NEW a \in User, RoleRequest(a)
  PROVE  Stays \/ Lawful
<1>1. There(dept) \subseteq Dept /\ There(role) \subseteq Role
  BY DEF There, IInv, TypeOK
<1> QED BY <1>1, CreateRoleLawful, DeleteRoleLawful, UpdateRoleLawful DEF RoleRequest

LEMMA ProjectRequestLawful ==
  ASSUME IInv, NEW a \in User, ProjectRequest(a)
  PROVE  Stays \/ Lawful
<1>1. /\ There(dept) \subseteq Dept /\ There(role) \subseteq Role
      /\ There(project) \subseteq Project /\ There(user) \subseteq User
  BY DEF There, IInv, TypeOK
<1>2. CASE \E p \in Project \ Created(project), d \in There(dept), r \in There(role),
              guest \in There(user), inside \in BOOLEAN : CreateProject(a, p, d, r, guest, inside)
  BY <1>1, <1>2, CreateProjectLawful
<1>3. ASSUME NEW p \in There(project),
             (\E active \in BOOLEAN : SetProjectActive(a, p, active)) \/ PurgeInactiveProject(a, p)
      PROVE  Stays \/ Lawful
  BY <1>1, <1>3, SetActiveLawful, PurgeLawful
<1>4. ASSUME NEW p \in There(project), NEW u \in There(user), RemoveMember(a, p, u)
      PROVE  Stays \/ Lawful
  BY <1>1, <1>4, RemoveMemberLawful
<1>5. ASSUME NEW p \in There(project), NEW u \in There(user), NEW r \in There(role),
             UpdateMemberRole(a, p, u, r) \/ \E inside \in BOOLEAN : AddMember(a, p, u, r, inside)
      PROVE  Stays \/ Lawful
  BY <1>1, <1>5, MemberRoleLawful, AddMemberLawful
<1>6. CASE \E n \in note : CancelProjectInvite(a, n)
  BY <1>6, CancelInviteLawful
<1> QED BY <1>2, <1>3, <1>4, <1>5, <1>6 DEF ProjectRequest

LEMMA TransferRequestLawful ==
  ASSUME IInv, NEW a \in User, TransferRequest(a)
  PROVE  Stays \/ Lawful
<1>1. PICK to \in There(user) :
        \/ \E x \in There(asset) :
             \/ TransferEtl(a, x, asset[x].owner, to) \/ TransferBoard(a, x, asset[x].owner, to)
             \/ \E moved \in BOOLEAN : TransferTable(a, x, asset[x].owner, to, moved)
        \/ \E d \in There(dept) : dept[d].owner # NoUser /\ TransferDept(a, d, dept[d].owner, to)
        \/ \E p \in There(project) :
             \/ TransferProject(a, p, to)
             \/ \E v \in There(user) : TransferVoucher(a, p, v, member[p][v].by, to)
        \/ \E r \in There(role) : TransferRole(a, r, to)
  BY DEF TransferRequest
<1>2. /\ There(asset) \subseteq Asset /\ There(dept) \subseteq Dept /\ There(role) \subseteq Role
      /\ There(project) \subseteq Project /\ There(user) \subseteq User
  BY DEF There, IInv, TypeOK
<1>3. ASSUME NEW x \in There(asset),
             TransferEtl(a, x, asset[x].owner, to) \/ TransferBoard(a, x, asset[x].owner, to)
      PROVE  Stays \/ Lawful
  BY <1>2, <1>3, TransferEtlLawful, TransferBoardLawful
<1>4. ASSUME NEW x \in There(asset), NEW moved \in BOOLEAN,
             TransferTable(a, x, asset[x].owner, to, moved)
      PROVE  Stays \/ Lawful
  BY <1>2, <1>4, TransferTableLawful
<1>5. ASSUME NEW d \in There(dept), dept[d].owner # NoUser, TransferDept(a, d, dept[d].owner, to)
      PROVE  Stays \/ Lawful
  <2>1. dept[d].owner \in User
    BY <1>2, <1>5 DEF IInv, TypeOK, Department
  <2> QED BY <1>2, <1>5, <2>1, TransferDeptLawful
<1>6. ASSUME NEW p \in There(project), TransferProject(a, p, to)
      PROVE  Stays \/ Lawful
  BY <1>2, <1>6, TransferProjectLawful
<1>7. ASSUME NEW p \in There(project), NEW v \in There(user), TransferVoucher(a, p, v, member[p][v].by, to)
      PROVE  Stays \/ Lawful
  BY <1>2, <1>7, TransferVoucherLawful
<1>8. ASSUME NEW r \in There(role), TransferRole(a, r, to)
      PROVE  Stays \/ Lawful
  BY <1>2, <1>8, TransferRoleLawful
<1> QED BY <1>1, <1>3, <1>4, <1>5, <1>6, <1>7, <1>8

LEMMA OwnRequestLawful ==
  ASSUME IInv, NEW a \in User, OwnRequest(a)
  PROVE  Stays \/ Lawful
<1>1. There(project) \subseteq Project /\ There(asset) \subseteq Asset
  BY DEF There, IInv, TypeOK
<1>2. ASSUME a \in Created(user), NEW x \in Asset \ Created(asset),
             NEW p \in There(project) \cup {NoProject}, RegisterAsset(a, x, p)
      PROVE  Stays \/ Lawful
  BY <1>1, <1>2, RegisterLawful
<1>3. ASSUME NEW x \in There(asset), DeleteAsset(a, x)
      PROVE  Stays \/ Lawful
  BY <1>1, <1>3, DeleteAssetLawful
<1>4. ASSUME NEW n, AcceptProjectInvite(n) \/ RejectProjectInvite(n)
      PROVE  Stays \/ Lawful
  BY <1>4, AcceptLawful, RejectLawful
<1>5. CASE SignUp(a)
  BY <1>5, SignUpLawful
<1> QED BY <1>2, <1>3, <1>4, <1>5 DEF OwnRequest

LEMMA NextLawful ==
  ASSUME IInv, Next
  PROVE  Stays \/ Lawful
<1>1. CASE Abandon
  BY <1>1, Counts DEF Abandon, Stays
<1>2. \A dvsns : Caller(dvsns) \subseteq User
  BY DEF Caller
<1>3. ASSUME NEW a \in User,
             \/ AccountRequest(a) \/ DepartmentRequest(a) \/ RoleRequest(a) \/ TransferRequest(a)
             \/ ProjectRequest(a) \/ OwnRequest(a)
      PROVE  Stays \/ Lawful
  BY <1>3, AccountRequestLawful, DepartmentRequestLawful, RoleRequestLawful, TransferRequestLawful,
     ProjectRequestLawful, OwnRequestLawful
<1> QED BY <1>1, <1>2, <1>3 DEF Next

LEMMA StepInvariance ==
  ASSUME IInv, [Next]_vars
  PROVE  IInv' /\ Consents /\ ListsKept
<1>1. CASE Next
  BY <1>1, NextLawful, LawfulStep, StaysStep DEF Lawful
<1>2. CASE UNCHANGED vars
  <2>1. Stays
    BY <1>2, Counts DEF Stays, vars
  <2> QED BY <2>1, StaysStep
<1> QED BY <1>1, <1>2

LEMMA InitIInv == Init => IInv
<1> SUFFICES ASSUME Init PROVE IInv
  OBVIOUS
<1>1. TypeOK
  BY OfficesAssumption, OrgAssumption DEF Init, TypeOK
<1> QED BY <1>1 DEF Init, IInv

-----------------------------------------------------------------------------
(* The inductive invariant holds: the types, the foreign keys, an account   *)
(* behind whatever is registered, and the two rules.                        *)
THEOREM Invariance == Spec => []IInv
<1>1. IInv /\ [Next]_vars => IInv'
  BY StepInvariance
<1> QED BY <1>1, InitIInv, PTL DEF Spec

(* The variables keep their types, whatever the requests.                   *)
THEOREM TypeCorrect == Spec => []TypeOK
<1>1. IInv => TypeOK
  BY DEF IInv
<1> QED BY <1>1, Invariance, PTL

(* Whatever somebody is the creator of, the role and the ETL flag allow,    *)
(* and nobody suspended or deleted is the creator of anything, but for those *)
(* of whom a handler does not ask (ownership_guards.py), and those whom a   *)
(* request wrote after its checks had ceased to hold.                       *)
THEOREM OwnersMayOwn == Spec => []OwnersCanOwn
<1>1. IInv => OwnersCanOwn
  BY DEF IInv
<1> QED BY <1>1, Invariance, PTL

(* Whoever has brought another user into a project can still be asked       *)
(* (build_ownership_violation_payload, transfer of a participant).          *)
THEOREM InvitersCanBeAsked == Spec => []InvitersStay
<1>1. IInv => InvitersStay
  BY DEF IInv
<1> QED BY <1>1, Invariance, PTL

(* Nobody from outside becomes a participant of a project without having    *)
(* accepted, but at the hands of a sa_dev (add_member, create_project,      *)
(* update_user_management, signup_with_invite).                             *)
THEOREM NobodyDragged == Spec => OutsidersConsent
<1>1. IInv /\ [Next]_vars => [Consents]_vars
  BY StepInvariance
<1>2. Spec => [][Consents]_vars
  BY <1>1, Invariance, PTL DEF Spec
<1> QED BY <1>2 DEF OutsidersConsent, Consents

(* The permissions of a participant change only with his template           *)
(* (update_custom_role).                                                    *)
THEOREM PermissionsStay == Spec => PermissionsKept
<1>1. IInv /\ [Next]_vars => [ListsKept]_vars
  BY StepInvariance
<1>2. Spec => [][ListsKept]_vars
  BY <1>1, Invariance, PTL DEF Spec
<1> QED BY <1>2 DEF PermissionsKept, ListsKept

-----------------------------------------------------------------------------
(* What an administrator of a department reaches, whoever administers a     *)
(* department above it reaches as well, for any parents that the rows name  *)
(* (_dptmt_id_in_managed_subtree, on which every check of reach rests).     *)
THEOREM TreesNest ==
  ASSUME NEW d, NEW e \in Tree(d)
  PROVE  Closed(Tree(d)) /\ Tree(e) \subseteq Tree(d)
<1>1. Closed(Tree(d))
  <2> SUFFICES ASSUME NEW c \in There(dept), dept[c].parent \in Tree(d),
                      NEW S \in SUBSET There(dept), Closed(S), {d} \cap There(dept) \subseteq S
               PROVE  c \in S
    BY DEF Closed, Tree
  <2>1. dept[c].parent \in S
    BY DEF Tree
  <2> QED BY <2>1 DEF Closed
<1>2. Tree(e) \subseteq Tree(d)
  <2> SUFFICES ASSUME NEW c \in Tree(e), NEW S \in SUBSET There(dept), Closed(S),
                      {d} \cap There(dept) \subseteq S
               PROVE  c \in S
    BY DEF Tree
  <2>1. e \in S
    BY DEF Tree
  <2> QED BY <2>1 DEF Tree
<1> QED BY <1>1, <1>2


-----------------------------------------------------------------------------
(* Departments.  The recursive queries that find who reaches whom keep what *)
(* they have found twice (UNION ALL): they end because parents make no      *)
(* cycle.                                                                   *)

(* Every set of departments has one whose parent is not in it.              *)
Forest ==
  \A S \in SUBSET There(dept) : S # {} => \E d \in S : dept[d].parent \notin S

(* A step gives no department another parent, and a new one a parent that   *)
(* is there, or none.                                                       *)
ParentsKept ==
  \A d \in There(dept)' :
    \/ d \in There(dept) /\ dept'[d].parent = dept[d].parent
    \/ d \notin There(dept) /\ dept'[d].parent \in There(dept) \cup {NoDept}

LEMMA AccountParents ==
  ASSUME NEW a, AccountRequest(a)
  PROVE  dept' = dept
<1>1. ASSUME NEW u, SuspendUser(a, u) \/ ActivateUser(a, u) \/ DeleteInactiveUser(a, u)
      PROVE  dept' = dept
  BY <1>1 DEF SuspendUser, ActivateUser, DeleteInactiveUser, Request, data
<1>2. ASSUME NEW u, NEW x, SetUserDvsn(a, u, x) \/ SetUserEtlFlag(a, u, x)
      PROVE  dept' = dept
  BY <1>2 DEF SetUserDvsn, SetUserEtlFlag, Request, data
<1>3. ASSUME NEW u, NEW d, NEW dvsn, NEW etl, NEW change, Management(a, u, d, dvsn, etl, change)
      PROVE  dept' = dept
  BY <1>3 DEF Management, Request, data
<1>4. ASSUME NEW v, NEW d, NEW dvsn, NEW etl, NEW p, NEW r, InviteUserByEmail(a, v, d, dvsn, etl, p, r)
      PROVE  dept' = dept
  BY <1>4 DEF InviteUserByEmail, Request, data, people
<1> QED BY <1>1, <1>2, <1>3, <1>4 DEF AccountRequest

LEMMA RoleParents ==
  ASSUME NEW a, RoleRequest(a)
  PROVE  dept' = dept
<1>1. ASSUME NEW r, NEW d, NEW l, CreateCustomRole(a, r, d, l) PROVE dept' = dept
  BY <1>1 DEF CreateCustomRole, Request, data, people, Unchanged
<1>2. ASSUME NEW r, NEW l, UpdateCustomRole(a, r, l) PROVE dept' = dept
  BY <1>2 DEF UpdateCustomRole, Request, data, people, Unchanged
<1>3. ASSUME NEW r, DeleteCustomRole(a, r) PROVE dept' = dept
  BY <1>3 DEF DeleteCustomRole, Request, data, people, Unchanged
<1> QED BY <1>1, <1>2, <1>3 DEF RoleRequest

LEMMA ProjectParents ==
  ASSUME NEW a, ProjectRequest(a)
  PROVE  dept' = dept
<1>1. ASSUME NEW p, NEW d, NEW r, NEW guest, NEW inside, CreateProject(a, p, d, r, guest, inside)
      PROVE  dept' = dept
  BY <1>1 DEF CreateProject, Request, data, people, Unchanged
<1>2. ASSUME NEW p, NEW active, SetProjectActive(a, p, active) PROVE dept' = dept
  BY <1>2 DEF SetProjectActive, Request, data, people, Unchanged
<1>3. ASSUME NEW p, PurgeInactiveProject(a, p) PROVE dept' = dept
  BY <1>3 DEF PurgeInactiveProject, Request, data, people
<1>4. ASSUME NEW p, NEW u, RemoveMember(a, p, u) PROVE dept' = dept
  BY <1>4 DEF RemoveMember, Request, data, people, Unchanged
<1>5. ASSUME NEW p, NEW u, NEW r, UpdateMemberRole(a, p, u, r) PROVE dept' = dept
  BY <1>5 DEF UpdateMemberRole, Request, data, people, Unchanged
<1>6. ASSUME NEW p, NEW u, NEW r, NEW inside, AddMember(a, p, u, r, inside) PROVE dept' = dept
  BY <1>6 DEF AddMember, Request, data, people, Unchanged
<1>7. ASSUME NEW n, CancelProjectInvite(a, n) PROVE dept' = dept
  BY <1>7 DEF CancelProjectInvite, Request, data, people, Unchanged
<1> QED BY <1>1, <1>2, <1>3, <1>4, <1>5, <1>6, <1>7 DEF ProjectRequest

LEMMA OwnParents ==
  ASSUME NEW a, OwnRequest(a)
  PROVE  dept' = dept
<1>1. ASSUME NEW x, NEW p, RegisterAsset(a, x, p) PROVE dept' = dept
  BY <1>1 DEF RegisterAsset, Request, data, people, Nobody
<1>2. ASSUME NEW x, DeleteAsset(a, x) PROVE dept' = dept
  BY <1>2 DEF DeleteAsset, Request, data, people, Nobody
<1>3. ASSUME NEW n, AcceptProjectInvite(n) \/ RejectProjectInvite(n) PROVE dept' = dept
  BY <1>3 DEF AcceptProjectInvite, RejectProjectInvite, Request, data, people, Unchanged
<1>4. CASE SignUp(a)
  BY <1>4 DEF SignUp, Request, data
<1> QED BY <1>1, <1>2, <1>3, <1>4 DEF OwnRequest

LEMMA TransferParents ==
  ASSUME TypeOK, NEW a, TransferRequest(a)
  PROVE  ParentsKept
<1>1. ASSUME NEW x, NEW from, NEW to, TransferEtl(a, x, from, to) \/ TransferBoard(a, x, from, to)
      PROVE  dept' = dept
  BY <1>1 DEF TransferEtl, TransferBoard, Request, data, people, Nobody
<1>2. ASSUME NEW x, NEW from, NEW to, NEW moved, TransferTable(a, x, from, to, moved)
      PROVE  dept' = dept
  BY <1>2 DEF TransferTable, Request, data
<1>3. ASSUME NEW d \in Dept, NEW from, NEW to, TransferDept(a, d, from, to)
      PROVE  ParentsKept
  <2>1. \/ dept' = dept
        \/ dept[d].at = "there" /\ dept' = [dept EXCEPT ![d].owner = to]
    BY <1>3 DEF TransferDept, Request, data
  <2> QED BY <2>1 DEF ParentsKept, There, TypeOK, Department
<1>4. ASSUME NEW p, NEW to, TransferProject(a, p, to) PROVE dept' = dept
  BY <1>4 DEF TransferProject, Request, data, people
<1>5. ASSUME NEW p, NEW v, NEW from, NEW to, TransferVoucher(a, p, v, from, to) PROVE dept' = dept
  BY <1>5 DEF TransferVoucher, Request, data, people
<1>6. ASSUME NEW r, NEW to, TransferRole(a, r, to) PROVE dept' = dept
  BY <1>6 DEF TransferRole, Request, data, people
<1>7. dept' = dept => ParentsKept
  BY DEF ParentsKept, There
<1>8. There(dept) \subseteq Dept
  BY DEF There, TypeOK
<1> QED BY <1>1, <1>2, <1>3, <1>4, <1>5, <1>6, <1>7, <1>8 DEF TransferRequest

LEMMA DepartmentParents ==
  ASSUME TypeOK, NEW a, DepartmentRequest(a)
  PROVE  ParentsKept
<1>1. dept' = dept => ParentsKept
  BY DEF ParentsKept, There
<1>2. ASSUME NEW d \in Dept, NEW parent \in There(dept) \cup {NoDept}, CreateDepartment(a, d, parent)
      PROVE  ParentsKept
  <2> DEFINE new == [at |-> "there", use |-> TRUE, parent |-> parent, owner |-> a]
  <2>1. dept' = dept \/ (dept[d].at = "new" /\ dept' = [dept EXCEPT ![d] = new])
    BY <1>2 DEF CreateDepartment, Request, data
  <2>2. CASE dept[d].at = "new" /\ dept' = [dept EXCEPT ![d] = new]
    <3>1. \A e \in Dept : dept'[e] = IF e = d THEN new ELSE dept[e]
      BY <2>2 DEF TypeOK
    <3>2. DOMAIN dept = Dept /\ DOMAIN dept' = Dept /\ d \notin There(dept) /\ new.parent = parent
      BY <2>2 DEF TypeOK, There
    <3> HIDE DEF new
    <3> QED BY <3>1, <3>2 DEF ParentsKept, There
  <2> QED BY <1>1, <2>1, <2>2
<1>3. ASSUME NEW d \in Dept, DeleteDepartment(a, d)
      PROVE  ParentsKept
  <2>1. dept' = dept \/ dept' = [dept EXCEPT ![d].at = "gone"]
    BY <1>3 DEF DeleteDepartment, Request, data
  <2>2. CASE dept' = [dept EXCEPT ![d].at = "gone"]
    <3>1. dept'[d].at = "gone" /\ \A e \in Dept \ {d} : dept'[e] = dept[e]
      BY <2>2 DEF TypeOK, Department
    <3>2. DOMAIN dept = Dept /\ DOMAIN dept' = Dept
      BY <2>2 DEF TypeOK
    <3> QED BY <3>1, <3>2 DEF ParentsKept, There
  <2> QED BY <1>1, <2>1, <2>2
<1>4. ASSUME NEW d \in Dept, NEW use, NEW to, UpdateDepartment(a, d, use, to)
      PROVE  ParentsKept
  <2>1. dept' = dept \/ dept' = [dept EXCEPT ![d].use = use]
    BY <1>4 DEF UpdateDepartment, Request, data
  <2>2. CASE dept' = [dept EXCEPT ![d].use = use]
    <3>1. dept'[d].at = dept[d].at /\ dept'[d].parent = dept[d].parent
      BY <2>2 DEF TypeOK, Department
    <3>2. /\ DOMAIN dept = Dept /\ DOMAIN dept' = Dept
          /\ \A e \in Dept \ {d} : dept'[e] = dept[e]
      BY <2>2 DEF TypeOK
    <3> QED BY <3>1, <3>2 DEF ParentsKept, There
  <2> QED BY <1>1, <2>1, <2>2
<1>5. There(dept) \subseteq Dept
  BY DEF There, TypeOK
<1> QED BY <1>2, <1>3, <1>4, <1>5 DEF DepartmentRequest

LEMMA ForestStep ==
  ASSUME IInv, Forest, [Next]_vars
  PROVE  Forest'
<1>1. ParentsKept
  <2>1. dept' = dept => ParentsKept
    BY DEF ParentsKept, There
  <2>2. (Abandon \/ UNCHANGED vars) => dept' = dept
    BY DEF Abandon, vars, data
  <2> QED BY <2>1, <2>2, AccountParents, RoleParents, ProjectParents, OwnParents, TransferParents,
             DepartmentParents DEF Next, IInv
<1>2. \A d \in There(dept) : dept[d].parent \in There(dept) \cup {NoDept}
  BY DEF IInv, References
<1>3. There(dept)' \subseteq Dept
  <2> TypeOK'
    BY StepInvariance DEF IInv
  <2> QED BY DEF There, TypeOK
<1> SUFFICES ASSUME NEW S \in SUBSET There(dept)', S # {},
                    \A d \in S : dept'[d].parent \in S
             PROVE  FALSE
  BY DEF Forest
<1> DEFINE O == S \cap There(dept)
<1>4. NoDept \notin S
  BY <1>3, OrgAssumption
<1>5. CASE O = {}
  BY <1>1, <1>4, <1>5 DEF ParentsKept
<1>6. CASE O # {}
  <2>1. PICK d \in O : dept[d].parent \notin O
    BY <1>6 DEF Forest
  <2>2. dept'[d].parent = dept[d].parent
    BY <1>1, <2>1 DEF ParentsKept
  <2> QED BY <1>2, <1>4, <2>1, <2>2
<1> QED BY <1>5, <1>6

(* A department in a tree is its root, or its parent is in the tree.        *)
LEMMA ParentInTree ==
  ASSUME NEW d, NEW e \in Tree(d), e # d
  PROVE  dept[e].parent \in Tree(d)
<1> SUFFICES ASSUME dept[e].parent \notin Tree(d) PROVE FALSE
  OBVIOUS
<1> DEFINE S == Tree(d) \ {e}
<1>1. S \in SUBSET There(dept) /\ {d} \cap There(dept) \subseteq S
  BY TreeRoot DEF Tree
<1>2. Closed(S)
  <2>1. Closed(Tree(d))
    BY TreesNest
  <2> QED BY <2>1 DEF Closed
<1>3. e \in S
  <2> HIDE DEF S
  <2> QED BY <1>1, <1>2 DEF Tree
<1> QED BY <1>3

(* Of two departments at most one is above the other.                       *)
LEMMA OneAbove ==
  ASSUME Forest, NEW d \in There(dept), NEW e \in Tree(d), d \in Tree(e)
  PROVE  d = e
<1> SUFFICES ASSUME d # e PROVE FALSE
  OBVIOUS
<1> DEFINE S == {x \in Tree(d) : d \in Tree(x)}
<1>1. S \in SUBSET There(dept) /\ d \in S
  BY TreeRoot DEF Tree
<1>2. \A x \in S : dept[x].parent \in S
  <2> SUFFICES ASSUME NEW x \in Tree(d), d \in Tree(x)
               PROVE  dept[x].parent \in Tree(d) /\ d \in Tree(dept[x].parent)
    OBVIOUS
  <2>1. dept[x].parent \in Tree(d)
    <3>1. CASE x # d
      BY <3>1, ParentInTree
    <3>2. CASE x = d
      BY <3>2, ParentInTree, TreesNest
    <3> QED BY <3>1, <3>2
  <2>2. x \in Tree(dept[x].parent)
    <3>1. Closed(Tree(dept[x].parent)) /\ dept[x].parent \in Tree(dept[x].parent)
      BY <2>1, TreesNest, TreeRoot DEF Tree
    <3> QED BY <3>1 DEF Closed, Tree
  <2> QED BY <2>1, <2>2, TreesNest
<1>3. \E x \in S : dept[x].parent \notin S
  <2> HIDE DEF S
  <2> QED BY <1>1 DEF Forest
<1> QED BY <1>2, <1>3

(* Where departments make no cycle, no request ever makes one, so that the  *)
(* recursive queries end; and no two departments are above one another, so  *)
(* that no two administrators manage each other's department                *)
(* (create_department, update_department_in_org_settings,                   *)
(* _assert_target_in_managed_tree).                                         *)
THEOREM DepartmentsStayTrees ==
  Spec /\ Forest => [](Forest /\ \A d, e \in Dept : Manages(d, e) /\ Manages(e, d) => d = e)
<1>1. IInv /\ Forest /\ [Next]_vars => Forest'
  BY ForestStep
<1>2. Forest => \A d, e \in Dept : Manages(d, e) /\ Manages(e, d) => d = e
  BY OneAbove DEF Manages, Tree
<1> QED BY <1>1, <1>2, Invariance, PTL DEF Spec

=============================================================================
