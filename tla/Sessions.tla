------------------------------- MODULE Sessions -------------------------------
(***************************************************************************)
(* Logging in with a password and a code by mail, the session that begins  *)
(* and the tokens given out for it (auth_server/service.py).  Tokens are    *)
(* not told apart: whoever calls with a session holds the last one.  Time   *)
(* does not pass: a code or a session ends by what is done.                 *)
(***************************************************************************)
EXTENDS Desk

Elsewhere == UNCHANGED <<tables, loads, saving, caching, boards>>

Active(u) == account[u].at = "there" /\ account[u].active
Participant(p, u) == Grants[p][u] # {}

(* POST /auth/create-org: an address that nobody has; the account is the    *)
(* super administrator of a new department.                                 *)
CreateOrg(u) ==
  Request("session", <<"create org", u>>, account[u].at = "new", {},
    /\ account[u].at = "new"
    /\ account' = [account EXCEPT ![u].at = "there", ![u].active = TRUE]
    /\ UNCHANGED <<session, ending, left>> /\ Elsewhere)

(* POST /auth/login: the password is right, a code goes out by mail.  The   *)
(* code of an earlier login is void then.                                   *)
LoginSendCode(u, pw) ==
  Request("session", <<"login", u, pw>>, Active(u) /\ account[u].pw = pw, {},
    /\ account' = [account EXCEPT ![u].code = TRUE]
    /\ UNCHANGED <<session, ending, left>> /\ Elsewhere)

Begun(u) == [at |-> "open", of |-> u, pw |-> account[u].pw, claim |-> NoProject]

(* POST /auth/login/verify: the code is used up and a session begins.       *)
VerifyLoginComplete(s, u) ==
  Request("session", <<"verify", s, u>>, Active(u) /\ account[u].code, {},
    /\ session[s].at = "new"
    /\ account' = [account EXCEPT ![u].code = FALSE]
    /\ session' = [session EXCEPT ![s] = Begun(u)]
    /\ UNCHANGED <<ending, left>> /\ Elsewhere)

(* New tokens and new times of expiry, whatever the row is by then.         *)
GiveTokens(s, claim) ==
  /\ session' = [session EXCEPT ![s].at = "open", ![s].claim = claim]
  /\ UNCHANGED <<account, ending, left>> /\ Elsewhere

(* POST /auth/refresh keeps the project only while it can be chosen.        *)
StillClaims(s) ==
  IF session[s].claim # NoProject /\ project[session[s].claim].active
     /\ Participant(session[s].claim, session[s].of)
  THEN session[s].claim ELSE NoProject
CanRefreshEnded(s) == session[s].of # NoUser /\ Active(session[s].of)
CanRefresh(s) == Open(s) /\ Active(session[s].of)
RefreshSessionTokens(s, claim) ==
  Request("session", <<"refresh", s, claim>>, CanRefresh(s) /\ claim = StillClaims(s), {s},
    GiveTokens(s, claim))

(* POST /projects/{id}/select                                               *)
RotateWithProject(s, p) ==
  Request("session", <<"rotate", s, p>>,
    Bound(s) /\ Participant(p, session[s].of) /\ project[p].active, {s},
    GiveTokens(s, p))

(* GET /auth/me, for a claim that cannot be kept.                           *)
RotateClearProject(s) ==
  Request("session", <<"clear", s>>,
    Bound(s) /\ session[s].claim # NoProject /\ StillClaims(s) = NoProject, {s},
    GiveTokens(s, NoProject))

-----------------------------------------------------------------------------
(* The end of sessions.                                                     *)

Ended(ss) == [s \in Session |-> IF s \in ss /\ Open(s) THEN [session[s] EXCEPT !.at = "ended"] ELSE session[s]]

(* POST /auth/logout, for suspended accounts too.                           *)
LogoutOneSession(s) ==
  Request("session", <<"logout", s>>, Open(s), {},
    /\ session' = Ended({s})
    /\ UNCHANGED <<account, ending, left>> /\ Elsewhere)

SessionsWithProject(u) == {s \in Session : session[s].of = u /\ session[s].claim # NoProject}
SessionsOf(u) == {s \in Session : session[s].of = u}

(* PATCH /users/{id}/suspend: account and sessions in one transaction.      *)
SuspendAccount(s, u) ==
  Request("session", <<"suspend", s, u>>, Acts(s, OrgAdmin) /\ u \notin OrgAdmin /\ account[u].at = "there", {},
    /\ account' = [account EXCEPT ![u].active = FALSE]
    /\ session' = Ended(SessionsOf(u))
    /\ UNCHANGED <<ending, left>> /\ Elsewhere)

ActivateAccount(s, u) ==
  Request("session", <<"activate", s, u>>, Acts(s, OrgAdmin) /\ u \notin OrgAdmin /\ account[u].at = "there", {},
    /\ account' = [account EXCEPT ![u].active = TRUE]
    /\ UNCHANGED <<session, ending, left>> /\ Elsewhere)

(* PATCH /auth/password commits the password; the sessions end in another   *)
(* transaction, which may fail.                                             *)
ChangePassword(s, pw) ==
  Request("session", <<"password", s, pw>>, Bound(s) /\ account[session[s].of].pw = pw, {},
    LET u == session[s].of
    IN /\ account[u].pw < MaxPasswords
       /\ account' = [account EXCEPT ![u].pw = @ + 1]
       /\ ending' = [ending EXCEPT ![u] = @ + 1]
       /\ UNCHANGED <<session, left>> /\ Elsewhere)

ToEndAgain(u) == TRUE
ToEnd(u) == ending[u] > 0

InvalidateAllSessions(u) ==
  /\ Quietly("session") /\ ToEnd(u)
  /\ session' = Ended(SessionsOf(u))
  /\ ending' = [ending EXCEPT ![u] = @ - 1]
  /\ left' = left \ {u}
  /\ UNCHANGED account /\ Elsewhere

InvalidateFails(u) ==
  /\ Quietly("session") /\ ToEnd(u)
  /\ ending' = [ending EXCEPT ![u] = @ - 1]
  /\ left' = left \cup {u}
  /\ UNCHANGED <<account, session>> /\ Elsewhere

=============================================================================
