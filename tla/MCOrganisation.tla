---------------------------- MODULE MCOrganisation ----------------------------
(* A department and one below it.  s is a super administrator above, a an   *)
(* administrator of the lower one, u a user of it with the ETL.             *)
EXTENDS Organisation, TLC

CONSTANTS s, a, u, v, top, low, spare, base, r, r2, p, q, e, t, b, all, few

Kinds == (e :> "etl") @@ (t :> "table") @@ (b :> "board")
Fill == {<<e, t>>}

Person(dvsn, d, etl) == [at |-> "there", dvsn |-> dvsn, dept |-> d, active |-> TRUE, etl |-> etl]
Stranger == [at |-> "new", dvsn |-> "u", dept |-> Dev, active |-> FALSE, etl |-> FALSE]
Unit(parent, owner) == [at |-> "there", use |-> TRUE, parent |-> parent, owner |-> owner]
Running(active) == [at |-> "there", active |-> active, dept |-> low, owner |-> a]
Made(owner, in) == [at |-> "there", owner |-> owner, project |-> in]

(* A project with its template, a table with the ETL registration that      *)
(* fills it, both of u.                                                     *)
Office1 ==
  [user |-> (s :> Person("sa", top, FALSE)) @@ (a :> Person("a", low, FALSE))
            @@ (u :> Person("u", low, TRUE)) @@ (v :> Stranger),
   dept |-> (Dev :> Unit(NoDept, NoUser)) @@ (top :> Unit(NoDept, s)) @@ (low :> Unit(top, s))
            @@ (spare :> [Unit(NoDept, NoUser) EXCEPT !.at = "new"]),
   role |-> (base :> [at |-> "there", dept |-> NoDept, owner |-> NoUser, list |-> all])
            @@ (r :> [at |-> "there", dept |-> low, owner |-> a, list |-> few])
            @@ (r2 :> [at |-> "new", dept |-> NoDept, owner |-> NoUser, list |-> few]),
   project |-> (p :> Running(TRUE))
               @@ (q :> [at |-> "new", active |-> FALSE, dept |-> low, owner |-> NoUser]),
   member |-> [x \in Project |-> [w \in User |->
      CASE x = p /\ w = a -> Member(base, a) [] x = p /\ w = u -> Member(r, a) [] OTHER -> NoPlace]],
   asset |-> (e :> Made(u, NoProject)) @@ (t :> Made(u, p))
             @@ (b :> [Made(NoUser, NoProject) EXCEPT !.at = "new"]),
   note |-> {}, code |-> [w \in User |-> NoCode], etlUp |-> TRUE]

(* s is a developer instead, and the ETL database cannot be reached.        *)
Office2 == [Office1 EXCEPT !.user[s] = Person("sa_dev", Dev, FALSE), !.etlUp = FALSE]

(* u is a second administrator, the creator of nothing, who has invited s   *)
(* into the project, and v by mail; nobody has the template; an inactive    *)
(* project with a board; a new department.                                  *)
Office3 ==
  [Office1 EXCEPT !.user[u] = Person("a", low, FALSE), !.user[a].etl = TRUE,
                  !.dept[spare] = Unit(top, s),
                  !.project[q] = Running(FALSE),
                  !.member = [@ EXCEPT ![p][u] = NoPlace, ![q][u] = Member(base, a)],
                  !.asset = (e :> Made(a, NoProject)) @@ (t :> Made(a, p)) @@ (b :> Made(a, q)),
                  !.note = {[to |-> s, project |-> p, role |-> base, by |-> u]},
                  !.code[v] = [at |-> "open", by |-> u, dept |-> low, dvsn |-> "u", etl |-> FALSE,
                               project |-> p, role |-> r]]

(* v is the operator of the project, u is suspended.                        *)
Office4 ==
  [Office1 EXCEPT !.user[v] = Person("o", low, FALSE), !.user[u].active = FALSE,
                  !.member[p][v] = Member(base, a),
                  !.asset = (e :> Made(a, NoProject)) @@ (t :> Made(v, p)) @@ (b :> Made(v, p)),
                  !.user[a].etl = TRUE]

Four == {Office1, Office2, Office3, Office4}

Changes == {<< <<low>>, <<>>, <<>> >>, << <<top>>, <<"a">>, <<>> >>, << <<>>, <<"u">>, <<>> >>,
            << <<>>, <<"sa">>, <<>> >>, << <<>>, <<>>, <<FALSE>> >>, << <<>>, <<"o">>, <<TRUE>> >>}
Invitations == {<<"sa", TRUE, NoProject, NoRole>>, <<"u", FALSE, p, r>>}
=============================================================================
