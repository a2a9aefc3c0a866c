---------------------------- MODULE JobExecution ----------------------------
(***************************************************************************)
(* What a job queue promises about one execution of each job: a job that   *)
(* was submitted waits, is taken by one runner at most once, and is then   *)
(* over for good.  A run may also start at the submission, and a waiting   *)
(* job may be withdrawn.  Runners can end several jobs at once: that is    *)
(* what the death of their process does.                                   *)
(***************************************************************************)

CONSTANT Job

VARIABLE phase

Phase == {"new", "waiting", "taken", "over"}

Init == phase = [j \in Job |-> "new"]

Submit(j) ==
  /\ phase[j] = "new"
  /\ phase' \in {[phase EXCEPT ![j] = p] : p \in {"waiting", "taken"}}

Take(j) ==
  /\ phase[j] = "waiting"
  /\ phase' = [phase EXCEPT ![j] = "taken"]

Withdraw(j) ==
  /\ phase[j] = "waiting"
  /\ phase' = [phase EXCEPT ![j] = "over"]

End(S) ==
  /\ \A j \in S : phase[j] = "taken"
  /\ phase' = [j \in Job |-> IF j \in S THEN "over" ELSE phase[j]]

Next ==
  \/ \E j \in Job : Submit(j) \/ Take(j) \/ Withdraw(j)
  \/ \E S \in SUBSET Job : End(S)

Spec == Init /\ [][Next]_phase
=============================================================================
