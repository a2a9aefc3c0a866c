------------------------------ MODULE MCBatchRun ------------------------------
(* Instances of the batch job for TLC. *)
EXTENDS BatchRun, TLC

Symmetry == Permutations(Executor)

(* Bound: of what the properties excuse (a claim given back, a disagreement *)
(* with the scheduler, a failure), no step follows a second one.            *)
OneExcuse ==
  /\ ~(released /\ (raced \/ forgotten))
  /\ ~((released \/ raced \/ forgotten) /\ crashes + faults = MaxFault)
=============================================================================
