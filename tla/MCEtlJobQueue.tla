---------------------------- MODULE MCEtlJobQueue ----------------------------
(* Instances of the job queue for TLC. *)
EXTENDS EtlJobQueue, TLC

Symmetry == Permutations(Job)
=============================================================================
