------------------------------- MODULE MCDbLoad -------------------------------
(* Instances of the loads of one database table for TLC. *)
EXTENDS DbLoad, TLC

(* Two writes in a row get the same stamp. *)
PairStamps == [v \in Version |-> (v + 1) \div 2]

Symmetry == Permutations(Row) \cup Permutations(EtlLoad)
=============================================================================
