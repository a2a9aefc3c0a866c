----------------------------- MODULE MCFileBatch -----------------------------
(* Instances of the folder batch for TLC: two files of one stamp and a later *)
(* one, which may hold what the first holds or something that is not loaded. *)
EXTENDS FileBatch, TLC

CONSTANTS f1, f2, f3, k1, k2, x, y

TwoOfAStamp == f1 :> 1 @@ f2 :> 1 @@ f3 :> 2
OneRepeats == f1 :> {x} @@ f2 :> {x} @@ f3 :> {y}
AnyKindLater == x :> {"data"} @@ y :> {"data", "empty", "bad"}
Overlapping == x :> {k1} @@ y :> {k1, k2}

Symmetry == Permutations(Executor)
=============================================================================
