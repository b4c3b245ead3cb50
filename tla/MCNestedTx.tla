----------------------------- MODULE MCNestedTx -----------------------------
(* Small instances of NestedTx for TLC.                                     *)
EXTENDS NestedTx, TLC

CONSTANTS x1, x2

(* Threads are alike, and so are objects.                                   *)
Symmetry == Permutations(Thread) \union Permutations(Obj)
=============================================================================
