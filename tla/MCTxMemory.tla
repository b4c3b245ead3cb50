------------------------------ MODULE MCTxMemory ------------------------------
(* Small instances of TxMemory for TLC.                                     *)
EXTENDS TxMemory, TLC

(* Threads and cells are alike.                                             *)
Symmetry == Permutations(Thread) \union Permutations(Cell)
=============================================================================
