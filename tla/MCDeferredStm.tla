--------------------------- MODULE MCDeferredStm ---------------------------
(* Small instances of DeferredStm for TLC.                                  *)
EXTENDS DeferredStm, TLC

CONSTANTS t1, t2, t3, x1, x2, b1, b2

(* Inserting x1 makes the filter answer for x2 as well, not conversely.     *)
HashFalsePositive == (x1 :> {b1, b2}) @@ (x2 :> {b2})

(* Every object has both bits: the filter answers for all or for none.      *)
HashCollide == [x \in Obj |-> {b1, b2}]

(* Values are only copied and compared.                                     *)
ValueSymmetry == Permutations(Val)
=============================================================================
