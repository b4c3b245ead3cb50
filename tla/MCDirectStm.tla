----------------------------- MODULE MCDirectStm -----------------------------
(* Small instances of DirectStm for TLC.                                    *)
EXTENDS DirectStm, TLC

(* Threads, objects and values are alike.                                   *)
Symmetry ==
  Permutations(Thread) \union Permutations(Obj) \union Permutations(Val)

(* Bound: what follows after an object was taken from its owner is not      *)
(* explored (direct_stolen shows that it happens).                          *)
UntilRobbed == robbed = {}
=============================================================================
