-------------------------- MODULE MCThreadRegistry --------------------------
(* Small instances of ThreadRegistry for TLC.                               *)
EXTENDS ThreadRegistry, TLC

(* No thread is special: the order of the registry is that of the calls.    *)
ThreadSymmetry == Permutations(Thread)
=============================================================================
