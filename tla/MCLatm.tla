------------------------------- MODULE MCLatm -------------------------------
(* Small instances of Latm for TLC.                                        *)
EXTENDS Latm, FiniteSets, TLC

(* Threads and user mutexes are alike.                                     *)
Symmetry == Permutations(Thread) \union Permutations(Mutex)

(* The bound of the states explored: a transaction that declared both      *)
(* mutexes beside another that declared one is the largest case.           *)
AtMostThreeDeclared ==
  Cardinality(tmConflictingLocks) +
  Cardinality({p \in Thread \X Mutex : p[2] \in txConflictingLocks[p[1]]})
    <= 3

(* Deferred update, where sections under the in-flight mutex are steps of  *)
(* their own, has four more bounds; direct update goes beyond all of them. *)
AtMostOneIrrevocable ==
  ~direct => Cardinality({t \in Thread : Irrevocable(t)}) <= 1

AtMostOneTmConflict == ~direct => Cardinality(tmConflictingLocks) <= 1

AtMostOneObtained ==
  ~direct =>
    Cardinality({p \in Thread \X Mutex : p[2] \in obtainedLocks[p[1]]}) <= 1

TrylockOnlyOutside ==
  ~direct => \A t \in Thread : call[t].try => pc[t] = "out"
=============================================================================
