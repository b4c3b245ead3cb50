------------------------ MODULE DeferredStmAtomicity ------------------------
(* Theorems about what transactions of DeferredStm observe and install, up  *)
(* to its refinement of AtomicStore, for every value of its constants.      *)
EXTENDS DeferredStmProofs


-----------------------------------------------------------------------------
(* The committed state.                                                     *)

(* Two threads never copy at once.                                          *)
LEMMA CopierUnique ==
  ASSUME LockInv, NEW t \in Thread, NEW u \in Thread,
         pc[t] = "writeBack", pc[u] = "writeBack"
  PROVE  t = u
BY DEF LockInv, HoldsAll

LEMMA StoreOfCopier ==
  ASSUME LockInv, NEW x \in Obj, NEW t \in Copying(x)
  PROVE  Store[x] = writeList[t][x]
<1>1. \A u \in Copying(x) : u = t
  BY CopierUnique DEF Copying
<1>2. QED
  BY <1>1 DEF Store

LEMMA StoreOfCopierNext ==
  ASSUME LockInv', NEW x \in Obj, NEW t \in Copying(x)'
  PROVE  Store'[x] = writeList'[t][x]
<1>1. \A u \in Copying(x)' : u = t
  BY DEF Copying, LockInv, HoldsAll
<1>2. QED
  BY <1>1 DEF Store

(* Nothing but the write-back touches memory, and nothing but the decision  *)
(* to commit adds to what is being copied.                                  *)
QuietStep ==
  /\ mem' = mem
  /\ \A x \in Obj : Copying(x)' = Copying(x)
  /\ \A x \in Obj, u \in Thread :
       u \in Copying(x) => writeList'[u][x] = writeList[u][x]

LEMMA QuietKeepsStore ==
  ASSUME LockInv, LockInv', QuietStep
  PROVE  Store' = Store
<1>1. ASSUME NEW x \in Obj
      PROVE  Store'[x] = Store[x]
  <2>1. CASE Copying(x) = {}
    BY <2>1 DEF QuietStep, Store
  <2>2. ASSUME NEW t \in Copying(x)
        PROVE  Store'[x] = Store[x]
    BY <2>2, StoreOfCopier, StoreOfCopierNext DEF QuietStep, Copying
  <2>3. QED
    BY <2>1, <2>2
<1>2. QED
  BY <1>1 DEF Store

(* Copying an object leaves the committed state as it is.                   *)
LEMMA WriteBackKeepsStore ==
  ASSUME TypeOK, LockInv, LockInv', NEW t \in Thread, NEW x \in Obj,
         WriteBack(t, x)
  PROVE  Store' = Store
<1> USE TypeOK DEF TypeOK
<1>1. ASSUME NEW y \in Obj
      PROVE  Store'[y] = Store[y]
  <2>1. CASE y = x
    <3>1. t \in Copying(x) /\ mem'[x] = writeList[t][x]
      BY DEF WriteBack, Copying
    <3>2. Copying(x)' = {}
      <4>1. ASSUME NEW u \in Thread, u \in Copying(x)'
            PROVE  FALSE
        <5>1. u = t
          BY <4>1, CopierUnique DEF Copying, WriteBack
        <5>2. QED
          BY <4>1, <5>1 DEF Copying, WriteBack, Writes
      <4>2. QED
        BY <4>1 DEF Copying
    <3>3. QED
      BY <2>1, <3>1, <3>2, StoreOfCopier DEF Store
  <2>2. CASE y # x
    <3>1. Copying(y)' = Copying(y) /\ mem'[y] = mem[y]
      BY <2>2 DEF WriteBack, Copying, Writes
    <3>2. CASE Copying(y) = {}
      BY <3>1, <3>2 DEF Store
    <3>3. ASSUME NEW u \in Copying(y)
          PROVE  Store'[y] = Store[y]
      <4>1. writeList'[u][y] = writeList[u][y]
        BY <2>2 DEF WriteBack, Copying
      <4>2. QED
        BY <3>1, <4>1, StoreOfCopier, StoreOfCopierNext
    <3>4. QED
      BY <3>2, <3>3
  <2>3. QED
    BY <2>1, <2>2
<1>2. QED
  BY <1>1 DEF Store

(* The decision to commit installs the whole write list.                    *)
Installed(t) == [x \in Obj |->
  IF x \in Writes(t) THEN writeList[t][x] ELSE Store[x]]

LEMMA CommitInstalls ==
  ASSUME TypeOK, LockInv, LockInv', NEW t \in Thread, Commit(t)
  PROVE  Store' = Installed(t)
<1> USE TypeOK DEF TypeOK
<1>1. \A u \in Thread : pc[u] # "writeBack"
  BY DEF Commit, GoTo, LockInv, HoldsAll
<1>2. \A x \in Obj : Copying(x) = {}
  BY <1>1 DEF Copying
<1>3. ASSUME NEW x \in Obj
      PROVE  Store'[x] = Installed(t)[x]
  <2>1. CASE x \in Writes(t)
    <3>1. t \in Copying(x)' /\ writeList' = writeList
      BY <2>1 DEF Commit, GoTo, Copying, Writes
    <3>2. QED
      BY <2>1, <3>1, StoreOfCopierNext DEF Installed
  <2>2. CASE x \notin Writes(t)
    <3>1. Copying(x)' = {} /\ mem' = mem
      BY <1>1, <2>2 DEF Commit, GoTo, Copying, Writes
    <3>2. QED
      BY <1>2, <2>2, <3>1 DEF Installed, Store
  <2>3. QED
    BY <2>1, <2>2
<1>4. QED
  BY <1>3 DEF Store, Installed

(* Every other step is quiet.                                               *)
LEMMA OtherStepsQuiet ==
  ASSUME TypeOK, [Next]_vars,
         \A t \in Thread : ~Commit(t) /\ \A x \in Obj : ~WriteBack(t, x)
  PROVE  QuietStep
<1> USE TypeOK DEF TypeOK, QuietStep, Copying, Writes, GoTo, ClearContext
<1>1. ASSUME NEW t \in Thread, Construct(t)
      PROVE  QuietStep
  BY <1>1 DEF Construct
<1>2. ASSUME NEW t \in Thread, RestartInFlight(t)
      PROVE  QuietStep
  BY <1>2 DEF RestartInFlight
<1>3. ASSUME NEW t \in Thread, Restart(t)
      PROVE  QuietStep
  BY <1>3 DEF Restart
<1>4. ASSUME NEW t \in Thread, GiveUp(t)
      PROVE  QuietStep
  BY <1>4 DEF GiveUp
<1>5. ASSUME NEW t \in Thread, NEW x \in Obj, ReadCovered(t, x)
      PROVE  QuietStep
  BY <1>5 DEF ReadCovered
<1>6. ASSUME NEW t \in Thread, NEW x \in Obj, ReadCall(t, x)
      PROVE  QuietStep
  BY <1>6 DEF ReadCall
<1>7. ASSUME NEW t \in Thread, ReadInsert(t)
      PROVE  QuietStep
  BY <1>7 DEF ReadInsert
<1>8. ASSUME NEW t \in Thread, NEW x \in Obj, Dereference(t, x)
      PROVE  QuietStep
  BY <1>8 DEF Dereference
<1>9. ASSUME NEW t \in Thread, NEW x \in Obj, NEW v \in Val, Assign(t, x, v)
      PROVE  QuietStep
  BY <1>9 DEF Assign
<1>10. ASSUME NEW t \in Thread, NEW x \in Obj, WriteCall(t, x)
       PROVE  QuietStep
  BY <1>10 DEF WriteCall
<1>11. ASSUME NEW t \in Thread, NEW v \in Val, WriteInsert(t, v)
       PROVE  QuietStep
  BY <1>11 DEF WriteInsert
<1>12. ASSUME NEW t \in Thread, MakeIrrevocable(t)
       PROVE  QuietStep
  BY <1>12 DEF MakeIrrevocable
<1>13. ASSUME NEW t \in Thread, AbortOnFlag(t)
       PROVE  QuietStep
  BY <1>13 DEF AbortOnFlag
<1>14. ASSUME NEW t \in Thread, Unwind(t)
       PROVE  QuietStep
  BY <1>14 DEF Unwind
<1>15. ASSUME NEW t \in Thread, AbortErase(t)
       PROVE  QuietStep
  BY <1>15 DEF AbortErase, AfterAbort, Aborting
<1>16. ASSUME NEW t \in Thread, EndReadOnly(t)
       PROVE  QuietStep
  BY <1>16 DEF EndReadOnly
<1>17. ASSUME NEW t \in Thread, LeaveReadOnly(t)
       PROVE  QuietStep
  BY <1>17 DEF LeaveReadOnly
<1>18. ASSUME NEW t \in Thread, EndWriter(t)
       PROVE  QuietStep
  BY <1>18 DEF EndWriter
<1>19. ASSUME NEW t \in Thread, LockGeneral(t)
       PROVE  QuietStep
  BY <1>19 DEF LockGeneral
<1>20. ASSUME NEW t \in Thread, RecheckFails(t)
       PROVE  QuietStep
  BY <1>20 DEF RecheckFails
<1>21. ASSUME NEW t \in Thread, RecheckPasses(t)
       PROVE  QuietStep
  BY <1>21 DEF RecheckPasses
<1>22. ASSUME NEW t \in Thread, NEW u \in Thread, LockMutex(t, u)
       PROVE  QuietStep
  BY <1>22 DEF LockMutex
<1>23. ASSUME NEW t \in Thread, NEW u \in Thread, UnlockMutex(t, u)
       PROVE  QuietStep
  BY <1>23 DEF UnlockMutex
<1>24. ASSUME NEW t \in Thread, CommitDenied(t)
       PROVE  QuietStep
  BY <1>24 DEF CommitDenied
<1>25. ASSUME NEW t \in Thread, WriteBackDone(t)
       PROVE  QuietStep
  BY <1>25 DEF WriteBackDone, IsOnlyReading
<1>26. ASSUME NEW t \in Thread, Committed(t)
       PROVE  QuietStep
  BY <1>26 DEF Committed
<1>27. CASE UNCHANGED vars
  BY <1>27 DEF vars
<1>28. QED
  BY <1>1, <1>2, <1>3, <1>4, <1>5, <1>6, <1>7, <1>8, <1>9, <1>10, <1>11,
     <1>12, <1>13, <1>14, <1>15, <1>16, <1>17, <1>18, <1>19, <1>20,
     <1>21, <1>22, <1>23, <1>24, <1>25, <1>26, <1>27
  DEF Next, StartStep, BodyStep, AbortStep, EndStep

(* The committed state changes when a thread decides to commit, and then by *)
(* its whole write list.                                                    *)
LEMMA StoreStep ==
  ASSUME TypeOK, LockInv, LockInv', [Next]_vars
  PROVE  \/ Store' = Store /\ \A t \in Thread : ~Commit(t)
         \/ \E t \in Thread : Commit(t) /\ Store' = Installed(t)
<1>1. CASE \E t \in Thread : Commit(t)
  BY <1>1, CommitInstalls
<1>2. CASE /\ \A t \in Thread : ~Commit(t)
           /\ \E t \in Thread, x \in Obj : WriteBack(t, x)
  BY <1>2, WriteBackKeepsStore
<1>3. CASE \A t \in Thread : ~Commit(t) /\ \A x \in Obj : ~WriteBack(t, x)
  BY <1>3, OtherStepsQuiet, QuietKeepsStore
<1>4. QED
  BY <1>1, <1>2, <1>3

-----------------------------------------------------------------------------
(* What transactions observe.                                               *)

(* A transaction that is still running and not doomed after a step was so   *)
(* before it, or starts with it and has seen nothing.                       *)
StaysFresh(a) ==
  pc'[a] \in Live /\ ~forcedToAbort'[a] =>
    \/ seen'[a] = NothingSeen
    \/ pc[a] \in Live /\ ~forcedToAbort[a]

LEMMA FreshStep ==
  ASSUME TypeOK, ContextInv, [Next]_vars
  PROVE  \A a \in Thread : StaysFresh(a)
<1> USE TypeOK, ContextInv DEF TypeOK, ContextInv, StaysFresh, PC, Live,
        Aborting, GoTo, Forget, ClearContext
<1>1. ASSUME NEW t \in Thread, Construct(t)
      PROVE  \A a \in Thread : StaysFresh(a)
  BY <1>1 DEF Construct
<1>2. ASSUME NEW t \in Thread, RestartInFlight(t)
      PROVE  \A a \in Thread : StaysFresh(a)
  BY <1>2 DEF RestartInFlight
<1>3. ASSUME NEW t \in Thread, Restart(t)
      PROVE  \A a \in Thread : StaysFresh(a)
  BY <1>3 DEF Restart
<1>4. ASSUME NEW t \in Thread, GiveUp(t)
      PROVE  \A a \in Thread : StaysFresh(a)
  BY <1>4 DEF GiveUp
<1>5. ASSUME NEW t \in Thread, NEW x \in Obj, ReadCovered(t, x)
      PROVE  \A a \in Thread : StaysFresh(a)
  BY <1>5 DEF ReadCovered
<1>6. ASSUME NEW t \in Thread, NEW x \in Obj, ReadCall(t, x)
      PROVE  \A a \in Thread : StaysFresh(a)
  BY <1>6 DEF ReadCall
<1>7. ASSUME NEW t \in Thread, ReadInsert(t)
      PROVE  \A a \in Thread : StaysFresh(a)
  BY <1>7 DEF ReadInsert
<1>8. ASSUME NEW t \in Thread, NEW x \in Obj, Dereference(t, x)
      PROVE  \A a \in Thread : StaysFresh(a)
  BY <1>8 DEF Dereference
<1>9. ASSUME NEW t \in Thread, NEW x \in Obj, NEW v \in Val, Assign(t, x, v)
      PROVE  \A a \in Thread : StaysFresh(a)
  BY <1>9 DEF Assign
<1>10. ASSUME NEW t \in Thread, NEW x \in Obj, WriteCall(t, x)
       PROVE  \A a \in Thread : StaysFresh(a)
  BY <1>10 DEF WriteCall
<1>11. ASSUME NEW t \in Thread, NEW v \in Val, WriteInsert(t, v)
       PROVE  \A a \in Thread : StaysFresh(a)
  BY <1>11 DEF WriteInsert
<1>12. ASSUME NEW t \in Thread, MakeIrrevocable(t)
       PROVE  \A a \in Thread : StaysFresh(a)
  BY <1>12 DEF MakeIrrevocable
<1>13. ASSUME NEW t \in Thread, AbortOnFlag(t)
       PROVE  \A a \in Thread : StaysFresh(a)
  BY <1>13 DEF AbortOnFlag
<1>14. ASSUME NEW t \in Thread, Unwind(t)
       PROVE  \A a \in Thread : StaysFresh(a)
  BY <1>14 DEF Unwind
<1>15. ASSUME NEW t \in Thread, AbortErase(t)
       PROVE  \A a \in Thread : StaysFresh(a)
  BY <1>15 DEF AbortErase, AfterAbort
<1>16. ASSUME NEW t \in Thread, EndReadOnly(t)
       PROVE  \A a \in Thread : StaysFresh(a)
  BY <1>16 DEF EndReadOnly
<1>17. ASSUME NEW t \in Thread, LeaveReadOnly(t)
       PROVE  \A a \in Thread : StaysFresh(a)
  BY <1>17 DEF LeaveReadOnly
<1>18. ASSUME NEW t \in Thread, EndWriter(t)
       PROVE  \A a \in Thread : StaysFresh(a)
  BY <1>18 DEF EndWriter
<1>19. ASSUME NEW t \in Thread, LockGeneral(t)
       PROVE  \A a \in Thread : StaysFresh(a)
  BY <1>19 DEF LockGeneral
<1>20. ASSUME NEW t \in Thread, RecheckFails(t)
       PROVE  \A a \in Thread : StaysFresh(a)
  BY <1>20 DEF RecheckFails
<1>21. ASSUME NEW t \in Thread, RecheckPasses(t)
       PROVE  \A a \in Thread : StaysFresh(a)
  BY <1>21 DEF RecheckPasses
<1>22. ASSUME NEW t \in Thread, NEW u \in Thread, LockMutex(t, u)
       PROVE  \A a \in Thread : StaysFresh(a)
  BY <1>22 DEF LockMutex
<1>23. ASSUME NEW t \in Thread, NEW u \in Thread, UnlockMutex(t, u)
       PROVE  \A a \in Thread : StaysFresh(a)
  BY <1>23 DEF UnlockMutex
<1>24. ASSUME NEW t \in Thread, Commit(t)
       PROVE  \A a \in Thread : StaysFresh(a)
  BY <1>24 DEF Commit
<1>25. ASSUME NEW t \in Thread, CommitDenied(t)
       PROVE  \A a \in Thread : StaysFresh(a)
  BY <1>25 DEF CommitDenied
<1>26. ASSUME NEW t \in Thread, NEW x \in Obj, WriteBack(t, x)
       PROVE  \A a \in Thread : StaysFresh(a)
  BY <1>26 DEF WriteBack
<1>27. ASSUME NEW t \in Thread, WriteBackDone(t)
       PROVE  \A a \in Thread : StaysFresh(a)
  BY <1>27 DEF WriteBackDone
<1>28. ASSUME NEW t \in Thread, Committed(t)
       PROVE  \A a \in Thread : StaysFresh(a)
  BY <1>28 DEF Committed
<1>29. CASE UNCHANGED vars
  BY <1>29 DEF vars
<1>30. QED
  BY <1>1, <1>2, <1>3, <1>4, <1>5, <1>6, <1>7, <1>8, <1>9, <1>10, <1>11,
     <1>12, <1>13, <1>14, <1>15, <1>16, <1>17, <1>18, <1>19, <1>20,
     <1>21, <1>22, <1>23, <1>24, <1>25, <1>26, <1>27, <1>28, <1>29
  DEF Next, StartStep, BodyStep, AbortStep, EndStep

(* Only Dereference and WriteInsert add to what a transaction has seen.     *)
LEMMA NothingNewSeen ==
  ASSUME TypeOK, [Next]_vars, NEW a \in Thread,
         \A x \in Obj : ~Dereference(a, x), \A v \in Val : ~WriteInsert(a, v)
  PROVE  seen'[a] = seen[a] \/ seen'[a] = NothingSeen
<1> USE TypeOK DEF TypeOK, Forget, ClearContext
<1>1. ASSUME NEW t \in Thread, Construct(t)
      PROVE  seen'[a] = seen[a] \/ seen'[a] = NothingSeen
  BY <1>1 DEF Construct
<1>2. ASSUME NEW t \in Thread, RestartInFlight(t)
      PROVE  seen'[a] = seen[a] \/ seen'[a] = NothingSeen
  BY <1>2 DEF RestartInFlight
<1>3. ASSUME NEW t \in Thread, Restart(t)
      PROVE  seen'[a] = seen[a] \/ seen'[a] = NothingSeen
  BY <1>3 DEF Restart
<1>4. ASSUME NEW t \in Thread, GiveUp(t)
      PROVE  seen'[a] = seen[a] \/ seen'[a] = NothingSeen
  BY <1>4 DEF GiveUp
<1>5. ASSUME NEW t \in Thread, NEW x \in Obj, ReadCovered(t, x)
      PROVE  seen'[a] = seen[a] \/ seen'[a] = NothingSeen
  BY <1>5 DEF ReadCovered
<1>6. ASSUME NEW t \in Thread, NEW x \in Obj, ReadCall(t, x)
      PROVE  seen'[a] = seen[a] \/ seen'[a] = NothingSeen
  BY <1>6 DEF ReadCall
<1>7. ASSUME NEW t \in Thread, ReadInsert(t)
      PROVE  seen'[a] = seen[a] \/ seen'[a] = NothingSeen
  BY <1>7 DEF ReadInsert
<1>8. ASSUME NEW t \in Thread, NEW x \in Obj, Dereference(t, x)
      PROVE  seen'[a] = seen[a] \/ seen'[a] = NothingSeen
  BY <1>8 DEF Dereference
<1>9. ASSUME NEW t \in Thread, NEW x \in Obj, NEW v \in Val, Assign(t, x, v)
      PROVE  seen'[a] = seen[a] \/ seen'[a] = NothingSeen
  BY <1>9 DEF Assign
<1>10. ASSUME NEW t \in Thread, NEW x \in Obj, WriteCall(t, x)
       PROVE  seen'[a] = seen[a] \/ seen'[a] = NothingSeen
  BY <1>10 DEF WriteCall
<1>11. ASSUME NEW t \in Thread, NEW v \in Val, WriteInsert(t, v)
       PROVE  seen'[a] = seen[a] \/ seen'[a] = NothingSeen
  BY <1>11 DEF WriteInsert
<1>12. ASSUME NEW t \in Thread, MakeIrrevocable(t)
       PROVE  seen'[a] = seen[a] \/ seen'[a] = NothingSeen
  BY <1>12 DEF MakeIrrevocable
<1>13. ASSUME NEW t \in Thread, AbortOnFlag(t)
       PROVE  seen'[a] = seen[a] \/ seen'[a] = NothingSeen
  BY <1>13 DEF AbortOnFlag
<1>14. ASSUME NEW t \in Thread, Unwind(t)
       PROVE  seen'[a] = seen[a] \/ seen'[a] = NothingSeen
  BY <1>14 DEF Unwind
<1>15. ASSUME NEW t \in Thread, AbortErase(t)
       PROVE  seen'[a] = seen[a] \/ seen'[a] = NothingSeen
  BY <1>15 DEF AbortErase, AfterAbort
<1>16. ASSUME NEW t \in Thread, EndReadOnly(t)
       PROVE  seen'[a] = seen[a] \/ seen'[a] = NothingSeen
  BY <1>16 DEF EndReadOnly
<1>17. ASSUME NEW t \in Thread, LeaveReadOnly(t)
       PROVE  seen'[a] = seen[a] \/ seen'[a] = NothingSeen
  BY <1>17 DEF LeaveReadOnly
<1>18. ASSUME NEW t \in Thread, EndWriter(t)
       PROVE  seen'[a] = seen[a] \/ seen'[a] = NothingSeen
  BY <1>18 DEF EndWriter
<1>19. ASSUME NEW t \in Thread, LockGeneral(t)
       PROVE  seen'[a] = seen[a] \/ seen'[a] = NothingSeen
  BY <1>19 DEF LockGeneral
<1>20. ASSUME NEW t \in Thread, RecheckFails(t)
       PROVE  seen'[a] = seen[a] \/ seen'[a] = NothingSeen
  BY <1>20 DEF RecheckFails
<1>21. ASSUME NEW t \in Thread, RecheckPasses(t)
       PROVE  seen'[a] = seen[a] \/ seen'[a] = NothingSeen
  BY <1>21 DEF RecheckPasses
<1>22. ASSUME NEW t \in Thread, NEW u \in Thread, LockMutex(t, u)
       PROVE  seen'[a] = seen[a] \/ seen'[a] = NothingSeen
  BY <1>22 DEF LockMutex
<1>23. ASSUME NEW t \in Thread, NEW u \in Thread, UnlockMutex(t, u)
       PROVE  seen'[a] = seen[a] \/ seen'[a] = NothingSeen
  BY <1>23 DEF UnlockMutex
<1>24. ASSUME NEW t \in Thread, Commit(t)
       PROVE  seen'[a] = seen[a] \/ seen'[a] = NothingSeen
  BY <1>24 DEF Commit
<1>25. ASSUME NEW t \in Thread, CommitDenied(t)
       PROVE  seen'[a] = seen[a] \/ seen'[a] = NothingSeen
  BY <1>25 DEF CommitDenied
<1>26. ASSUME NEW t \in Thread, NEW x \in Obj, WriteBack(t, x)
       PROVE  seen'[a] = seen[a] \/ seen'[a] = NothingSeen
  BY <1>26 DEF WriteBack
<1>27. ASSUME NEW t \in Thread, WriteBackDone(t)
       PROVE  seen'[a] = seen[a] \/ seen'[a] = NothingSeen
  BY <1>27 DEF WriteBackDone
<1>28. ASSUME NEW t \in Thread, Committed(t)
       PROVE  seen'[a] = seen[a] \/ seen'[a] = NothingSeen
  BY <1>28 DEF Committed
<1>29. CASE UNCHANGED vars
  BY <1>29 DEF vars
<1>30. QED
  BY <1>1, <1>2, <1>3, <1>4, <1>5, <1>6, <1>7, <1>8, <1>9, <1>10, <1>11,
     <1>12, <1>13, <1>14, <1>15, <1>16, <1>17, <1>18, <1>19, <1>20,
     <1>21, <1>22, <1>23, <1>24, <1>25, <1>26, <1>27, <1>28, <1>29
  DEF Next, StartStep, BodyStep, AbortStep, EndStep

(* While somebody's mutex is free nobody copies, so memory is the committed *)
(* state.                                                                   *)
LEMMA FreeMutexReadsStore ==
  ASSUME LockInv, NEW a \in Thread, TxMutexFree(a),
         NEW y \in Obj
  PROVE  mem[y] = Store[y]
<1>1. Copying(y) = {}
  BY ConstantsAssumption
  DEF Copying, LockInv, HoldsAll, TxMutexFree, ConstantsAssumption
<1>2. QED
  BY <1>1 DEF Store

(* A transaction that is not doomed finds the committed state behind its    *)
(* references: its filter holds them, so nobody is copying those objects.   *)
LEMMA HandleReadsStore ==
  ASSUME ProtocolInv, NEW a \in Protected, a \in Thread,
         pc[a] = "body", ~forcedToAbort[a], NEW y \in handles[a], y \in Obj
  PROVE  mem[y] = Store[y]
<1>1. Exists(a, y)
  BY DEF ProtocolInv, FilterInv, Live
<1>2. \A u \in Thread : u # a => u \notin Copying(y)
  BY <1>1 DEF ProtocolInv, DisjointInv, Live
<1>3. Copying(y) = {}
  BY <1>2 DEF Copying
<1>4. QED
  BY <1>3 DEF Store

LEMMA ConsistentStep ==
  ASSUME TypeOK, ProtocolInv, ProtocolInv', DoomedOrConsistent, [Next]_vars
  PROVE  DoomedOrConsistent'
<1>1. LockInv /\ LockInv' /\ ContextInv /\ FilterInv
  BY DEF ProtocolInv
<1>2. SUFFICES ASSUME NEW a \in Protected, pc'[a] \in Live,
                      ~forcedToAbort'[a], NEW y \in Obj
               PROVE  seen'[a][y] \subseteq {Store'[y]}
  BY DEF DoomedOrConsistent, SeesStore, Protected
<1>3. a \in Thread /\ StaysFresh(a)
  BY <1>1, FreshStep, ProtectedThreads
<1>4. CASE seen'[a] = NothingSeen
  BY <1>4 DEF NothingSeen
<1>5. CASE seen'[a] # NothingSeen
  <2>1. pc[a] \in Live /\ ~forcedToAbort[a]
    BY <1>2, <1>3, <1>5 DEF StaysFresh
  <2>2. seen[a][y] \subseteq {Store[y]}
    BY <2>1 DEF DoomedOrConsistent, SeesStore
  <2>3. CASE \E t \in Thread : Commit(t) /\ Store' = Installed(t)
    <3>1. PICK t \in Thread : Commit(t) /\ Store' = Installed(t)
      BY <2>3
    <3>2. t # a /\ seen'[a] = seen[a]
      BY <1>2, <1>3, <3>1
      DEF Commit, GoTo, Live, Forget, TypeOK
    <3>3. CASE y \in Writes(t)
      <4>1. ~Exists(a, y)
        BY <1>1, <1>2, <1>3, <2>1, <3>1, <3>2, <3>3, CommitSpares
      <4>2. seen[a][y] = {}
        BY <1>1, <1>3, <2>1, <4>1 DEF FilterInv
      <4>3. QED
        BY <3>2, <4>2
    <3>4. CASE y \notin Writes(t)
      BY <2>2, <3>1, <3>2, <3>4 DEF Installed
    <3>5. QED
      BY <3>3, <3>4
  <2>4. CASE Store' = Store /\ \A t \in Thread : ~Commit(t)
    <3>1. CASE /\ \A x \in Obj : ~Dereference(a, x)
               /\ \A v \in Val : ~WriteInsert(a, v)
      BY <1>3, <1>5, <2>2, <2>4, <3>1, NothingNewSeen
    <3>2. ASSUME NEW x \in Obj, Dereference(a, x)
          PROVE  seen'[a][y] \subseteq {Store'[y]}
      <4>1. CASE x = y
        BY <1>3, <2>1, <2>2, <2>4, <3>2, <4>1, HandleReadsStore
        DEF Dereference, TypeOK
      <4>2. CASE x # y
        BY <1>3, <2>2, <2>4, <3>2, <4>2 DEF Dereference, TypeOK
      <4>3. QED
        BY <4>1, <4>2
    <3>3. ASSUME NEW v \in Val, WriteInsert(a, v)
          PROVE  seen'[a][y] \subseteq {Store'[y]}
      <4>1. mem[y] = Store[y]
        BY <1>1, <1>3, <3>3, FreeMutexReadsStore DEF WriteInsert
      <4>2. QED
        BY <1>3, <2>2, <2>4, <3>3, <4>1 DEF WriteInsert, TypeOK
    <3>4. QED
      BY <3>1, <3>2, <3>3
  <2>5. QED
    BY <1>1, <2>3, <2>4, StoreStep
<1>6. QED
  BY <1>4, <1>5

(* A protected transaction in flight is doomed or has seen one value of     *)
(* each object, the committed one.                                          *)
THEOREM DoomedOrConsistentCorrect == Spec => []DoomedOrConsistent
<1>1. Init => DoomedOrConsistent
  BY ProtectedThreads DEF Init, DoomedOrConsistent, Live
<1>2. TypeOK /\ ProtocolInv /\ ProtocolInv' /\ DoomedOrConsistent
        /\ [Next]_vars => DoomedOrConsistent'
  BY ConsistentStep
<1>3. QED
  BY <1>1, <1>2, TypeCorrect, ProtocolCorrect, PTL DEF Spec

-----------------------------------------------------------------------------
(* Doom.                                                                    *)

LEMMA DoomStep ==
  ASSUME TypeOK, NEW a \in RestartThread, [Next]_vars
  PROVE  DoomIsDeserved(a)
<1> USE TypeOK, ConstantsAssumption
    DEF TypeOK, DoomIsDeserved, PC, Live, Aborting, GoTo, ConstantsAssumption
<1>1. ASSUME NEW t \in Thread, Construct(t)
      PROVE  DoomIsDeserved(a)
  BY <1>1 DEF Construct
<1>2. ASSUME NEW t \in Thread, RestartInFlight(t)
      PROVE  DoomIsDeserved(a)
  BY <1>2 DEF RestartInFlight
<1>3. ASSUME NEW t \in Thread, Restart(t)
      PROVE  DoomIsDeserved(a)
  BY <1>3 DEF Restart
<1>4. ASSUME NEW t \in Thread, GiveUp(t)
      PROVE  DoomIsDeserved(a)
  BY <1>4 DEF GiveUp
<1>5. ASSUME NEW t \in Thread, NEW x \in Obj, ReadCovered(t, x)
      PROVE  DoomIsDeserved(a)
  BY <1>5 DEF ReadCovered
<1>6. ASSUME NEW t \in Thread, NEW x \in Obj, ReadCall(t, x)
      PROVE  DoomIsDeserved(a)
  BY <1>6 DEF ReadCall
<1>7. ASSUME NEW t \in Thread, ReadInsert(t)
      PROVE  DoomIsDeserved(a)
  BY <1>7 DEF ReadInsert
<1>8. ASSUME NEW t \in Thread, NEW x \in Obj, Dereference(t, x)
      PROVE  DoomIsDeserved(a)
  BY <1>8 DEF Dereference
<1>9. ASSUME NEW t \in Thread, NEW x \in Obj, NEW v \in Val, Assign(t, x, v)
      PROVE  DoomIsDeserved(a)
  BY <1>9 DEF Assign
<1>10. ASSUME NEW t \in Thread, NEW x \in Obj, WriteCall(t, x)
       PROVE  DoomIsDeserved(a)
  BY <1>10 DEF WriteCall
<1>11. ASSUME NEW t \in Thread, NEW v \in Val, WriteInsert(t, v)
       PROVE  DoomIsDeserved(a)
  BY <1>11 DEF WriteInsert
<1>12. ASSUME NEW t \in Thread, MakeIrrevocable(t)
       PROVE  DoomIsDeserved(a)
  BY <1>12 DEF MakeIrrevocable
<1>13. ASSUME NEW t \in Thread, AbortOnFlag(t)
       PROVE  DoomIsDeserved(a)
  BY <1>13 DEF AbortOnFlag
<1>14. ASSUME NEW t \in Thread, Unwind(t)
       PROVE  DoomIsDeserved(a)
  BY <1>14 DEF Unwind
<1>15. ASSUME NEW t \in Thread, AbortErase(t)
       PROVE  DoomIsDeserved(a)
  BY <1>15 DEF AbortErase, AfterAbort
<1>16. ASSUME NEW t \in Thread, EndReadOnly(t)
       PROVE  DoomIsDeserved(a)
  BY <1>16 DEF EndReadOnly
<1>17. ASSUME NEW t \in Thread, LeaveReadOnly(t)
       PROVE  DoomIsDeserved(a)
  BY <1>17 DEF LeaveReadOnly
<1>18. ASSUME NEW t \in Thread, EndWriter(t)
       PROVE  DoomIsDeserved(a)
  BY <1>18 DEF EndWriter
<1>19. ASSUME NEW t \in Thread, LockGeneral(t)
       PROVE  DoomIsDeserved(a)
  BY <1>19 DEF LockGeneral
<1>20. ASSUME NEW t \in Thread, RecheckFails(t)
       PROVE  DoomIsDeserved(a)
  BY <1>20 DEF RecheckFails
<1>21. ASSUME NEW t \in Thread, RecheckPasses(t)
       PROVE  DoomIsDeserved(a)
  BY <1>21 DEF RecheckPasses
<1>22. ASSUME NEW t \in Thread, NEW u \in Thread, LockMutex(t, u)
       PROVE  DoomIsDeserved(a)
  BY <1>22 DEF LockMutex
<1>23. ASSUME NEW t \in Thread, NEW u \in Thread, UnlockMutex(t, u)
       PROVE  DoomIsDeserved(a)
  BY <1>23 DEF UnlockMutex
<1>24. ASSUME NEW t \in Thread, Commit(t)
       PROVE  DoomIsDeserved(a)
  <2>1. Decides(t)
    BY <1>24 DEF Commit, Decides
  <2>2. CASE a \in Conflicts(t)
    BY <2>1, <2>2 DEF Conflicts
  <2>3. CASE a \notin Conflicts(t)
    BY <1>24, <2>3 DEF Commit
  <2>4. QED
    BY <2>2, <2>3
<1>25. ASSUME NEW t \in Thread, CommitDenied(t)
       PROVE  DoomIsDeserved(a)
  BY <1>25 DEF CommitDenied
<1>26. ASSUME NEW t \in Thread, NEW x \in Obj, WriteBack(t, x)
       PROVE  DoomIsDeserved(a)
  BY <1>26 DEF WriteBack
<1>27. ASSUME NEW t \in Thread, WriteBackDone(t)
       PROVE  DoomIsDeserved(a)
  BY <1>27 DEF WriteBackDone
<1>28. ASSUME NEW t \in Thread, Committed(t)
       PROVE  DoomIsDeserved(a)
  BY <1>28 DEF Committed
<1>29. CASE UNCHANGED vars
  BY <1>29 DEF vars
<1>30. QED
  BY <1>1, <1>2, <1>3, <1>4, <1>5, <1>6, <1>7, <1>8, <1>9, <1>10, <1>11,
     <1>12, <1>13, <1>14, <1>15, <1>16, <1>17, <1>18, <1>19, <1>20,
     <1>21, <1>22, <1>23, <1>24, <1>25, <1>26, <1>27, <1>28, <1>29
  DEF Next, StartStep, BodyStep, AbortStep, EndStep

(* A transaction opened by use_atomic or try_atomic is doomed only by a     *)
(* commit that wrote something its filter answers for.                      *)
THEOREM DoomedOnlyByCommitsCorrect == Spec => DoomedOnlyByCommits
<1> DEFINE AllDeserved == \A t \in RestartThread : DoomIsDeserved(t)
<1>1. TypeOK /\ [Next]_vars => [AllDeserved]_vars
  BY DoomStep
<1>2. QED
  BY <1>1, TypeCorrect, PTL DEF Spec, DoomedOnlyByCommits

-----------------------------------------------------------------------------
(* Atomic commits.                                                          *)

LEMMA OnlyCommitInstalls ==
  ASSUME TypeOK, LockInv, LockInv', [Next]_vars, NEW x \in Obj,
         Store'[x] # Store[x]
  PROVE  \E t \in Thread : Decides(t) /\ Store'[x] = writeList[t][x]
<1>1. PICK t \in Thread : Commit(t) /\ Store' = Installed(t)
  BY StoreStep
<1>2. x \in Writes(t) /\ Store'[x] = writeList[t][x]
  BY <1>1 DEF Installed
<1>3. Decides(t)
  BY <1>1 DEF Commit, GoTo, Decides, TypeOK
<1>4. QED
  BY <1>2, <1>3

(* A decision is made with the flag down.                                   *)
LEMMA DecidesUndoomed ==
  ASSUME TypeOK, CommitterInv, [Next]_vars, NEW a \in Thread, Decides(a)
  PROVE  ~forcedToAbort[a]
<1> USE TypeOK, CommitterInv DEF TypeOK, CommitterInv, Decides, GoTo
<1>1. ASSUME NEW t \in Thread, Construct(t)
      PROVE  ~forcedToAbort[a]
  BY <1>1 DEF Construct
<1>2. ASSUME NEW t \in Thread, RestartInFlight(t)
      PROVE  ~forcedToAbort[a]
  BY <1>2 DEF RestartInFlight
<1>3. ASSUME NEW t \in Thread, Restart(t)
      PROVE  ~forcedToAbort[a]
  BY <1>3 DEF Restart
<1>4. ASSUME NEW t \in Thread, GiveUp(t)
      PROVE  ~forcedToAbort[a]
  BY <1>4 DEF GiveUp
<1>5. ASSUME NEW t \in Thread, NEW x \in Obj, ReadCovered(t, x)
      PROVE  ~forcedToAbort[a]
  BY <1>5 DEF ReadCovered
<1>6. ASSUME NEW t \in Thread, NEW x \in Obj, ReadCall(t, x)
      PROVE  ~forcedToAbort[a]
  BY <1>6 DEF ReadCall
<1>7. ASSUME NEW t \in Thread, ReadInsert(t)
      PROVE  ~forcedToAbort[a]
  BY <1>7 DEF ReadInsert
<1>8. ASSUME NEW t \in Thread, NEW x \in Obj, Dereference(t, x)
      PROVE  ~forcedToAbort[a]
  BY <1>8 DEF Dereference
<1>9. ASSUME NEW t \in Thread, NEW x \in Obj, NEW v \in Val, Assign(t, x, v)
      PROVE  ~forcedToAbort[a]
  BY <1>9 DEF Assign
<1>10. ASSUME NEW t \in Thread, NEW x \in Obj, WriteCall(t, x)
       PROVE  ~forcedToAbort[a]
  BY <1>10 DEF WriteCall
<1>11. ASSUME NEW t \in Thread, NEW v \in Val, WriteInsert(t, v)
       PROVE  ~forcedToAbort[a]
  BY <1>11 DEF WriteInsert
<1>12. ASSUME NEW t \in Thread, MakeIrrevocable(t)
       PROVE  ~forcedToAbort[a]
  BY <1>12 DEF MakeIrrevocable
<1>13. ASSUME NEW t \in Thread, AbortOnFlag(t)
       PROVE  ~forcedToAbort[a]
  BY <1>13 DEF AbortOnFlag
<1>14. ASSUME NEW t \in Thread, Unwind(t)
       PROVE  ~forcedToAbort[a]
  BY <1>14 DEF Unwind
<1>15. ASSUME NEW t \in Thread, AbortErase(t)
       PROVE  ~forcedToAbort[a]
  BY <1>15 DEF AbortErase, AfterAbort, Aborting
<1>16. ASSUME NEW t \in Thread, EndReadOnly(t)
       PROVE  ~forcedToAbort[a]
  BY <1>16 DEF EndReadOnly
<1>17. ASSUME NEW t \in Thread, LeaveReadOnly(t)
       PROVE  ~forcedToAbort[a]
  BY <1>17 DEF LeaveReadOnly
<1>18. ASSUME NEW t \in Thread, EndWriter(t)
       PROVE  ~forcedToAbort[a]
  BY <1>18 DEF EndWriter
<1>19. ASSUME NEW t \in Thread, LockGeneral(t)
       PROVE  ~forcedToAbort[a]
  BY <1>19 DEF LockGeneral
<1>20. ASSUME NEW t \in Thread, RecheckFails(t)
       PROVE  ~forcedToAbort[a]
  BY <1>20 DEF RecheckFails
<1>21. ASSUME NEW t \in Thread, RecheckPasses(t)
       PROVE  ~forcedToAbort[a]
  BY <1>21 DEF RecheckPasses
<1>22. ASSUME NEW t \in Thread, NEW u \in Thread, LockMutex(t, u)
       PROVE  ~forcedToAbort[a]
  BY <1>22 DEF LockMutex
<1>23. ASSUME NEW t \in Thread, NEW u \in Thread, UnlockMutex(t, u)
       PROVE  ~forcedToAbort[a]
  BY <1>23 DEF UnlockMutex
<1>24. ASSUME NEW t \in Thread, Commit(t)
       PROVE  ~forcedToAbort[a]
  BY <1>24 DEF Commit
<1>25. ASSUME NEW t \in Thread, CommitDenied(t)
       PROVE  ~forcedToAbort[a]
  BY <1>25 DEF CommitDenied
<1>26. ASSUME NEW t \in Thread, NEW x \in Obj, WriteBack(t, x)
       PROVE  ~forcedToAbort[a]
  BY <1>26 DEF WriteBack
<1>27. ASSUME NEW t \in Thread, WriteBackDone(t)
       PROVE  ~forcedToAbort[a]
  BY <1>27 DEF WriteBackDone
<1>28. ASSUME NEW t \in Thread, Committed(t)
       PROVE  ~forcedToAbort[a]
  BY <1>28 DEF Committed
<1>29. CASE UNCHANGED vars
  BY <1>29 DEF vars
<1>30. QED
  BY <1>1, <1>2, <1>3, <1>4, <1>5, <1>6, <1>7, <1>8, <1>9, <1>10, <1>11,
     <1>12, <1>13, <1>14, <1>15, <1>16, <1>17, <1>18, <1>19, <1>20,
     <1>21, <1>22, <1>23, <1>24, <1>25, <1>26, <1>27, <1>28, <1>29
  DEF Next, StartStep, BodyStep, AbortStep, EndStep

(* A protected transaction commits only if all it observed is the committed state of that moment, and the committed state  *)
(* changes only when a transaction commits, to what that one wrote.         *)
THEOREM CommitsAtomicallyCorrect == Spec => CommitsAtomically
<1> DEFINE Agrees == \A t \in Protected : Decides(t) => SeesStore(t)
           Installs == \A x \in Obj : Store'[x] # Store[x] =>
             \E t \in Thread : Decides(t) /\ Store'[x] = writeList[t][x]
<1>1. TypeOK /\ ProtocolInv /\ DoomedOrConsistent /\ [Next]_vars => Agrees
  BY DecidesUndoomed, ProtectedThreads
  DEF ProtocolInv, DoomedOrConsistent, Decides, Live
<1>2. TypeOK /\ ProtocolInv /\ ProtocolInv' /\ [Next]_vars => Installs
  BY OnlyCommitInstalls DEF ProtocolInv
<1>3. TypeOK /\ ProtocolInv /\ ProtocolInv' /\ DoomedOrConsistent /\ [Next]_vars
        => [Agrees /\ Installs]_vars
  BY <1>1, <1>2
<1>4. QED
  BY <1>3, TypeCorrect, ProtocolCorrect, DoomedOrConsistentCorrect, PTL
  DEF Spec, CommitsAtomically

-----------------------------------------------------------------------------
(* Refinement of AtomicStore.                                               *)

(* The four kinds of step the mapping sees, each from what it needs.        *)
LEMMA MapsToStutter ==
  ASSUME Store' = Store, seen' = seen,
         \A a \in Thread :
           /\ pc'[a] \in Live <=> pc[a] \in Live
           /\ pc[a] \in Live => writeList'[a] = writeList[a]
  PROVE  UNCHANGED Atomic!avars
<1>1. Undecided' = Undecided
  BY DEF Undecided, Live
<1>2. Buffered' = Buffered
  BY <1>1 DEF Buffered, Undecided
<1>3. QED
  BY <1>1, <1>2 DEF Atomic!avars

LEMMA MapsToBegin ==
  ASSUME TypeOK, NEW t \in Thread, Store' = Store, seen' = seen,
         pc[t] \notin Live, pc'[t] \in Live, writeList[t] = NothingWritten,
         writeList' = writeList,
         \A a \in Thread \ {t} : pc'[a] = pc[a]
  PROVE  Atomic!Act
<1>1. t \notin Undecided /\ Undecided' = Undecided \cup {t}
  BY DEF Undecided, Live
<1>2. Buffered' = Buffered
  BY <1>1 DEF Buffered
<1>3. Atomic!Begin(t)
  BY <1>1, <1>2 DEF Atomic!Begin
<1>4. QED
  BY <1>3 DEF Atomic!Act

LEMMA MapsToWork ==
  ASSUME TypeOK, NEW t \in Thread, NEW x \in Obj, NEW r \in SUBSET Val,
         NEW w \in Val \cup {NoVal}, Store' = Store, pc[t] \in Live,
         \A a \in Thread : pc'[a] \in Live <=> pc[a] \in Live,
         seen' = [seen EXCEPT ![t][x] = @ \cup r],
         writeList' = [writeList EXCEPT ![t][x] = w]
  PROVE  Atomic!Act
<1> USE DEF TypeOK
<1>1. t \in Undecided /\ Undecided' = Undecided
  BY DEF Undecided
<1>2. Buffered' = [Buffered EXCEPT ![t][x] = w]
  BY <1>1 DEF Buffered, Undecided
<1>3. Atomic!Work(t)
  BY <1>1, <1>2 DEF Atomic!Work
<1>4. QED
  BY <1>3 DEF Atomic!Act

LEMMA MapsToStop ==
  ASSUME TypeOK, NEW t \in Thread, pc[t] \in Live, pc'[t] \notin Live,
         \A a \in Thread \ {t} :
           /\ pc'[a] = pc[a]
           /\ writeList'[a] = writeList[a],
         seen' = [seen EXCEPT ![t] = NothingSeen]
  PROVE  Atomic!Stop(t)
<1> USE DEF TypeOK
<1>1. t \in Undecided /\ Undecided' = Undecided \ {t}
  BY DEF Undecided
<1>2. seen' = [seen EXCEPT ![t] = Atomic!Unread]
  BY DEF NothingSeen, Atomic!Unread
<1>3. Buffered' = [Buffered EXCEPT ![t] = NothingWritten]
  BY <1>1 DEF Buffered, Undecided
<1>4. QED
  BY <1>1, <1>2, <1>3 DEF Atomic!Stop, Atomic!Nothing, NothingWritten

LEMMA MapsToAbort ==
  ASSUME TypeOK, NEW t \in Thread, pc[t] \in Live, pc'[t] \notin Live,
         \A a \in Thread \ {t} :
           /\ pc'[a] = pc[a]
           /\ writeList'[a] = writeList[a],
         seen' = [seen EXCEPT ![t] = NothingSeen],
         Store' = Store
  PROVE  Atomic!Act
BY MapsToStop DEF Atomic!AbortTx, Atomic!Act

LEMMA RefinementStep ==
  ASSUME TypeOK, ProtocolInv, ProtocolInv', DoomedOrConsistent,
         Protected = Thread, [Next]_vars
  PROVE  [Atomic!Act]_(Atomic!avars)
<1> USE TypeOK
<1>1. LockInv /\ LockInv' /\ ContextInv
  BY DEF ProtocolInv
<1>2. CASE \E t \in Thread : Commit(t) /\ Store' = Installed(t)
  <2>1. PICK t \in Thread : Commit(t) /\ Store' = Installed(t)
    BY <1>2
  <2>2. Atomic!Stop(t)
    BY <2>1, MapsToStop DEF Commit, GoTo, Forget, TypeOK, Live
  <2>3. SeesStore(t)
    <3>1. pc[t] = "lockAll" /\ ~forcedToAbort[t]
      BY <2>1 DEF ProtocolInv, CommitterInv, Commit, GoTo
    <3>2. QED
      BY <3>1 DEF DoomedOrConsistent, Live
  <2>4. Buffered[t] = writeList[t]
    BY <2>1 DEF Buffered, Undecided, Commit, GoTo, Live
  <2>5. Store' = [x \in Obj |-> IF Buffered[t][x] = NoVal THEN Store[x]
                                ELSE Buffered[t][x]]
    BY <2>1, <2>4 DEF Installed, Writes
  <2>6. Atomic!CommitTx(t)
    BY <2>2, <2>3, <2>5 DEF Atomic!CommitTx, SeesStore
  <2>7. QED
    BY <2>6 DEF Atomic!Act
<1>3. CASE Store' = Store /\ \A t \in Thread : ~Commit(t)
  <2> USE <1>3 DEF GoTo, Forget, ClearContext
  <2>1. ASSUME NEW t \in Thread, Construct(t)
        PROVE  [Atomic!Act]_(Atomic!avars)
    <3>1. t \in RestartThread
      BY DEF Protected
    <3>2. pc' = [pc EXCEPT ![t] = "ready"] /\ pc[t] = "idle"
      BY <2>1, <3>1 DEF Construct
    <3>3. seen' = seen /\ writeList' = writeList
      BY <2>1 DEF Construct
    <3>4. \A a \in Thread : pc'[a] \in Live <=> pc[a] \in Live
      BY <3>2 DEF Live, TypeOK
    <3>5. QED
      BY <3>3, <3>4, MapsToStutter
  <2>2. ASSUME NEW t \in Thread, RestartInFlight(t)
        PROVE  [Atomic!Act]_(Atomic!avars)
    <3>1. seen[t] = NothingSeen
      BY <2>2, <1>1 DEF RestartInFlight, ContextInv, Live
    <3>2. seen' = seen
      BY <2>2, <3>1 DEF RestartInFlight, TypeOK
    <3>3. QED
      BY <2>2, <3>2, MapsToStutter DEF RestartInFlight, Live, TypeOK
  <2>3. ASSUME NEW t \in Thread, Restart(t)
        PROVE  [Atomic!Act]_(Atomic!avars)
    BY <2>3, <1>1, MapsToBegin DEF Restart, ContextInv, Live, Aborting, TypeOK
  <2>4. ASSUME NEW t \in Thread, GiveUp(t)
        PROVE  [Atomic!Act]_(Atomic!avars)
    BY <2>4, MapsToStutter DEF GiveUp, Live, TypeOK
  <2>5. ASSUME NEW t \in Thread, NEW x \in Obj, ReadCovered(t, x)
        PROVE  [Atomic!Act]_(Atomic!avars)
    BY <2>5, MapsToStutter DEF ReadCovered, Live, TypeOK
  <2>6. ASSUME NEW t \in Thread, NEW x \in Obj, ReadCall(t, x)
        PROVE  [Atomic!Act]_(Atomic!avars)
    BY <2>6, MapsToStutter DEF ReadCall, Live, TypeOK
  <2>7. ASSUME NEW t \in Thread, ReadInsert(t)
        PROVE  [Atomic!Act]_(Atomic!avars)
    BY <2>7, MapsToStutter DEF ReadInsert, Live, TypeOK
  <2>8. ASSUME NEW t \in Thread, NEW x \in Obj, Dereference(t, x)
        PROVE  [Atomic!Act]_(Atomic!avars)
    <3>1. /\ mem[x] \in Val /\ writeList[t][x] \in Val \cup {NoVal}
          /\ writeList' = [writeList EXCEPT ![t][x] = writeList[t][x]]
      BY <2>8 DEF Dereference, TypeOK
    <3>2. QED
      BY <2>8, <3>1, MapsToWork DEF Dereference, Live, TypeOK
  <2>9. ASSUME NEW t \in Thread, NEW x \in Obj, NEW v \in Val, Assign(t, x, v)
        PROVE  [Atomic!Act]_(Atomic!avars)
    <3>1. seen' = [seen EXCEPT ![t][x] = @ \cup {}]
      BY <2>9 DEF Assign, TypeOK
    <3>2. QED
      BY <2>9, <3>1, MapsToWork DEF Assign, Live, TypeOK
  <2>10. ASSUME NEW t \in Thread, NEW x \in Obj, WriteCall(t, x)
         PROVE  [Atomic!Act]_(Atomic!avars)
    BY <2>10, MapsToStutter DEF WriteCall, Live, TypeOK
  <2>11. ASSUME NEW t \in Thread, NEW v \in Val, WriteInsert(t, v)
         PROVE  [Atomic!Act]_(Atomic!avars)
    <3>1. target[t] \in Obj /\ mem[target[t]] \in Val
      BY <2>11 DEF WriteInsert, TypeOK
    <3>2. QED
      BY <2>11, <3>1, MapsToWork DEF WriteInsert, Live, TypeOK
  <2>12. ASSUME NEW t \in Thread, MakeIrrevocable(t)
         PROVE  [Atomic!Act]_(Atomic!avars)
    BY <2>12, MapsToStutter DEF MakeIrrevocable, Live, TypeOK
  <2>13. ASSUME NEW t \in Thread, AbortOnFlag(t)
         PROVE  [Atomic!Act]_(Atomic!avars)
    BY <2>13, MapsToAbort DEF AbortOnFlag, Live, TypeOK
  <2>14. ASSUME NEW t \in Thread, Unwind(t)
         PROVE  [Atomic!Act]_(Atomic!avars)
    BY <2>14, MapsToAbort DEF Unwind, Live, TypeOK
  <2>15. ASSUME NEW t \in Thread, AbortErase(t)
         PROVE  [Atomic!Act]_(Atomic!avars)
    BY <2>15, MapsToStutter DEF AbortErase, AfterAbort, Aborting, Live, TypeOK
  <2>16. ASSUME NEW t \in Thread, EndReadOnly(t)
         PROVE  [Atomic!Act]_(Atomic!avars)
    <3>1. Atomic!Stop(t)
      BY <2>16, MapsToStop DEF EndReadOnly, Live, TypeOK
    <3>2. SeesStore(t)
      BY <2>16 DEF EndReadOnly, DoomedOrConsistent, Live
    <3>3. \A x \in Obj : Buffered[t][x] = NoVal
      BY <2>16 DEF EndReadOnly, IsOnlyReading, Writes, Buffered, Undecided, Live
    <3>4. Store = [x \in Obj |-> Store[x]]
      BY DEF Store
    <3>5. Atomic!CommitTx(t)
      BY <3>1, <3>2, <3>3, <3>4 DEF Atomic!CommitTx, SeesStore
    <3>6. QED
      BY <3>5 DEF Atomic!Act
  <2>17. ASSUME NEW t \in Thread, LeaveReadOnly(t)
         PROVE  [Atomic!Act]_(Atomic!avars)
    BY <2>17, MapsToStutter DEF LeaveReadOnly, Live, TypeOK
  <2>18. ASSUME NEW t \in Thread, EndWriter(t)
         PROVE  [Atomic!Act]_(Atomic!avars)
    BY <2>18, MapsToStutter DEF EndWriter, Live, TypeOK
  <2>19. ASSUME NEW t \in Thread, LockGeneral(t)
         PROVE  [Atomic!Act]_(Atomic!avars)
    BY <2>19, MapsToStutter DEF LockGeneral, Live, TypeOK
  <2>20. ASSUME NEW t \in Thread, RecheckFails(t)
         PROVE  [Atomic!Act]_(Atomic!avars)
    BY <2>20, MapsToAbort DEF RecheckFails, Live, TypeOK
  <2>21. ASSUME NEW t \in Thread, RecheckPasses(t)
         PROVE  [Atomic!Act]_(Atomic!avars)
    BY <2>21, MapsToStutter DEF RecheckPasses, Live, TypeOK
  <2>22. ASSUME NEW t \in Thread, NEW u \in Thread, LockMutex(t, u)
         PROVE  [Atomic!Act]_(Atomic!avars)
    BY <2>22, MapsToStutter DEF LockMutex, Live, TypeOK
  <2>23. ASSUME NEW t \in Thread, NEW u \in Thread, UnlockMutex(t, u)
         PROVE  [Atomic!Act]_(Atomic!avars)
    BY <2>23, MapsToStutter DEF UnlockMutex, Live, TypeOK
  <2>24. ASSUME NEW t \in Thread, CommitDenied(t)
         PROVE  [Atomic!Act]_(Atomic!avars)
    BY <2>24, MapsToAbort DEF CommitDenied, Live, TypeOK
  <2>25. ASSUME NEW t \in Thread, NEW x \in Obj, WriteBack(t, x)
         PROVE  [Atomic!Act]_(Atomic!avars)
    BY <2>25, MapsToStutter DEF WriteBack, Live, TypeOK
  <2>26. ASSUME NEW t \in Thread, WriteBackDone(t)
         PROVE  [Atomic!Act]_(Atomic!avars)
    BY <2>26, MapsToStutter DEF WriteBackDone, Live, TypeOK
  <2>27. ASSUME NEW t \in Thread, Committed(t)
         PROVE  [Atomic!Act]_(Atomic!avars)
    BY <2>27, MapsToStutter DEF Committed, Live, TypeOK
  <2>28. CASE UNCHANGED vars
    BY <2>28, MapsToStutter DEF vars
  <2>29. QED
    BY <2>1, <2>2, <2>3, <2>4, <2>5, <2>6, <2>7, <2>8, <2>9, <2>10, <2>11,
       <2>12, <2>13, <2>14, <2>15, <2>16, <2>17, <2>18, <2>19, <2>20,
       <2>21, <2>22, <2>23, <2>24, <2>25, <2>26, <2>27, <2>28
    DEF Next, StartStep, BodyStep, AbortStep, EndStep
<1>4. QED
  BY <1>1, <1>2, <1>3, StoreStep

(* Transactions opened by use_atomic and try_atomic are atomic: a program   *)
(* that opens all its transactions that way, and in which at most one       *)
(* thread calls make_irrevocable(), implements AtomicStore.                 *)
OneIrrevocableThread == \A a, b \in IrrevocableThread : a = b

THEOREM Refinement ==
  ASSUME OneIrrevocableThread, RestartThread = Thread
  PROVE  Spec => ImplementsAtomicStore
<1>0. Protected = Thread
  BY DEF OneIrrevocableThread, Protected
<1>1. Init => Atomic!Start
  <2> USE DEF Init
  <2>1. Init => Store = mem /\ Undecided = {}
    BY DEF Store, Copying, Writes, Undecided, Live
  <2>2. Init => Buffered = [t \in Thread |-> NothingWritten]
    BY <2>1 DEF Buffered
  <2>3. QED
    BY <2>1, <2>2
    DEF Atomic!Start, Atomic!Nothing, Atomic!Unread, NothingWritten, NothingSeen
<1>2. TypeOK /\ ProtocolInv /\ ProtocolInv' /\ DoomedOrConsistent
        /\ [Next]_vars => [Atomic!Act]_(Atomic!avars)
  BY <1>0, RefinementStep
<1>3. QED
  BY <1>1, <1>2, TypeCorrect, ProtocolCorrect, DoomedOrConsistentCorrect, PTL
  DEF Spec, ImplementsAtomicStore, Atomic!ASpec
=============================================================================
