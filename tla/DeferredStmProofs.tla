-------------------------- MODULE DeferredStmProofs --------------------------
(* Theorems about DeferredStm, for every value of its constants.            *)
EXTENDS DeferredStm, TLAPS

LEMMA TypeInit == Init => TypeOK
  BY ConstantsAssumption DEF Init, TypeOK, PC, NothingWritten, NothingSeen

(* No step takes a variable out of its type.                                *)
LEMMA TypeStep ==
  ASSUME TypeOK, [Next]_vars
  PROVE  TypeOK'
<1> USE TypeOK, ConstantsAssumption DEF TypeOK, NothingWritten, NothingSeen,
        PC, Live, Aborting, GoTo, Forget, ClearContext
<1>1. ASSUME NEW t \in Thread, Construct(t)
      PROVE  TypeOK'
  BY <1>1 DEF Construct
<1>2. ASSUME NEW t \in Thread, RestartInFlight(t)
      PROVE  TypeOK'
  BY <1>2 DEF RestartInFlight
<1>3. ASSUME NEW t \in Thread, Restart(t)
      PROVE  TypeOK'
  BY <1>3 DEF Restart
<1>4. ASSUME NEW t \in Thread, GiveUp(t)
      PROVE  TypeOK'
  BY <1>4 DEF GiveUp
<1>5. ASSUME NEW t \in Thread, NEW x \in Obj, ReadCovered(t, x)
      PROVE  TypeOK'
  BY <1>5 DEF ReadCovered
<1>6. ASSUME NEW t \in Thread, NEW x \in Obj, ReadCall(t, x)
      PROVE  TypeOK'
  BY <1>6 DEF ReadCall
<1>7. ASSUME NEW t \in Thread, ReadInsert(t)
      PROVE  TypeOK'
  BY <1>7 DEF ReadInsert
<1>8. ASSUME NEW t \in Thread, NEW x \in Obj, Dereference(t, x)
      PROVE  TypeOK'
  BY <1>8 DEF Dereference
<1>9. ASSUME NEW t \in Thread, NEW x \in Obj, NEW v \in Val, Assign(t, x, v)
      PROVE  TypeOK'
  BY <1>9 DEF Assign
<1>10. ASSUME NEW t \in Thread, NEW x \in Obj, WriteCall(t, x)
       PROVE  TypeOK'
  BY <1>10 DEF WriteCall
<1>11. ASSUME NEW t \in Thread, NEW v \in Val, WriteInsert(t, v)
       PROVE  TypeOK'
  BY <1>11 DEF WriteInsert
<1>12. ASSUME NEW t \in Thread, MakeIrrevocable(t)
       PROVE  TypeOK'
  BY <1>12 DEF MakeIrrevocable
<1>13. ASSUME NEW t \in Thread, AbortOnFlag(t)
       PROVE  TypeOK'
  BY <1>13 DEF AbortOnFlag
<1>14. ASSUME NEW t \in Thread, Unwind(t)
       PROVE  TypeOK'
  BY <1>14 DEF Unwind
<1>15. ASSUME NEW t \in Thread, AbortErase(t)
       PROVE  TypeOK'
  BY <1>15 DEF AbortErase, AfterAbort
<1>16. ASSUME NEW t \in Thread, EndReadOnly(t)
       PROVE  TypeOK'
  BY <1>16 DEF EndReadOnly
<1>17. ASSUME NEW t \in Thread, LeaveReadOnly(t)
       PROVE  TypeOK'
  BY <1>17 DEF LeaveReadOnly
<1>18. ASSUME NEW t \in Thread, EndWriter(t)
       PROVE  TypeOK'
  BY <1>18 DEF EndWriter
<1>19. ASSUME NEW t \in Thread, LockGeneral(t)
       PROVE  TypeOK'
  BY <1>19 DEF LockGeneral
<1>20. ASSUME NEW t \in Thread, RecheckFails(t)
       PROVE  TypeOK'
  BY <1>20 DEF RecheckFails
<1>21. ASSUME NEW t \in Thread, RecheckPasses(t)
       PROVE  TypeOK'
  BY <1>21 DEF RecheckPasses
<1>22. ASSUME NEW t \in Thread, NEW u \in Thread, LockMutex(t, u)
       PROVE  TypeOK'
  BY <1>22 DEF LockMutex
<1>23. ASSUME NEW t \in Thread, NEW u \in Thread, UnlockMutex(t, u)
       PROVE  TypeOK'
  BY <1>23 DEF UnlockMutex
<1>24. ASSUME NEW t \in Thread, Commit(t)
       PROVE  TypeOK'
  BY <1>24 DEF Commit
<1>25. ASSUME NEW t \in Thread, CommitDenied(t)
       PROVE  TypeOK'
  BY <1>25 DEF CommitDenied
<1>26. ASSUME NEW t \in Thread, NEW x \in Obj, WriteBack(t, x)
       PROVE  TypeOK'
  BY <1>26 DEF WriteBack, Writes
<1>27. ASSUME NEW t \in Thread, WriteBackDone(t)
       PROVE  TypeOK'
  BY <1>27 DEF WriteBackDone
<1>28. ASSUME NEW t \in Thread, Committed(t)
       PROVE  TypeOK'
  BY <1>28 DEF Committed
<1>29. CASE UNCHANGED vars
  BY <1>29 DEF vars
<1>30. QED
  BY <1>1, <1>2, <1>3, <1>4, <1>5, <1>6, <1>7, <1>8, <1>9, <1>10, <1>11,
     <1>12, <1>13, <1>14, <1>15, <1>16, <1>17, <1>18, <1>19, <1>20,
     <1>21, <1>22, <1>23, <1>24, <1>25, <1>26, <1>27, <1>28, <1>29
  DEF Next, StartStep, BodyStep, AbortStep, EndStep

(* Every variable keeps its type.                                           *)
THEOREM TypeCorrect == Spec => []TypeOK
  BY TypeInit, TypeStep, PTL DEF Spec

-----------------------------------------------------------------------------
(* Locks.                                                                   *)

LEMMA LockStep ==
  ASSUME TypeOK, LockInv, [Next]_vars
  PROVE  LockInv'
<1> USE TypeOK, LockInv, ConstantsAssumption DEF TypeOK, LockInv, HoldsAll,
        TxMutexFree, PC, Live, Aborting, GoTo
<1>1. ASSUME NEW t \in Thread, Construct(t)
      PROVE  LockInv'
  BY <1>1 DEF Construct
<1>2. ASSUME NEW t \in Thread, RestartInFlight(t)
      PROVE  LockInv'
  BY <1>2 DEF RestartInFlight
<1>3. ASSUME NEW t \in Thread, Restart(t)
      PROVE  LockInv'
  BY <1>3 DEF Restart
<1>4. ASSUME NEW t \in Thread, GiveUp(t)
      PROVE  LockInv'
  BY <1>4 DEF GiveUp
<1>5. ASSUME NEW t \in Thread, NEW x \in Obj, ReadCovered(t, x)
      PROVE  LockInv'
  BY <1>5 DEF ReadCovered
<1>6. ASSUME NEW t \in Thread, NEW x \in Obj, ReadCall(t, x)
      PROVE  LockInv'
  BY <1>6 DEF ReadCall
<1>7. ASSUME NEW t \in Thread, ReadInsert(t)
      PROVE  LockInv'
  BY <1>7 DEF ReadInsert
<1>8. ASSUME NEW t \in Thread, NEW x \in Obj, Dereference(t, x)
      PROVE  LockInv'
  BY <1>8 DEF Dereference
<1>9. ASSUME NEW t \in Thread, NEW x \in Obj, NEW v \in Val, Assign(t, x, v)
      PROVE  LockInv'
  BY <1>9 DEF Assign
<1>10. ASSUME NEW t \in Thread, NEW x \in Obj, WriteCall(t, x)
       PROVE  LockInv'
  BY <1>10 DEF WriteCall
<1>11. ASSUME NEW t \in Thread, NEW v \in Val, WriteInsert(t, v)
       PROVE  LockInv'
  BY <1>11 DEF WriteInsert
<1>12. ASSUME NEW t \in Thread, MakeIrrevocable(t)
       PROVE  LockInv'
  BY <1>12 DEF MakeIrrevocable
<1>13. ASSUME NEW t \in Thread, AbortOnFlag(t)
       PROVE  LockInv'
  BY <1>13 DEF AbortOnFlag
<1>14. ASSUME NEW t \in Thread, Unwind(t)
       PROVE  LockInv'
  BY <1>14 DEF Unwind
<1>15. ASSUME NEW t \in Thread, AbortErase(t)
       PROVE  LockInv'
  BY <1>15 DEF AbortErase, AfterAbort
<1>16. ASSUME NEW t \in Thread, EndReadOnly(t)
       PROVE  LockInv'
  BY <1>16 DEF EndReadOnly
<1>17. ASSUME NEW t \in Thread, LeaveReadOnly(t)
       PROVE  LockInv'
  BY <1>17 DEF LeaveReadOnly
<1>18. ASSUME NEW t \in Thread, EndWriter(t)
       PROVE  LockInv'
  BY <1>18 DEF EndWriter
<1>19. ASSUME NEW t \in Thread, LockGeneral(t)
       PROVE  LockInv'
  BY <1>19 DEF LockGeneral
<1>20. ASSUME NEW t \in Thread, RecheckFails(t)
       PROVE  LockInv'
  BY <1>20 DEF RecheckFails
<1>21. ASSUME NEW t \in Thread, RecheckPasses(t)
       PROVE  LockInv'
  BY <1>21 DEF RecheckPasses
<1>22. ASSUME NEW t \in Thread, NEW u \in Thread, LockMutex(t, u)
       PROVE  LockInv'
  BY <1>22 DEF LockMutex
<1>23. ASSUME NEW t \in Thread, NEW u \in Thread, UnlockMutex(t, u)
       PROVE  LockInv'
  BY <1>23 DEF UnlockMutex
<1>24. ASSUME NEW t \in Thread, Commit(t)
       PROVE  LockInv'
  BY <1>24 DEF Commit
<1>25. ASSUME NEW t \in Thread, CommitDenied(t)
       PROVE  LockInv'
  BY <1>25 DEF CommitDenied
<1>26. ASSUME NEW t \in Thread, NEW x \in Obj, WriteBack(t, x)
       PROVE  LockInv'
  BY <1>26 DEF WriteBack
<1>27. ASSUME NEW t \in Thread, WriteBackDone(t)
       PROVE  LockInv'
  BY <1>27 DEF WriteBackDone
<1>28. ASSUME NEW t \in Thread, Committed(t)
       PROVE  LockInv'
  BY <1>28 DEF Committed
<1>29. CASE UNCHANGED vars
  BY <1>29 DEF vars
<1>30. QED
  BY <1>1, <1>2, <1>3, <1>4, <1>5, <1>6, <1>7, <1>8, <1>9, <1>10, <1>11,
     <1>12, <1>13, <1>14, <1>15, <1>16, <1>17, <1>18, <1>19, <1>20,
     <1>21, <1>22, <1>23, <1>24, <1>25, <1>26, <1>27, <1>28, <1>29
  DEF Next, StartStep, BodyStep, AbortStep, EndStep

-----------------------------------------------------------------------------
(* Contexts.                                                                *)

LEMMA ContextStep ==
  ASSUME TypeOK, LockInv, ContextInv, [Next]_vars
  PROVE  ContextInv'
<1> USE TypeOK, ContextInv, ConstantsAssumption DEF TypeOK, ContextInv, PC,
        Live, Aborting, GoTo, Forget, ClearContext, NothingWritten, NothingSeen
<1>1. ASSUME NEW t \in Thread, Construct(t)
      PROVE  ContextInv'
  BY <1>1 DEF Construct
<1>2. ASSUME NEW t \in Thread, RestartInFlight(t)
      PROVE  ContextInv'
  BY <1>2 DEF RestartInFlight
<1>3. ASSUME NEW t \in Thread, Restart(t)
      PROVE  ContextInv'
  BY <1>3 DEF Restart
<1>4. ASSUME NEW t \in Thread, GiveUp(t)
      PROVE  ContextInv'
  BY <1>4 DEF GiveUp
<1>5. ASSUME NEW t \in Thread, NEW x \in Obj, ReadCovered(t, x)
      PROVE  ContextInv'
  BY <1>5 DEF ReadCovered
<1>6. ASSUME NEW t \in Thread, NEW x \in Obj, ReadCall(t, x)
      PROVE  ContextInv'
  BY <1>6 DEF ReadCall
<1>7. ASSUME NEW t \in Thread, ReadInsert(t)
      PROVE  ContextInv'
  BY <1>7 DEF ReadInsert
<1>8. ASSUME NEW t \in Thread, NEW x \in Obj, Dereference(t, x)
      PROVE  ContextInv'
  BY <1>8 DEF Dereference
<1>9. ASSUME NEW t \in Thread, NEW x \in Obj, NEW v \in Val, Assign(t, x, v)
      PROVE  ContextInv'
  BY <1>9 DEF Assign
<1>10. ASSUME NEW t \in Thread, NEW x \in Obj, WriteCall(t, x)
       PROVE  ContextInv'
  BY <1>10 DEF WriteCall
<1>11. ASSUME NEW t \in Thread, NEW v \in Val, WriteInsert(t, v)
       PROVE  ContextInv'
  BY <1>11 DEF WriteInsert
<1>12. ASSUME NEW t \in Thread, MakeIrrevocable(t)
       PROVE  ContextInv'
  BY <1>12 DEF MakeIrrevocable
<1>13. ASSUME NEW t \in Thread, AbortOnFlag(t)
       PROVE  ContextInv'
  BY <1>13 DEF AbortOnFlag
<1>14. ASSUME NEW t \in Thread, Unwind(t)
       PROVE  ContextInv'
  BY <1>14 DEF Unwind
<1>15. ASSUME NEW t \in Thread, AbortErase(t)
       PROVE  ContextInv'
  BY <1>15 DEF AbortErase, AfterAbort
<1>16. ASSUME NEW t \in Thread, EndReadOnly(t)
       PROVE  ContextInv'
  BY <1>16 DEF EndReadOnly, IsOnlyReading, Writes
<1>17. ASSUME NEW t \in Thread, LeaveReadOnly(t)
       PROVE  ContextInv'
  BY <1>17 DEF LeaveReadOnly
<1>18. ASSUME NEW t \in Thread, EndWriter(t)
       PROVE  ContextInv'
  BY <1>18 DEF EndWriter
<1>19. ASSUME NEW t \in Thread, LockGeneral(t)
       PROVE  ContextInv'
  BY <1>19 DEF LockGeneral
<1>20. ASSUME NEW t \in Thread, RecheckFails(t)
       PROVE  ContextInv'
  BY <1>20 DEF RecheckFails
<1>21. ASSUME NEW t \in Thread, RecheckPasses(t)
       PROVE  ContextInv'
  BY <1>21 DEF RecheckPasses
<1>22. ASSUME NEW t \in Thread, NEW u \in Thread, LockMutex(t, u)
       PROVE  ContextInv'
  BY <1>22 DEF LockMutex
<1>23. ASSUME NEW t \in Thread, NEW u \in Thread, UnlockMutex(t, u)
       PROVE  ContextInv'
  BY <1>23 DEF UnlockMutex
<1>24. ASSUME NEW t \in Thread, Commit(t)
       PROVE  ContextInv'
  BY <1>24 DEF Commit
<1>25. ASSUME NEW t \in Thread, CommitDenied(t)
       PROVE  ContextInv'
  BY <1>25 DEF CommitDenied
<1>26. ASSUME NEW t \in Thread, NEW x \in Obj, WriteBack(t, x)
       PROVE  ContextInv'
  BY <1>26 DEF WriteBack
<1>27. ASSUME NEW t \in Thread, WriteBackDone(t)
       PROVE  ContextInv'
  BY <1>27 DEF WriteBackDone, IsOnlyReading, Writes
<1>28. ASSUME NEW t \in Thread, Committed(t)
       PROVE  ContextInv'
  BY <1>28 DEF Committed
<1>29. CASE UNCHANGED vars
  BY <1>29 DEF vars
<1>30. QED
  BY <1>1, <1>2, <1>3, <1>4, <1>5, <1>6, <1>7, <1>8, <1>9, <1>10, <1>11,
     <1>12, <1>13, <1>14, <1>15, <1>16, <1>17, <1>18, <1>19, <1>20,
     <1>21, <1>22, <1>23, <1>24, <1>25, <1>26, <1>27, <1>28, <1>29
  DEF Next, StartStep, BodyStep, AbortStep, EndStep

-----------------------------------------------------------------------------
(* Filters.                                                                 *)

LEMMA FilterStep ==
  ASSUME TypeOK, ContextInv, FilterInv, [Next]_vars
  PROVE  FilterInv'
<1> USE TypeOK, ContextInv, FilterInv, ConstantsAssumption
    DEF TypeOK, ContextInv, FilterInv, Exists, Writes, PC, Live, Aborting,
        GoTo, Forget, ClearContext, NothingWritten, NothingSeen
<1>1. ASSUME NEW t \in Thread, Construct(t)
      PROVE  FilterInv'
  <2>1. /\ handles[t] = {} /\ seen[t] = NothingSeen 
        /\ writeList[t] = NothingWritten
        /\ UNCHANGED <<handles, seen, writeList, bloom>>
        /\ \A u \in Thread \ {t} : pc'[u] = pc[u]
    BY <1>1 DEF Construct
  <2>2. SUFFICES ASSUME NEW u \in Thread, NEW x \in Obj, (pc[u] \in Live)',
                        (x \in handles[u] \cup Writes(u) \/ seen[u][x] # {})'
                 PROVE  Exists(u, x)'
    BY DEF FilterInv
  <2>3. u # t
    BY <2>1, <2>2
  <2>4. QED
    BY <2>1, <2>2, <2>3
<1>2. ASSUME NEW t \in Thread, RestartInFlight(t)
      PROVE  FilterInv'
  BY <1>2 DEF RestartInFlight
<1>3. ASSUME NEW t \in Thread, Restart(t)
      PROVE  FilterInv'
  <2>1. /\ handles[t] = {} /\ seen[t] = NothingSeen 
        /\ writeList[t] = NothingWritten
        /\ UNCHANGED <<handles, seen, writeList, bloom>>
        /\ \A u \in Thread \ {t} : pc'[u] = pc[u]
    BY <1>3 DEF Restart
  <2>2. SUFFICES ASSUME NEW u \in Thread, NEW x \in Obj, (pc[u] \in Live)',
                        (x \in handles[u] \cup Writes(u) \/ seen[u][x] # {})'
                 PROVE  Exists(u, x)'
    BY DEF FilterInv
  <2>3. u # t
    BY <2>1, <2>2
  <2>4. QED
    BY <2>1, <2>2, <2>3
<1>4. ASSUME NEW t \in Thread, GiveUp(t)
      PROVE  FilterInv'
  BY <1>4 DEF GiveUp
<1>5. ASSUME NEW t \in Thread, NEW x \in Obj, ReadCovered(t, x)
      PROVE  FilterInv'
  BY <1>5 DEF ReadCovered
<1>6. ASSUME NEW t \in Thread, NEW x \in Obj, ReadCall(t, x)
      PROVE  FilterInv'
  BY <1>6 DEF ReadCall
<1>7. ASSUME NEW t \in Thread, ReadInsert(t)
      PROVE  FilterInv'
  BY <1>7 DEF ReadInsert
<1>8. ASSUME NEW t \in Thread, NEW x \in Obj, Dereference(t, x)
      PROVE  FilterInv'
  BY <1>8 DEF Dereference
<1>9. ASSUME NEW t \in Thread, NEW x \in Obj, NEW v \in Val, Assign(t, x, v)
      PROVE  FilterInv'
  BY <1>9 DEF Assign
<1>10. ASSUME NEW t \in Thread, NEW x \in Obj, WriteCall(t, x)
       PROVE  FilterInv'
  BY <1>10 DEF WriteCall
<1>11. ASSUME NEW t \in Thread, NEW v \in Val, WriteInsert(t, v)
       PROVE  FilterInv'
  BY <1>11 DEF WriteInsert
<1>12. ASSUME NEW t \in Thread, MakeIrrevocable(t)
       PROVE  FilterInv'
  BY <1>12 DEF MakeIrrevocable
<1>13. ASSUME NEW t \in Thread, AbortOnFlag(t)
       PROVE  FilterInv'
  BY <1>13 DEF AbortOnFlag
<1>14. ASSUME NEW t \in Thread, Unwind(t)
       PROVE  FilterInv'
  BY <1>14 DEF Unwind
<1>15. ASSUME NEW t \in Thread, AbortErase(t)
       PROVE  FilterInv'
  BY <1>15 DEF AbortErase, AfterAbort
<1>16. ASSUME NEW t \in Thread, EndReadOnly(t)
       PROVE  FilterInv'
  BY <1>16 DEF EndReadOnly
<1>17. ASSUME NEW t \in Thread, LeaveReadOnly(t)
       PROVE  FilterInv'
  BY <1>17 DEF LeaveReadOnly
<1>18. ASSUME NEW t \in Thread, EndWriter(t)
       PROVE  FilterInv'
  BY <1>18 DEF EndWriter
<1>19. ASSUME NEW t \in Thread, LockGeneral(t)
       PROVE  FilterInv'
  BY <1>19 DEF LockGeneral
<1>20. ASSUME NEW t \in Thread, RecheckFails(t)
       PROVE  FilterInv'
  BY <1>20 DEF RecheckFails
<1>21. ASSUME NEW t \in Thread, RecheckPasses(t)
       PROVE  FilterInv'
  BY <1>21 DEF RecheckPasses
<1>22. ASSUME NEW t \in Thread, NEW u \in Thread, LockMutex(t, u)
       PROVE  FilterInv'
  BY <1>22 DEF LockMutex
<1>23. ASSUME NEW t \in Thread, NEW u \in Thread, UnlockMutex(t, u)
       PROVE  FilterInv'
  BY <1>23 DEF UnlockMutex
<1>24. ASSUME NEW t \in Thread, Commit(t)
       PROVE  FilterInv'
  BY <1>24 DEF Commit
<1>25. ASSUME NEW t \in Thread, CommitDenied(t)
       PROVE  FilterInv'
  BY <1>25 DEF CommitDenied
<1>26. ASSUME NEW t \in Thread, NEW x \in Obj, WriteBack(t, x)
       PROVE  FilterInv'
  BY <1>26 DEF WriteBack
<1>27. ASSUME NEW t \in Thread, WriteBackDone(t)
       PROVE  FilterInv'
  BY <1>27 DEF WriteBackDone
<1>28. ASSUME NEW t \in Thread, Committed(t)
       PROVE  FilterInv'
  BY <1>28 DEF Committed
<1>29. CASE UNCHANGED vars
  BY <1>29 DEF vars
<1>30. QED
  BY <1>1, <1>2, <1>3, <1>4, <1>5, <1>6, <1>7, <1>8, <1>9, <1>10, <1>11,
     <1>12, <1>13, <1>14, <1>15, <1>16, <1>17, <1>18, <1>19, <1>20,
     <1>21, <1>22, <1>23, <1>24, <1>25, <1>26, <1>27, <1>28, <1>29
  DEF Next, StartStep, BodyStep, AbortStep, EndStep

-----------------------------------------------------------------------------
(* Committers.                                                              *)

(* Between its second test of the flag and its decision a committer holds   *)
(* transactionMutex_, and only the holder of transactionMutex_ sets flags.  *)
LEMMA CommitterStep ==
  ASSUME TypeOK, LockInv, CommitterInv, [Next]_vars
  PROVE  CommitterInv'
<1> USE TypeOK, LockInv, CommitterInv DEF TypeOK, LockInv, CommitterInv, PC,
        Live, Aborting, GoTo
<1>1. ASSUME NEW t \in Thread, Construct(t)
      PROVE  CommitterInv'
  BY <1>1 DEF Construct
<1>2. ASSUME NEW t \in Thread, RestartInFlight(t)
      PROVE  CommitterInv'
  BY <1>2 DEF RestartInFlight
<1>3. ASSUME NEW t \in Thread, Restart(t)
      PROVE  CommitterInv'
  BY <1>3 DEF Restart
<1>4. ASSUME NEW t \in Thread, GiveUp(t)
      PROVE  CommitterInv'
  BY <1>4 DEF GiveUp
<1>5. ASSUME NEW t \in Thread, NEW x \in Obj, ReadCovered(t, x)
      PROVE  CommitterInv'
  BY <1>5 DEF ReadCovered
<1>6. ASSUME NEW t \in Thread, NEW x \in Obj, ReadCall(t, x)
      PROVE  CommitterInv'
  BY <1>6 DEF ReadCall
<1>7. ASSUME NEW t \in Thread, ReadInsert(t)
      PROVE  CommitterInv'
  BY <1>7 DEF ReadInsert
<1>8. ASSUME NEW t \in Thread, NEW x \in Obj, Dereference(t, x)
      PROVE  CommitterInv'
  BY <1>8 DEF Dereference
<1>9. ASSUME NEW t \in Thread, NEW x \in Obj, NEW v \in Val, Assign(t, x, v)
      PROVE  CommitterInv'
  BY <1>9 DEF Assign
<1>10. ASSUME NEW t \in Thread, NEW x \in Obj, WriteCall(t, x)
       PROVE  CommitterInv'
  BY <1>10 DEF WriteCall
<1>11. ASSUME NEW t \in Thread, NEW v \in Val, WriteInsert(t, v)
       PROVE  CommitterInv'
  BY <1>11 DEF WriteInsert
<1>12. ASSUME NEW t \in Thread, MakeIrrevocable(t)
       PROVE  CommitterInv'
  BY <1>12 DEF MakeIrrevocable
<1>13. ASSUME NEW t \in Thread, AbortOnFlag(t)
       PROVE  CommitterInv'
  BY <1>13 DEF AbortOnFlag
<1>14. ASSUME NEW t \in Thread, Unwind(t)
       PROVE  CommitterInv'
  BY <1>14 DEF Unwind
<1>15. ASSUME NEW t \in Thread, AbortErase(t)
       PROVE  CommitterInv'
  BY <1>15 DEF AbortErase, AfterAbort
<1>16. ASSUME NEW t \in Thread, EndReadOnly(t)
       PROVE  CommitterInv'
  BY <1>16 DEF EndReadOnly
<1>17. ASSUME NEW t \in Thread, LeaveReadOnly(t)
       PROVE  CommitterInv'
  BY <1>17 DEF LeaveReadOnly
<1>18. ASSUME NEW t \in Thread, EndWriter(t)
       PROVE  CommitterInv'
  BY <1>18 DEF EndWriter
<1>19. ASSUME NEW t \in Thread, LockGeneral(t)
       PROVE  CommitterInv'
  BY <1>19 DEF LockGeneral
<1>20. ASSUME NEW t \in Thread, RecheckFails(t)
       PROVE  CommitterInv'
  BY <1>20 DEF RecheckFails
<1>21. ASSUME NEW t \in Thread, RecheckPasses(t)
       PROVE  CommitterInv'
  BY <1>21 DEF RecheckPasses
<1>22. ASSUME NEW t \in Thread, NEW u \in Thread, LockMutex(t, u)
       PROVE  CommitterInv'
  BY <1>22 DEF LockMutex
<1>23. ASSUME NEW t \in Thread, NEW u \in Thread, UnlockMutex(t, u)
       PROVE  CommitterInv'
  BY <1>23 DEF UnlockMutex
<1>24. ASSUME NEW t \in Thread, Commit(t)
       PROVE  CommitterInv'
  BY <1>24 DEF Commit
<1>25. ASSUME NEW t \in Thread, CommitDenied(t)
       PROVE  CommitterInv'
  BY <1>25 DEF CommitDenied
<1>26. ASSUME NEW t \in Thread, NEW x \in Obj, WriteBack(t, x)
       PROVE  CommitterInv'
  BY <1>26 DEF WriteBack
<1>27. ASSUME NEW t \in Thread, WriteBackDone(t)
       PROVE  CommitterInv'
  BY <1>27 DEF WriteBackDone
<1>28. ASSUME NEW t \in Thread, Committed(t)
       PROVE  CommitterInv'
  BY <1>28 DEF Committed
<1>29. CASE UNCHANGED vars
  BY <1>29 DEF vars
<1>30. QED
  BY <1>1, <1>2, <1>3, <1>4, <1>5, <1>6, <1>7, <1>8, <1>9, <1>10, <1>11,
     <1>12, <1>13, <1>14, <1>15, <1>16, <1>17, <1>18, <1>19, <1>20,
     <1>21, <1>22, <1>23, <1>24, <1>25, <1>26, <1>27, <1>28, <1>29
  DEF Next, StartStep, BodyStep, AbortStep, EndStep

-----------------------------------------------------------------------------
(* What a committer copies and what the others may touch.                   *)

LEMMA ProtectedThreads == Protected \subseteq Thread
BY ConstantsAssumption DEF Protected

(* A commit leaves unforced only those running protected transactions whose *)
(* filters hold nothing it writes: one that is irrevocable would have       *)
(* stopped it, unless the committer is irrevocable too, which a protected   *)
(* thread excludes.                                                         *)
LEMMA CommitSpares ==
  ASSUME TypeOK, ContextInv,
         NEW t \in Thread, Commit(t),
         NEW a \in Protected, a # t, pc[a] \in Live, ~forcedToAbort'[a],
         NEW x \in Writes(t)
  PROVE  ~Exists(a, x)
<1> USE ProtectedThreads DEF TypeOK, ContextInv, Writes
<1>1. a \in transactionsInFlight /\ ~forcedToAbort[a]
  BY DEF Commit
<1>2. CASE a \notin Conflicts(t)
  BY <1>1, <1>2 DEF Conflicts
<1>3. CASE a \in Conflicts(t)
  <2>1. irrevocable[a]
    BY <1>3 DEF Commit
  <2>2. irrevocable[t]
    BY <1>3, <2>1 DEF Commit, Yields
  <2>3. QED
    BY <2>1, <2>2 DEF Protected
<1>4. QED
  BY <1>2, <1>3

LEMMA DisjointStep ==
  ASSUME TypeOK, LockInv, ContextInv, DisjointInv, [Next]_vars
  PROVE  DisjointInv'
<1> USE TypeOK, LockInv, ContextInv, DisjointInv, ConstantsAssumption
    DEF Protected, TypeOK, LockInv, ContextInv, DisjointInv, HoldsAll, TxMutexFree,
        Copying, Exists, Writes, PC, Live, Aborting, GoTo, Forget,
        ClearContext, NothingWritten, NothingSeen
<1>1. ASSUME NEW t \in Thread, Construct(t)
      PROVE  DisjointInv'
  BY <1>1 DEF Construct
<1>2. ASSUME NEW t \in Thread, RestartInFlight(t)
      PROVE  DisjointInv'
  BY <1>2 DEF RestartInFlight
<1>3. ASSUME NEW t \in Thread, Restart(t)
      PROVE  DisjointInv'
  BY <1>3 DEF Restart
<1>4. ASSUME NEW t \in Thread, GiveUp(t)
      PROVE  DisjointInv'
  BY <1>4 DEF GiveUp
<1>5. ASSUME NEW t \in Thread, NEW x \in Obj, ReadCovered(t, x)
      PROVE  DisjointInv'
  BY <1>5 DEF ReadCovered
<1>6. ASSUME NEW t \in Thread, NEW x \in Obj, ReadCall(t, x)
      PROVE  DisjointInv'
  BY <1>6 DEF ReadCall
<1>7. ASSUME NEW t \in Thread, ReadInsert(t)
      PROVE  DisjointInv'
  BY <1>7 DEF ReadInsert
<1>8. ASSUME NEW t \in Thread, NEW x \in Obj, Dereference(t, x)
      PROVE  DisjointInv'
  BY <1>8 DEF Dereference
<1>9. ASSUME NEW t \in Thread, NEW x \in Obj, NEW v \in Val, Assign(t, x, v)
      PROVE  DisjointInv'
  BY <1>9 DEF Assign
<1>10. ASSUME NEW t \in Thread, NEW x \in Obj, WriteCall(t, x)
       PROVE  DisjointInv'
  BY <1>10 DEF WriteCall
<1>11. ASSUME NEW t \in Thread, NEW v \in Val, WriteInsert(t, v)
       PROVE  DisjointInv'
  BY <1>11 DEF WriteInsert
<1>12. ASSUME NEW t \in Thread, MakeIrrevocable(t)
       PROVE  DisjointInv'
  BY <1>12 DEF MakeIrrevocable
<1>13. ASSUME NEW t \in Thread, AbortOnFlag(t)
       PROVE  DisjointInv'
  BY <1>13 DEF AbortOnFlag
<1>14. ASSUME NEW t \in Thread, Unwind(t)
       PROVE  DisjointInv'
  BY <1>14 DEF Unwind
<1>15. ASSUME NEW t \in Thread, AbortErase(t)
       PROVE  DisjointInv'
  BY <1>15 DEF AbortErase, AfterAbort
<1>16. ASSUME NEW t \in Thread, EndReadOnly(t)
       PROVE  DisjointInv'
  BY <1>16 DEF EndReadOnly
<1>17. ASSUME NEW t \in Thread, LeaveReadOnly(t)
       PROVE  DisjointInv'
  BY <1>17 DEF LeaveReadOnly
<1>18. ASSUME NEW t \in Thread, EndWriter(t)
       PROVE  DisjointInv'
  BY <1>18 DEF EndWriter
<1>19. ASSUME NEW t \in Thread, LockGeneral(t)
       PROVE  DisjointInv'
  BY <1>19 DEF LockGeneral
<1>20. ASSUME NEW t \in Thread, RecheckFails(t)
       PROVE  DisjointInv'
  BY <1>20 DEF RecheckFails
<1>21. ASSUME NEW t \in Thread, RecheckPasses(t)
       PROVE  DisjointInv'
  BY <1>21 DEF RecheckPasses
<1>22. ASSUME NEW t \in Thread, NEW u \in Thread, LockMutex(t, u)
       PROVE  DisjointInv'
  BY <1>22 DEF LockMutex
<1>23. ASSUME NEW t \in Thread, NEW u \in Thread, UnlockMutex(t, u)
       PROVE  DisjointInv'
  BY <1>23 DEF UnlockMutex
<1>24. ASSUME NEW t \in Thread, Commit(t)
       PROVE  DisjointInv'
  <2> SUFFICES ASSUME NEW a \in Protected, NEW u \in Thread, NEW x \in Obj,
                      (pc[a] \in Live)', (~forcedToAbort[a])', a # u,
                      (u \in Copying(x))'
               PROVE  ~Exists(a, x)'
    BY DEF DisjointInv
  <2>1. /\ a # t /\ pc[a] \in Live /\ x \in Writes(u)
        /\ pc'[u] = "writeBack" /\ UNCHANGED bloom
    BY <1>24 DEF Commit
  <2>2. u = t
    BY <2>1, <1>24 DEF Commit
  <2>3. ~Exists(a, x)
    BY <2>1, <2>2, <1>24, CommitSpares
  <2>4. QED
    BY <2>1, <2>3
<1>25. ASSUME NEW t \in Thread, CommitDenied(t)
       PROVE  DisjointInv'
  BY <1>25 DEF CommitDenied
<1>26. ASSUME NEW t \in Thread, NEW x \in Obj, WriteBack(t, x)
       PROVE  DisjointInv'
  BY <1>26 DEF WriteBack
<1>27. ASSUME NEW t \in Thread, WriteBackDone(t)
       PROVE  DisjointInv'
  BY <1>27 DEF WriteBackDone
<1>28. ASSUME NEW t \in Thread, Committed(t)
       PROVE  DisjointInv'
  BY <1>28 DEF Committed
<1>29. CASE UNCHANGED vars
  BY <1>29 DEF vars
<1>30. QED
  BY <1>1, <1>2, <1>3, <1>4, <1>5, <1>6, <1>7, <1>8, <1>9, <1>10, <1>11,
     <1>12, <1>13, <1>14, <1>15, <1>16, <1>17, <1>18, <1>19, <1>20,
     <1>21, <1>22, <1>23, <1>24, <1>25, <1>26, <1>27, <1>28, <1>29
  DEF Next, StartStep, BodyStep, AbortStep, EndStep

-----------------------------------------------------------------------------
(* The protocol invariant.                                                  *)

LEMMA ProtocolInit == Init => ProtocolInv
<1> USE ConstantsAssumption DEF Init
<1>1. Init => LockInv /\ CommitterInv
  BY DEF LockInv, CommitterInv, Live, Aborting
<1>2. Init => ContextInv
  BY DEF ContextInv, Live, Aborting
<1>3. Init => FilterInv /\ DisjointInv
  BY ProtectedThreads DEF FilterInv, DisjointInv, Live, Aborting
<1>4. QED
  BY <1>1, <1>2, <1>3 DEF ProtocolInv

(* ProtocolInv holds at every step.  This is what the code counts on when a *)
(* committer copies its buffer under the thread mutexes only.               *)
THEOREM ProtocolCorrect == Spec => []ProtocolInv
<1>1. TypeOK /\ ProtocolInv /\ [Next]_vars => ProtocolInv'
  BY LockStep, ContextStep, FilterStep, CommitterStep, DisjointStep
  DEF ProtocolInv
<1>2. QED
  BY <1>1, TypeCorrect, ProtocolInit, PTL DEF Spec

(* Two committers never copy their buffers at the same time.                *)
THEOREM OneWriteBackCorrect == Spec => []OneWriteBack
<1>1. Init => LockInv
  BY ProtocolInit DEF ProtocolInv
<1>2. TypeOK /\ LockInv /\ [Next]_vars => LockInv'
  BY LockStep
<1>3. LockInv => OneWriteBack
  BY DEF LockInv, OneWriteBack, HoldsAll
<1>4. QED
  BY <1>1, <1>2, <1>3, TypeCorrect, PTL DEF Spec

(* No protected transaction that is not doomed holds a reference to an      *)
(* object that is being copied.                                             *)
THEOREM NoHandleUnderWriteBackCorrect == Spec => []NoHandleUnderWriteBack
<1>1. ProtocolInv => NoHandleUnderWriteBack
  BY ProtectedThreads
  DEF ProtocolInv, FilterInv, DisjointInv, NoHandleUnderWriteBack, Copying,
      Writes
<1>2. QED
  BY <1>1, ProtocolCorrect, PTL

-----------------------------------------------------------------------------
(* Deadlock.                                                                *)

(* Who waits, by what for: a committer that collects the mutexes, and the   *)
(* threads that wait for a mutex before or beside a commit.  A body that    *)
(* calls make_irrevocable() may wait for any of them.                       *)
Collects(t) == pc[t] = "lockAll"
Queues(t) ==
  \/ pc[t] \in {"idle", "general", "ready", "readLock", "writeLock"}
  \/ pc[t] = "body" /\ ~(t \in IrrevocableThread /\ ~irrevocable[t])
Spins(t) == pc[t] = "body" /\ t \in IrrevocableThread /\ ~irrevocable[t]

(* The one thread that collects waits only for threads that wait for no-    *)
(* body.                                                                    *)
LEMMA CollectorWaits ==
  ASSUME TypeOK, LockInv, NEW t \in Thread, NEW u \in Thread,
         Collects(t), WaitsFor(t, u)
  PROVE  ~Collects(u) /\ ~Queues(u) /\ ~Spins(u)
<1> USE DEF Collects, Queues, Spins, LockInv, WaitsFor
<1>1. u # t /\ \E m \in Thread : threadMutex[m] = u
  BY ConstantsAssumption
<1>2. pc[u] \in {"lockAll", "writeBack", "unlockAll"} \cup Aborting
  BY <1>1
<1>3. pc[u] # "lockAll"
  BY <1>1
<1>4. QED
  BY <1>2, <1>3 DEF Aborting

(* A thread in a queue waits for a committer, never for another in a queue. *)
LEMMA QueueWaits ==
  ASSUME TypeOK, LockInv, NEW t \in Thread, NEW u \in Thread,
         Queues(t), WaitsFor(t, u)
  PROVE  ~Queues(u) /\ ~Spins(u)
<1> USE DEF Queues, Spins, LockInv, WaitsFor
<1>1. CASE pc[t] \in {"idle", "general"} /\ transactionMutex = u
  BY <1>1
<1>2. CASE pc[t] \in {"ready", "body", "readLock", "writeLock"} /\ threadMutex[t] = u
  BY <1>2 DEF Aborting
<1>3. QED
  BY <1>1, <1>2

(* The other irrevocable transaction does not spin itself.                  *)
LEMMA SpinWaits ==
  ASSUME TypeOK, LockInv, NEW t \in Thread, NEW u \in Thread,
         Spins(t), WaitsFor(t, u)
  PROVE  ~Spins(u)
<1> USE DEF Spins, LockInv, WaitsFor
<1>1. CASE threadMutex[t] = u
  BY <1>1 DEF Aborting
<1>2. CASE irrevocable[u]
  BY <1>2
<1>3. QED
  BY <1>1, <1>2

(* Only these three kinds of threads wait.                                  *)
LEMMA OthersDoNotWait ==
  ASSUME NEW t \in Thread, ~Collects(t), ~Queues(t), ~Spins(t)
  PROVE  \A u \in Thread : ~WaitsFor(t, u)
  BY DEF Collects, Queues, Spins, WaitsFor

(* In any group of threads one can be picked that waits for nobody in it:   *)
(* one that does not wait at all, else the collector, else one in a queue.  *)
LEMMA LocksOrdered ==
  ASSUME TypeOK, LockInv
  PROVE  NoWaitingCycle
<1> SUFFICES ASSUME NEW S \in (SUBSET Thread) \ {{}}
             PROVE  \E t \in S : \A u \in S : ~WaitsFor(t, u)
  BY DEF NoWaitingCycle
<1>1. CASE \E t \in S : ~Collects(t) /\ ~Queues(t) /\ ~Spins(t)
  BY <1>1, OthersDoNotWait
<1>2. CASE /\ \E t \in S : Collects(t)
           /\ \A t \in S : Collects(t) \/ Queues(t) \/ Spins(t)
  <2>1. PICK t \in S : Collects(t)
    BY <1>2
  <2>2. \A u \in S : ~WaitsFor(t, u)
    BY <1>2, <2>1, CollectorWaits
  <2>3. QED
    BY <2>2
<1>3. CASE /\ \E t \in S : Queues(t)
           /\ \A t \in S : Queues(t) \/ Spins(t)
  <2>1. PICK t \in S : Queues(t)
    BY <1>3
  <2>2. \A u \in S : ~WaitsFor(t, u)
    BY <1>3, <2>1, QueueWaits
  <2>3. QED
    BY <2>2
<1>4. CASE \A t \in S : Spins(t)
  <2>1. PICK t \in S : TRUE
    OBVIOUS
  <2>2. \A u \in S : ~WaitsFor(t, u)
    BY <1>4, SpinWaits
  <2>3. QED
    BY <2>2
<1>5. QED
  BY <1>1, <1>2, <1>3, <1>4

(* However many threads commit, abort and become irrevocable, no group of   *)
(* them ever waits for one another in a cycle.                              *)
THEOREM NoWaitingCycleCorrect == Spec => []NoWaitingCycle
<1>1. Init => LockInv
  BY ProtocolInit DEF ProtocolInv
<1>2. TypeOK /\ LockInv /\ [Next]_vars => LockInv'
  BY LockStep
<1>3. TypeOK /\ LockInv => NoWaitingCycle
  BY LocksOrdered
<1>4. QED
  BY <1>1, <1>2, <1>3, TypeCorrect, PTL DEF Spec
=============================================================================
