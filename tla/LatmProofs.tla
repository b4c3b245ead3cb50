----------------------------- MODULE LatmProofs -----------------------------
(* Theorems about Latm, for every value of its constants.                   *)
EXTENDS Latm, TLAPS

LEMMA TypeInit == Init => TypeOK
  BY LatmAssumption DEF Init, TypeOK, NoCall, Location, Section

(* What the steps of a call do to the call keeps the types of its two       *)
(* variables.                                                               *)
CallTypes ==
  /\ todo \in [Thread -> Seq(CallStep)]
  /\ call \in [Thread -> [mutex : Mutex \cup {NoMutex}, try : BOOLEAN,
                          had : BOOLEAN]]
  /\ \A t \in Thread : todo[t] # <<>> => call[t].mutex \in Mutex

LEMMA NoCallType ==
  NoCall \in [mutex : Mutex \cup {NoMutex}, try : BOOLEAN, had : BOOLEAN]
  BY DEF NoCall

LEMMA ReturnTypes ==
  ASSUME CallTypes, NEW t \in Thread, Returns(t)
  PROVE  CallTypes'
<1>1. <<>> \in Seq(CallStep)
  OBVIOUS
<1> QED
  BY <1>1, NoCallType DEF CallTypes, Returns

LEMMA ProceedTypes ==
  ASSUME CallTypes, NEW t \in Thread, todo[t] # <<>>, Proceed(t)
  PROVE  CallTypes'
<1>1. todo[t] \in Seq(CallStep)
  BY DEF CallTypes
<1>2. Tail(todo[t]) \in Seq(CallStep)
  BY <1>1
<1>3. todo' \in [Thread -> Seq(CallStep)]
  BY <1>2 DEF CallTypes, Proceed
<1>4. call' \in [Thread -> [mutex : Mutex \cup {NoMutex}, try : BOOLEAN,
                           had : BOOLEAN]]
  BY NoCallType DEF CallTypes, Proceed
<1>5. ASSUME NEW u \in Thread, todo'[u] # <<>>
      PROVE  call'[u].mutex \in Mutex
  BY <1>5 DEF CallTypes, Proceed
<1> QED
  BY <1>3, <1>4, <1>5 DEF CallTypes

(* A call starts with a program of steps.                                   *)
LEMMA ProgramTypes ==
  ASSUME NEW try \in BOOLEAN, policy \in {"full", "tm", "tx"}
  PROVE  /\ LockFunction(try).outside \in Seq(CallStep)
         /\ LockFunction(try).inTx \in Seq(CallStep)
         /\ PthreadLock.outside \in Seq(CallStep)
<1>1. /\ DefFullLock.outside \in Seq(CallStep)
      /\ DefFullLock.inTx \in Seq(CallStep)
  BY DEF CallStep, DefFullLock
<1>2. /\ DirFullLock.outside \in Seq(CallStep)
      /\ DirFullLock.inTx \in Seq(CallStep)
  BY DEF CallStep, DirFullLock
<1>3. /\ DefTmLock.outside \in Seq(CallStep)
      /\ DefTmLock.inTx \in Seq(CallStep)
  BY DEF CallStep, DefTmLock
<1>4. /\ DirTmLock.outside \in Seq(CallStep)
      /\ DirTmLock.inTx \in Seq(CallStep)
  BY DEF CallStep, DirTmLock
<1>5. /\ DefTxLock.outside \in Seq(CallStep)
      /\ DefTxLock.inTx \in Seq(CallStep)
  BY DEF CallStep, DefTxLock
<1>6. /\ DirTxLock.outside \in Seq(CallStep)
      /\ DirTxLock.inTx \in Seq(CallStep)
  BY DEF CallStep, DirTxLock
<1>7. /\ DefTxTrylock.outside \in Seq(CallStep)
      /\ DefTxTrylock.inTx \in Seq(CallStep)
  BY DEF CallStep, DefTxTrylock
<1>8. /\ PthreadLock.outside \in Seq(CallStep)
      /\ PthreadLock.inTx \in Seq(CallStep)
  BY <1>1, <1>2, <1>3, <1>4, <1>5, <1>6 DEF PthreadLock
<1>9. /\ PthreadTrylock.outside \in Seq(CallStep)
      /\ PthreadTrylock.inTx \in Seq(CallStep)
  BY <1>1, <1>2, <1>3, <1>4, <1>7
     DEF PthreadTrylock, DefFullTrylock, DirFullTrylock, DefTmTrylock,
         DirTmTrylock, DirTxTrylock
<1> QED
  BY <1>8, <1>9 DEF LockFunction

LEMMA CallsTypes ==
  ASSUME CallTypes, NEW t \in Thread, NEW m \in Mutex, NEW try \in BOOLEAN,
         NEW steps \in Seq(CallStep), Calls(t, m, try, steps)
  PROVE  CallTypes'
<1>1. (m \in currentlyLockedLocks[t]) \in BOOLEAN
  OBVIOUS
<1>2. [mutex |-> m, try |-> try, had |-> m \in currentlyLockedLocks[t]]
        \in [mutex : Mutex \cup {NoMutex}, try : BOOLEAN, had : BOOLEAN]
  BY <1>1
<1> QED
  BY <1>2 DEF CallTypes, Calls

LEMMA ForceToAbortType ==
  ASSUME NEW ts, ForceToAbort(ts)
  PROVE  forcedToAbort' \in [Thread -> BOOLEAN]
  BY Zenon DEF ForceToAbort

(* What the core of a lock leaves behind.                                   *)
LockTypes ==
  /\ locksOfThread \in [Mutex -> Thread \cup {NoThread}]
  /\ locksAndThreadIds \in [Mutex -> SUBSET Thread]
  /\ blocked \in [Thread -> BOOLEAN]

LEMMA CoreTypes ==
  ASSUME TypeOK, NEW t \in Thread, NEW m \in Mutex, Core(t, m)
  PROVE  LockTypes' /\ forcedToAbort' \in [Thread -> BOOLEAN]
<1>1. Victims(t, m) \subseteq Thread
  BY DEF Victims, Others, InFlight, TypeOK
<1>2. CASE DefCoreFull(t, m)
  BY <1>2, ForceToAbortType DEF DefCoreFull, LockTypes, TypeOK
<1>3. CASE DirCoreFull(t, m)
  <2>1. blocked' \in [Thread -> BOOLEAN]
    BY <1>3, Zenon DEF DirCoreFull
  <2> QED
    BY <1>3, <2>1, ForceToAbortType DEF DirCoreFull, LockTypes, TypeOK
<1>4. CASE DefCoreTx(t, m)
  <2>1. blocked' \in [Thread -> BOOLEAN]
    BY <1>4, Zenon DEF DefCoreTx
  <2> QED
    BY <1>1, <1>4, <2>1, ForceToAbortType DEF DefCoreTx, LockTypes, TypeOK
<1>5. CASE DirCoreTx(t, m)
  <2>1. blocked' \in [Thread -> BOOLEAN]
    BY <1>5, Zenon DEF DirCoreTx
  <2> QED
    BY <1>1, <1>5, <2>1, ForceToAbortType DEF DirCoreTx, LockTypes, TypeOK
<1> QED
  BY <1>2, <1>3, <1>4, <1>5 DEF Core, DefCoreTm, DirCoreTm

LEMMA UnlockTypes ==
  ASSUME TypeOK, NEW m \in Mutex, PthreadUnlock(m)
  PROVE  /\ latmLockedLocks' \subseteq Mutex
         /\ locksAndThreadIds' \in [Mutex -> SUBSET Thread]
         /\ blocked' \in [Thread -> BOOLEAN]
<1>1. CASE DefFullUnlock(m)
  BY <1>1 DEF DefFullUnlock, Erases, TypeOK
<1>2. CASE DirFullUnlock(m)
  <2>1. blocked' \in [Thread -> BOOLEAN]
    BY <1>2, Zenon DEF DirFullUnlock
  <2> QED
    BY <1>2, <2>1 DEF DirFullUnlock, Erases, TypeOK
<1>3. CASE DefTxUnlock(m)
  <2>1. blocked' \in [Thread -> BOOLEAN]
    BY <1>3, Zenon DEF DefTxUnlock
  <2> QED
    BY <1>3, <2>1 DEF DefTxUnlock, TypeOK
<1> QED
  BY <1>1, <1>2, <1>3
     DEF PthreadUnlock, DefTmUnlock, DirTmUnlock, DirTxUnlock

LEMMA DeclarationTypes ==
  ASSUME TypeOK, NEW t \in Thread, NEW declared \in SUBSET Mutex,
         SeeIfTxMustBlock(t, declared)
  PROVE  /\ locksAndThreadIds' \in [Mutex -> SUBSET Thread]
         /\ blocked' \in [Thread -> BOOLEAN]
<1>1. blocked' \in [Thread -> BOOLEAN]
  <2> DEFINE now == \/ blocked[t]
                    \/ \E k \in declared : locksAndThreadIds[k] # {}
                    \/ ConflictMutex(t, declared)
                    \/ TakenByOthers(t, declared) # {}
  <2>1. now \in BOOLEAN
    BY Zenon
  <2>2. blocked' = [blocked EXCEPT ![t] = now]
    BY DEF SeeIfTxMustBlock
  <2> HIDE DEF now
  <2> QED
    BY <2>1, <2>2 DEF TypeOK
<1>2. TakenByOthers(t, declared) \subseteq Mutex
  BY DEF TakenByOthers
<1>3. CASE TakenByOthers(t, declared) = {}
  BY <1>1, <1>3 DEF SeeIfTxMustBlock, TypeOK
<1>4. CASE TakenByOthers(t, declared) # {}
  <2>1. PICK k \in TakenByOthers(t, declared) :
          locksAndThreadIds' = [locksAndThreadIds EXCEPT ![k] = @ \cup {t}]
    BY <1>4 DEF SeeIfTxMustBlock
  <2> QED
    BY <1>1, <1>2, <2>1 DEF TypeOK
<1> QED
  BY <1>3, <1>4

(* The mutex of the in-flight sections and where the threads are in them.   *)
SectionTypes ==
  /\ inflightMutex \in Thread \cup {NoThread}
  /\ section \in [Thread -> Section]

LEMMA LeavesTypes ==
  ASSUME SectionTypes, NEW t \in Thread, Leaves(t)
  PROVE  SectionTypes'
BY DEF SectionTypes, Leaves, Section

(* unlock_() frees the mutex of whoever holds it, and leaves the sections.  *)
LEMMA UnlockSections ==
  ASSUME NEW t \in Thread, Unlock(t)
  PROVE  inflightMutex' \in {inflightMutex, NoThread} /\ section' = section
<1>1. section' = section
  BY DEF Unlock
<1>2. ASSUME NEW m, PthreadUnlock(m)
      PROVE  inflightMutex' \in {inflightMutex, NoThread}
  BY <1>2 DEF PthreadUnlock, DefFullUnlock, DirFullUnlock, DefTmUnlock,
     DirTmUnlock, DefTxUnlock, DirTxUnlock, StrayUnlock
<1> QED
  BY <1>1, <1>2 DEF Unlock

LEMMA SectionStep ==
  ASSUME SectionTypes, [Next]_vars
  PROVE  SectionTypes'
<1>1. ASSUME NEW t \in Thread, EnterInflight(t) \/ PassGate(t) \/ LeaveInflight(t)
      PROVE  SectionTypes'
  BY <1>1 DEF EnterInflight, PassGate, LeaveInflight, SectionTypes, Section
<1>2. ASSUME NEW t \in Thread, PutTxInflight(t)
      PROVE  SectionTypes'
  BY <1>2, LeavesTypes DEF PutTxInflight
<1>3. ASSUME NEW t \in Thread, Unlock(t)
      PROVE  SectionTypes'
  BY <1>3, UnlockSections DEF SectionTypes
<1>4. CASE UNCHANGED sectionVars
  BY <1>4 DEF sectionVars, SectionTypes
<1>5. CASE UNCHANGED vars
  BY <1>5 DEF vars, sectionVars, SectionTypes
<1> QED
  BY <1>1, <1>2, <1>3, <1>4, <1>5, LeavesTypes DEF Next, Step

LEMMA OvertakesType ==
  ASSUME Overtakes
  PROVE  overtaken' \in [Thread -> BOOLEAN]
BY Zenon DEF Overtakes

(* No step takes a variable out of its type.                                *)
LEMMA TypeStep ==
  ASSUME TypeOK, [Next]_vars
  PROVE  TypeOK'
<1> USE TypeOK, LatmAssumption
<1> CallTypes
  BY DEF TypeOK, CallTypes
<1> SectionTypes'
  BY SectionStep DEF TypeOK, SectionTypes
<1>1. ASSUME NEW m \in Mutex, TmLockConflict(m)
      PROVE  TypeOK'
  BY <1>1 DEF TmLockConflict, TypeOK, SectionTypes, config, lockVars, declVars, heldVars,
         txVars, control
<1>2. ASSUME NEW t \in Thread, NEW m \in Mutex, AddTxConflictingLock(t, m)
       PROVE  TypeOK'
  <2>1. /\ locksAndThreadIds' \in [Mutex -> SUBSET Thread]
        /\ blocked' \in [Thread -> BOOLEAN]
    BY <1>2, DeclarationTypes DEF AddTxConflictingLock, TypeOK
  <2> QED
    BY <1>2, <2>1 DEF AddTxConflictingLock, TypeOK, SectionTypes, config, lockVars,
           declVars, heldVars, txVars, control, Goto, Location
<1>3. ASSUME NEW t \in Thread, Declared(t)
       PROVE  TypeOK'
  BY <1>3 DEF Declared, TypeOK, SectionTypes, config, lockVars, declVars, heldVars,
         txVars, control, Goto, Location
<1>4. ASSUME NEW t \in Thread, Begin(t)
       PROVE  TypeOK'
  BY <1>4 DEF Begin, TypeOK, SectionTypes, config, lockVars, declVars, heldVars, txVars,
         control, Goto, Location
<1>5. ASSUME NEW t \in Thread, PutTxInflight(t)
       PROVE  TypeOK'
  BY <1>5 DEF PutTxInflight, TypeOK, SectionTypes, config, lockVars,
     declVars, heldVars, txVars, control, Goto, Location, InFlight
<1>6. ASSUME NEW t \in Thread, Abort(t)
       PROVE  TypeOK'
  <2>1. CallTypes'
    BY <1>6, ReturnTypes DEF Abort, Aborts
  <2> QED
    BY <1>6, <2>1 DEF Abort, TypeOK, SectionTypes, config, lockVars, declVars, heldVars,
           txVars, control, Aborts, CallTypes, Goto, Location, InFlight
<1>7. ASSUME NEW t \in Thread, Unwind(t)
       PROVE  TypeOK'
  <2>1. CallTypes'
    BY <1>7, ReturnTypes DEF Unwind, Aborts
  <2> QED
    BY <1>7, <2>1 DEF Unwind, TypeOK, SectionTypes, config, lockVars, declVars, heldVars,
           txVars, control, Aborts, CallTypes, Goto, Location, InFlight
<1>8. ASSUME NEW t \in Thread, EndReadOnly(t)
       PROVE  TypeOK'
  BY <1>8 DEF EndReadOnly, TypeOK, SectionTypes, config, lockVars, declVars, heldVars,
         txVars, control, Goto, Location
<1>9. ASSUME NEW t \in Thread, LeaveReadOnly(t)
       PROVE  TypeOK'
  <2>1. blocked' \in [Thread -> BOOLEAN]
    BY <1>9, Zenon DEF LeaveReadOnly, Commits, ClearLatmObtainedLocks
  <2> QED
    BY <1>9, <2>1 DEF LeaveReadOnly, TypeOK, SectionTypes, config, lockVars, declVars,
           heldVars, txVars, control, Commits, ClearLatmObtainedLocks, Goto,
           Location, InFlight
<1>10. ASSUME NEW t \in Thread, Decide(t)
       PROVE  TypeOK'
  <2>1. forcedToAbort' \in [Thread -> BOOLEAN]
    BY <1>10, ForceToAbortType DEF Decide
  <2> QED
    BY <1>10, <2>1 DEF Decide, TypeOK, SectionTypes, config, lockVars, declVars, heldVars,
           txVars, control, Goto, Location, InFlight
<1>11. ASSUME NEW t \in Thread, WriteBackDone(t)
       PROVE  TypeOK'
  <2>1. blocked' \in [Thread -> BOOLEAN]
    BY <1>11, Zenon DEF WriteBackDone, Commits, ClearLatmObtainedLocks
  <2> QED
    BY <1>11, <2>1 DEF WriteBackDone, TypeOK, SectionTypes, config, lockVars, declVars,
           heldVars, txVars, control, Commits, ClearLatmObtainedLocks, Goto,
           Location
<1>12. ASSUME NEW t \in Thread, DirectCommit(t)
       PROVE  TypeOK'
  <2>1. blocked' \in [Thread -> BOOLEAN]
    BY <1>12, Zenon DEF DirectCommit, Commits, ClearLatmObtainedLocks
  <2>2. forcedToAbort' \in [Thread -> BOOLEAN]
    BY <1>12, ForceToAbortType DEF DirectCommit
  <2> QED
    BY <1>12, <2>1, <2>2 DEF DirectCommit, TypeOK, SectionTypes, config, lockVars,
           declVars, heldVars, txVars, control, Commits,
           ClearLatmObtainedLocks, Goto, Location, InFlight
<1>13. ASSUME NEW t \in Thread, CommitDenied(t)
       PROVE  TypeOK'
  <2>1. CallTypes'
    BY <1>13, ReturnTypes DEF CommitDenied, Aborts
  <2> QED
    BY <1>13, <2>1 DEF CommitDenied, TypeOK, SectionTypes, config, lockVars, declVars,
           heldVars, txVars, control, Aborts, CallTypes, Goto, Location,
           InFlight
<1>14. ASSUME NEW t \in Thread, NEW m \in Mutex,
              NEW try \in BOOLEAN, LockCall(t, m, try)
       PROVE  TypeOK'
  <2>1. CallTypes'
    BY <1>14, ProgramTypes, CallsTypes DEF LockCall, TypeOK
  <2> QED
    BY <1>14, <2>1 DEF LockCall, TypeOK, SectionTypes, config, lockVars, declVars,
           heldVars, txVars, control, CallTypes, Goto, Location, Calls
<1>15. ASSUME NEW t \in Thread, TakeMutex(t)
       PROVE  TypeOK'
  <2>1. CallTypes'
    BY <1>15, ProceedTypes DEF TakeMutex, Next1
  <2> QED
    BY <1>15, <2>1 DEF TakeMutex, TypeOK, SectionTypes, config, lockVars, declVars,
           heldVars, txVars, control, CallTypes
<1>16. ASSUME NEW t \in Thread, TrylockFails(t)
       PROVE  TypeOK'
  <2>1. CallTypes'
    BY <1>16, ReturnTypes DEF TrylockFails
  <2> QED
    BY <1>16, <2>1 DEF TrylockFails, TypeOK, SectionTypes, config, lockVars, declVars,
           heldVars, txVars, control, CallTypes
<1>17. ASSUME NEW t \in Thread, CoreGranted(t)
       PROVE  TypeOK'
  <2>1. Arg(t) \in Mutex
    BY <1>17 DEF CoreGranted, AtCore, Next1, Arg, CallTypes
  <2>2. CallTypes'
    BY <1>17, ProceedTypes DEF CoreGranted, AtCore, Next1
  <2>3. LockTypes' /\ forcedToAbort' \in [Thread -> BOOLEAN]
    BY <1>17, <2>1, CoreTypes DEF CoreGranted
  <2>4. overtaken' \in [Thread -> BOOLEAN]
    BY <1>17, OvertakesType DEF CoreGranted, TypeOK
  <2> QED
    BY <1>17, <2>1, <2>2, <2>3, <2>4 DEF CoreGranted, TypeOK, SectionTypes, config, lockVars,
           declVars, heldVars, txVars, control, LockTypes, CallTypes
<1>18. ASSUME NEW t \in Thread, CoreRefused(t)
       PROVE  TypeOK'
  <2>1. /\ todo[t] # <<>>
        /\ Arg(t) \in Mutex
    BY <1>18 DEF CoreRefused, AtCore, Next1, Arg, CallTypes
  <2>2. PthreadLock.outside \in Seq(CallStep)
    BY ProgramTypes DEF TypeOK
  <2>3. CallTypes'
    <3>1. CASE call[t].try
      BY <1>18, <3>1, ReturnTypes DEF CoreRefused
    <3>2. CASE ~call[t].try
      BY <1>18, <2>1, <2>2, <3>2 DEF CoreRefused, CallTypes, Arg
    <3> QED
      BY <3>1, <3>2
  <2> QED
    BY <1>18, <2>1, <2>2, <2>3 DEF CoreRefused, TypeOK, SectionTypes, config, lockVars,
           declVars, heldVars, txVars, control, CallTypes
<1>19. ASSUME NEW t \in Thread, Drained(t)
       PROVE  TypeOK'
  <2>1. Arg(t) \in Mutex
    BY <1>19 DEF Drained, Next1, Arg, CallTypes
  <2>2. CallTypes'
    BY <1>19, ProceedTypes DEF Drained, Next1
  <2>3. slipped' \in [Thread -> BOOLEAN]
    BY <1>19, Zenon DEF Drained
  <2> QED
    BY <1>19, <2>1, <2>2, <2>3 DEF Drained, TypeOK, SectionTypes, config, lockVars, declVars,
           heldVars, txVars, control, CallTypes
<1>20. ASSUME NEW t \in Thread, Register(t)
       PROVE  TypeOK'
  <2>1. CallTypes'
    BY <1>20, ProceedTypes DEF Register, Next1
  <2>2. latmLockedLocks' \subseteq Mutex
    BY <1>20 DEF Register, Inserts, Next1, Arg, CallTypes, TypeOK
  <2> QED
    BY <1>20, <2>1, <2>2 DEF Register, TypeOK, SectionTypes, config, lockVars, declVars,
           heldVars, txVars, control, CallTypes
<1>21. ASSUME NEW t \in Thread, Unlock(t)
       PROVE  TypeOK'
  <2>1. Arg(t) \in Mutex
    BY <1>21 DEF Unlock, Next1, Arg, CallTypes
  <2>2. /\ latmLockedLocks' \subseteq Mutex
        /\ locksAndThreadIds' \in [Mutex -> SUBSET Thread]
        /\ blocked' \in [Thread -> BOOLEAN]
    BY <1>21, <2>1, UnlockTypes DEF Unlock
  <2>3. slipped' \in [Thread -> BOOLEAN]
    BY <1>21, Zenon DEF Unlock, SlippedPast
  <2>4. CallTypes'
    BY <1>21, ProceedTypes DEF Unlock, Next1
  <2> QED
    BY <1>21, <2>1, <2>2, <2>3, <2>4 DEF Unlock, TypeOK, SectionTypes,
       CallTypes, config, declVars
<1>22. ASSUME NEW t \in Thread, NEW m \in Mutex, UnlockThrows(t, m)
       PROVE  TypeOK'
  <2>1. CallTypes'
    BY <1>22, ReturnTypes DEF UnlockThrows, Aborts
  <2> QED
    BY <1>22, <2>1 DEF UnlockThrows, TypeOK, SectionTypes, config, lockVars, declVars,
           heldVars, txVars, control, Aborts, CallTypes, Goto, Location,
           InFlight
<1>23. ASSUME NEW t \in Thread, NEW m \in Mutex,
              NEW try \in BOOLEAN, LockInTx(t, m, try)
       PROVE  TypeOK'
  <2>1. CallTypes'
    BY <1>23, ProgramTypes, CallsTypes DEF LockInTx, TypeOK
  <2> QED
    BY <1>23, <2>1 DEF LockInTx, TypeOK, SectionTypes, config, lockVars, declVars,
           heldVars, txVars, control, CallTypes, Goto, Location, Calls
<1>24. ASSUME NEW t \in Thread, MakeIsolated(t)
       PROVE  TypeOK'
  <2>1. CallTypes'
    BY <1>24, ProceedTypes DEF MakeIsolated, Next1
  <2>2. forcedToAbort' \in [Thread -> BOOLEAN]
    BY <1>24, ForceToAbortType DEF MakeIsolated, TypeOK
  <2>3. overtaken' \in [Thread -> BOOLEAN]
    BY <1>24, OvertakesType DEF MakeIsolated, TypeOK
  <2> QED
    BY <1>24, <2>1, <2>2, <2>3 DEF MakeIsolated, TypeOK, SectionTypes, config, lockVars,
           declVars, heldVars, txVars, control, CallTypes
<1>25. ASSUME NEW t \in Thread, MakeIrrevocable(t)
       PROVE  TypeOK'
  <2>1. CallTypes'
    BY <1>25, ProceedTypes DEF MakeIrrevocable, Next1
  <2> QED
    BY <1>25, <2>1 DEF MakeIrrevocable, TypeOK, SectionTypes, config, lockVars, declVars,
           heldVars, txVars, control, CallTypes
<1>26. ASSUME NEW t \in Thread, Publish(t)
       PROVE  TypeOK'
  <2>1. CallTypes'
    BY <1>26, ProceedTypes DEF Publish, Next1
  <2> QED
    BY <1>26, <2>1 DEF Publish, TypeOK, SectionTypes, config, lockVars, declVars,
           heldVars, txVars, control, CallTypes
<1>27. ASSUME NEW t \in Thread, List(t)
       PROVE  TypeOK'
  <2>1. Arg(t) \in Mutex
    BY <1>27 DEF List, Next1, Arg, CallTypes
  <2>2. CallTypes'
    BY <1>27, ProceedTypes DEF List, Next1
  <2> QED
    BY <1>27, <2>1, <2>2 DEF List, TypeOK, SectionTypes, config, lockVars, declVars,
           heldVars, txVars, control, CallTypes
<1>28. ASSUME NEW t \in Thread, Note(t)
       PROVE  TypeOK'
  <2>1. CallTypes'
    BY <1>28, ProceedTypes DEF Note, Next1
  <2> QED
    BY <1>28, <2>1 DEF Note, TypeOK, SectionTypes, config, lockVars, declVars, heldVars,
           txVars, control, CallTypes
<1>29. ASSUME NEW t \in Thread, Take(t)
       PROVE  TypeOK'
  <2>1. CallTypes'
    BY <1>29, ProceedTypes DEF Take, Next1
  <2> QED
    BY <1>29, <2>1 DEF Take, TypeOK, SectionTypes, config, lockVars, declVars, heldVars,
           txVars, control, CallTypes
<1>30. ASSUME NEW t \in Thread, TakeFails(t)
       PROVE  TypeOK'
  <2>1. CallTypes'
    BY <1>30, ProceedTypes DEF TakeFails, Next1
  <2> QED
    BY <1>30, <2>1 DEF TakeFails, TypeOK, SectionTypes, config, lockVars, declVars,
           heldVars, txVars, control, CallTypes
<1>31. ASSUME NEW t \in Thread, Suspend(t)
       PROVE  TypeOK'
  <2>1. CallTypes'
    BY <1>31, ProceedTypes DEF Suspend, Next1
  <2>2. forcedToAbort' \in [Thread -> BOOLEAN]
    BY <1>31, ForceToAbortType DEF Suspend, DefCoreTx
  <2>3. blocked' \in [Thread -> BOOLEAN]
    BY <1>31, Zenon DEF Suspend, DefCoreTx, TypeOK
  <2>4. Victims(t, Arg(t)) \subseteq Thread
    BY DEF Victims, Others, InFlight, TypeOK
  <2> QED
    BY <1>31, <2>1, <2>2, <2>3, <2>4 DEF Suspend, TypeOK, SectionTypes, config, lockVars,
           declVars, heldVars, txVars, control, DefCoreTx, CallTypes
<1>32. ASSUME NEW t \in Thread, PassGate(t)
       PROVE  TypeOK'
  <2>1. Slips(t) \in BOOLEAN
    BY Zenon DEF Slips
  <2> QED
    BY <1>32, <2>1 DEF PassGate, TypeOK, SectionTypes, config, lockVars,
       declVars, heldVars, control, InFlight
<1>33. ASSUME NEW t \in Thread, EnterInflight(t)
       PROVE  TypeOK'
  BY <1>33 DEF EnterInflight, TypeOK, SectionTypes, config, declVars,
     heldVars, txVars, control
<1>34. ASSUME NEW t \in Thread, LeaveInflight(t)
       PROVE  TypeOK'
  BY <1>34 DEF LeaveInflight, TypeOK, SectionTypes, config, lockVars,
     declVars, heldVars, txVars, control
<1>35. ASSUME NEW t \in Thread, NEW m \in Mutex, UnlockCall(t, m)
       PROVE  TypeOK'
  <2>1. <<"look", "unlock">> \in Seq(CallStep)
    BY DEF CallStep
  <2>2. [NoCall EXCEPT !.mutex = m]
          \in [mutex : Mutex \cup {NoMutex}, try : BOOLEAN, had : BOOLEAN]
    BY DEF NoCall
  <2>3. CallTypes'
    BY <1>35, <2>1, <2>2 DEF UnlockCall, NoCall, CallTypes
  <2> QED
    BY <1>35, <2>3 DEF UnlockCall, TypeOK, SectionTypes, config, declVars,
       heldVars, txVars, CallTypes
<1>36. ASSUME NEW t \in Thread, Look(t)
       PROVE  TypeOK'
  <2>1. CallTypes'
    BY <1>36, ProceedTypes DEF Look, Next1
  <2> QED
    BY <1>36, <2>1 DEF Look, TypeOK, SectionTypes, config, lockVars,
       declVars, heldVars, txVars, CallTypes
<1>37. CASE UNCHANGED vars
  BY <1>37 DEF vars, TypeOK, SectionTypes, config, lockVars, declVars,
     heldVars, txVars, control
<1> QED
  BY <1>1, <1>2, <1>3, <1>4, <1>5, <1>6, <1>7, <1>8, <1>9, <1>10, <1>11,
     <1>12, <1>13, <1>14, <1>15, <1>16, <1>17, <1>18, <1>19, <1>20, <1>21,
     <1>22, <1>23, <1>24, <1>25, <1>26, <1>27, <1>28, <1>29, <1>30, <1>31,
     <1>32, <1>33, <1>34, <1>35, <1>36, <1>37
  DEF Next, Step, TxSection, LockSection, LockInTxSection, TxStep, LockStep,
      LockInTxStep

(* Every variable of Latm keeps its type, whatever the threads, the mutexes,*)
(* the protection and the kind of update.                                   *)
THEOREM TypeCorrect == Spec => []TypeOK
<1>1. Init => TypeOK
  BY TypeInit
<1>2. TypeOK /\ [Next]_vars => TypeOK'
  BY TypeStep
<1> QED
  BY <1>1, <1>2, PTL DEF Spec

-----------------------------------------------------------------------------
(* The gate.  Where nobody frees the in-flight mutex of another thread, the *)
(* thread that has passed the gate holds it; and wherever it is, it does    *)
(* nothing else before it is in the list.                                   *)
GateInv ==
  /\ \A t \in Thread : AtGate(t) => At(t, "entering")
  /\ ~Strays => \A t \in Thread :
       section[t] \in {"none", "gate"} /\ (AtGate(t) => inflightMutex = t)

(* A step of t that is neither through the gate nor into the list.          *)
Onward(t) ==
  /\ section[t] # "gate"
  /\ \A u \in Thread : section'[u] = "gate" <=> section[u] = "gate"

(* Who is in flight, or will be with the next step.                         *)
Present == InFlight \cup {t \in Thread : section[t] = "gate"}

LEMMA OnwardStep ==
  ASSUME TypeOK, NEW t \in Thread, Step(t)
  PROVE  PassGate(t) \/ PutTxInflight(t) \/ Onward(t)
<1>1. CASE EnterInflight(t) \/ LeaveInflight(t)
  BY <1>1 DEF EnterInflight, LeaveInflight, Onward, TypeOK
<1>2. CASE Inside(t) /\ Leaves(t)
  BY <1>2 DEF Inside, Leaves, Onward, TypeOK
<1>3. CASE section[t] = "none" /\ UNCHANGED sectionVars
  BY <1>3 DEF sectionVars, Onward
<1>4. CASE section[t] = "none" /\ Unlock(t)
  BY <1>4, UnlockSections DEF Onward
<1> QED
  BY <1>1, <1>2, <1>3, <1>4 DEF Step

(* A step of t leaves the calls and the places of the others alone.         *)
Elsewhere(t) ==
  /\ UNCHANGED config
  /\ \A u \in Thread \ {t} :
       todo'[u] = todo[u] /\ call'[u] = call[u] /\ pc'[u] = pc[u]

LEMMA OthersStay ==
  ASSUME TypeOK, NEW t \in Thread, Step(t)
  PROVE  Elsewhere(t)
<1> USE DEF TypeOK
<1>1. CASE EnterInflight(t) \/ LeaveInflight(t) \/ PassGate(t) \/ PutTxInflight(t)
  BY <1>1 DEF EnterInflight, LeaveInflight, PassGate, PutTxInflight, control,
     Goto, Elsewhere
<1>2. CASE TxStep(t)
  BY <1>2 DEF TxStep, Declared, Begin, EndReadOnly, WriteBackDone, Commits,
     Goto, Elsewhere
<1>3. CASE TxSection(t)
  <2>1. ASSUME NEW m \in Mutex, AddTxConflictingLock(t, m)
        PROVE  Elsewhere(t)
    BY <2>1 DEF AddTxConflictingLock, Goto, Elsewhere
  <2>2. CASE Abort(t) \/ Unwind(t) \/ CommitDenied(t)
    BY <2>2 DEF Abort, Unwind, CommitDenied, Aborts, Returns, Goto, Elsewhere
  <2>3. CASE LeaveReadOnly(t) \/ Decide(t) \/ DirectCommit(t)
    BY <2>3 DEF LeaveReadOnly, Decide, DirectCommit, Commits, Goto, Elsewhere
  <2> QED
    BY <1>3, <2>1, <2>2, <2>3 DEF TxSection
<1>4. CASE LockStep(t)
  <2>1. CASE TakeMutex(t) \/ TrylockFails(t) \/ CoreGranted(t)
    BY <2>1 DEF TakeMutex, TrylockFails, CoreGranted, Proceed, Returns,
       Elsewhere
  <2>2. CASE Drained(t) \/ Register(t)
    BY <2>2 DEF Drained, Register, Proceed, Elsewhere
  <2>3. ASSUME NEW m \in Mutex, UnlockCall(t, m)
        PROVE  Elsewhere(t)
    BY <2>3 DEF UnlockCall, Elsewhere
  <2> QED
    BY <1>4, <2>1, <2>2, <2>3 DEF LockStep
<1>5. CASE LockSection(t)
  <2>1. ASSUME NEW m \in Mutex, NEW try \in BOOLEAN, LockCall(t, m, try)
        PROVE  Elsewhere(t)
    BY <2>1 DEF LockCall, Calls, Elsewhere
  <2>2. CASE CoreGranted(t) \/ CoreRefused(t) \/ Look(t)
    BY <2>2 DEF CoreGranted, CoreRefused, Look, Proceed, Returns, Elsewhere
  <2>3. ASSUME NEW m \in Mutex, UnlockThrows(t, m)
        PROVE  Elsewhere(t)
    BY <2>3 DEF UnlockThrows, Aborts, Returns, Goto, Elsewhere
  <2> QED
    BY <1>5, <2>1, <2>2, <2>3 DEF LockSection
<1>6. CASE LockInTxStep(t) \/ LockInTxSection(t)
  <2>1. ASSUME NEW m \in Mutex, NEW try \in BOOLEAN, LockInTx(t, m, try)
        PROVE  Elsewhere(t)
    BY <2>1 DEF LockInTx, Calls, Elsewhere
  <2>2. CASE MakeIsolated(t) \/ MakeIrrevocable(t) \/ Publish(t) \/ List(t)
    BY <2>2 DEF MakeIsolated, MakeIrrevocable, Publish, List, Proceed,
       Elsewhere
  <2>3. CASE Note(t) \/ Take(t) \/ TakeFails(t) \/ Suspend(t)
    BY <2>3 DEF Note, Take, TakeFails, Suspend, Proceed, Elsewhere
  <2> QED
    BY <1>6, <2>1, <2>2, <2>3 DEF LockInTxStep, LockInTxSection
<1>7. CASE Unlock(t)
  BY <1>7 DEF Unlock, Proceed, Elsewhere
<1> QED
  BY <1>1, <1>2, <1>3, <1>4, <1>5, <1>6, <1>7 DEF Step

(* No step frees the in-flight mutex of a thread at the gate, except an     *)
(* unlock_() of full or tm protection with deferred update.                 *)
LEMMA GateStep ==
  ASSUME TypeOK, GateInv, [Next]_vars
  PROVE  GateInv'
<1> USE TypeOK, GateInv, LatmAssumption
<1>1. UNCHANGED config
  BY OthersStay DEF Next, TmLockConflict, vars, Elsewhere
<1>2. ASSUME NEW t \in Thread, PassGate(t)
      PROVE  GateInv'
  BY <1>1, <1>2 DEF PassGate, At, GateInv, AtGate, Inside, Strays, config,
     control, TypeOK
<1>3. ASSUME NEW t \in Thread, PutTxInflight(t)
      PROVE  GateInv'
  BY <1>1, <1>3 DEF PutTxInflight, Leaves, At, Goto, GateInv, AtGate, Strays,
     config, TypeOK
<1>4. ASSUME NEW t \in Thread, Step(t), Onward(t)
      PROVE  GateInv'
  <2>1. \A u \in Thread : AtGate(u)' => AtGate(u) /\ u # t
    BY <1>4 DEF Onward, AtGate
  <2>2. \A u \in Thread : AtGate(u)' => At(u, "entering")'
    BY <1>4, <2>1, OthersStay DEF GateInv, At, Elsewhere
  <2>3. ASSUME ~Strays, NEW u \in Thread
        PROVE  /\ section'[u] \in {"none", "gate"}
               /\ AtGate(u)' => inflightMutex' = u
    <3>1. CASE Inside(t) /\ Leaves(t)
      BY <2>3, <3>1 DEF Inside, Leaves, GateInv, AtGate, TypeOK
    <3>2. CASE UNCHANGED sectionVars
      BY <2>3, <3>2 DEF sectionVars, GateInv, AtGate
    <3>3. CASE section[t] = "none" /\ Unlock(t)
      BY <2>3, <3>3 DEF Unlock, PthreadUnlock, Strays, DirFullUnlock,
         DirTmUnlock, DefTxUnlock, DirTxUnlock, GateInv, AtGate, TypeOK
    <3>4. CASE EnterInflight(t) \/ LeaveInflight(t)
      BY <2>3, <3>4 DEF EnterInflight, LeaveInflight, GateInv
    <3> QED
      BY <1>4, <3>1, <3>2, <3>3, <3>4 DEF Step, PassGate, PutTxInflight,
         AtGate, Onward, TypeOK
  <2> QED
    BY <1>1, <2>2, <2>3 DEF GateInv, Strays, config
<1>5. CASE UNCHANGED <<sectionVars, pc, todo>> \/ UNCHANGED vars
  BY <1>1, <1>5 DEF vars, sectionVars, control, GateInv, AtGate, At, Strays,
     config
<1> QED
  BY <1>2, <1>3, <1>4, <1>5, OnwardStep DEF Next, TmLockConflict, control

-----------------------------------------------------------------------------
(* Isolation.  The flags of the others say that an isolated transaction     *)
(* runs alone only as long as nobody enters beside it, which the gate       *)
(* refuses for a transaction of that type; so the transaction that made     *)
(* itself isolated has to have that type, and has to be past the gate.  Who *)
(* is between the gate and the list already cannot be refused any more:     *)
(* with its mutex held it keeps isolation out, without it is overtaken.     *)
IsolateInTx ==
  \A t \in Thread : \A i \in 1..Len(todo[t]) :
    todo[t][i] = "isolate" => pc[t] = "body"

IsolatedPastGate ==
  \A t \in Thread :
    /\ isolatedNow[t] => Isolated(t) /\ pc[t] \notin {"out", "entering"}
    /\ t \in InFlight => pc[t] # "writeBack"

DoomedBesideIsolated ==
  \A t \in InFlight, u \in Present :
    isolatedNow[t] /\ u # t => forcedToAbort[u] \/ (Strays /\ overtaken[u])

IsolationInv ==
  /\ TypeOK /\ GateInv
  /\ IsolateInTx /\ IsolatedPastGate /\ DoomedBesideIsolated

LEMMA IsolationInit == Init => IsolationInv
<1> SUFFICES ASSUME Init PROVE IsolationInv
  OBVIOUS
<1>1. TypeOK
  BY TypeInit
<1>2. IsolateInTx
  BY DEF Init, IsolateInTx
<1>3. IsolatedPastGate /\ DoomedBesideIsolated
  BY DEF Init, IsolatedPastGate, DoomedBesideIsolated, InFlight
<1>4. GateInv
  BY DEF Init, GateInv, AtGate
<1> QED
  BY <1>1, <1>2, <1>3, <1>4 DEF IsolationInv

(* The program of a call shrinks from the front and then is gone.           *)
LEMMA ProceedIsolate ==
  ASSUME TypeOK, IsolateInTx, NEW t \in Thread, todo[t] # <<>>, Proceed(t),
         UNCHANGED pc
  PROVE  IsolateInTx'
<1>1. todo[t] \in Seq(CallStep)
  BY DEF TypeOK
<1>2. \A i \in 1..Len(Tail(todo[t])) :
        Tail(todo[t])[i] = todo[t][i + 1] /\ i + 1 \in 1..Len(todo[t])
  BY <1>1
<1>3. todo' = [todo EXCEPT ![t] = Tail(todo[t])]
  BY DEF Proceed
<1> QED
  BY <1>2, <1>3 DEF IsolateInTx, TypeOK

LEMMA ReturnIsolate ==
  ASSUME TypeOK, IsolateInTx, NEW t \in Thread, Returns(t),
         UNCHANGED pc \/ \E l \in Location : Goto(t, l)
  PROVE  IsolateInTx'
BY DEF IsolateInTx, Returns, Goto, TypeOK

(* Between two places of a transaction's life no call is in progress.       *)
LEMMA GotoIsolate ==
  ASSUME TypeOK, IsolateInTx, NEW t \in Thread, todo[t] = <<>>,
         NEW l \in Location, Goto(t, l), UNCHANGED todo
  PROVE  IsolateInTx'
BY DEF IsolateInTx, Goto, TypeOK

(* Outside of transactions no call isolates.                                *)
LEMMA OutsidePrograms ==
  ASSUME NEW try \in BOOLEAN, policy \in {"full", "tm", "tx"}
  PROVE  /\ \A i \in 1..Len(LockFunction(try).outside) :
              LockFunction(try).outside[i] # "isolate"
         /\ \A i \in 1..Len(PthreadLock.outside) :
              PthreadLock.outside[i] # "isolate"
<1> DEFINE Plain(s) == \A i \in 1..Len(s) : s[i] # "isolate"
<1>1. Plain(<<"mutex", "core", "register">>)
  OBVIOUS
<1>2. Plain(<<"mutex", "core", "drain", "register">>)
  OBVIOUS
<1>3. Plain(<<>>)
  OBVIOUS
<1> HIDE DEF Plain
<1>4. /\ Plain(DefFullLock.outside) /\ Plain(DirFullLock.outside)
      /\ Plain(DefTmLock.outside) /\ Plain(DirTmLock.outside)
      /\ Plain(DefTxLock.outside) /\ Plain(DirTxLock.outside)
      /\ Plain(DefTxTrylock.outside)
  BY <1>1, <1>2, <1>3 DEF DefFullLock, DirFullLock, DefTmLock, DirTmLock,
                          DefTxLock, DirTxLock, DefTxTrylock
<1>5. Plain(PthreadLock.outside)
  BY <1>4 DEF PthreadLock
<1>6. Plain(PthreadTrylock.outside)
  BY <1>4 DEF PthreadTrylock, DefFullTrylock, DirFullTrylock, DefTmTrylock,
              DirTmTrylock, DirTxTrylock
<1>7. Plain(LockFunction(try).outside)
  BY <1>5, <1>6 DEF LockFunction
<1> QED
  BY <1>5, <1>7 DEF Plain

LEMMA CallsIsolate ==
  ASSUME TypeOK, IsolateInTx, NEW t \in Thread, NEW m \in Mutex,
         NEW try \in BOOLEAN, NEW steps \in Seq(CallStep),
         Calls(t, m, try, steps),
         pc[t] = "body" \/ \A i \in 1..Len(steps) : steps[i] # "isolate"
  PROVE  IsolateInTx'
BY DEF IsolateInTx, Calls, TypeOK

LEMMA ForceToAbortGrows ==
  ASSUME NEW ts, ForceToAbort(ts)
  PROVE  \A u \in Thread : forcedToAbort[u] => forcedToAbort'[u]
  BY Zenon DEF ForceToAbort

(* "isolate" is a step of calls made inside transactions only.              *)
LEMMA IsolateInTxStep ==
  ASSUME TypeOK, GateInv, IsolateInTx, [Next]_vars
  PROVE  IsolateInTx'
<1> USE TypeOK, IsolateInTx
<1>1. ASSUME NEW t \in Thread, NEW m \in Mutex, AddTxConflictingLock(t, m)
       PROVE  IsolateInTx'
  BY <1>1, GotoIsolate DEF AddTxConflictingLock, At, Location, IsolateInTx
<1>2. ASSUME NEW t \in Thread, Declared(t)
       PROVE  IsolateInTx'
  BY <1>2, GotoIsolate DEF Declared, At, Location
<1>3. ASSUME NEW t \in Thread, Begin(t)
       PROVE  IsolateInTx'
  BY <1>3, GotoIsolate DEF Begin, At, Location
<1>4. ASSUME NEW t \in Thread, PutTxInflight(t)
       PROVE  IsolateInTx'
  BY <1>4, GotoIsolate DEF PutTxInflight, GateInv, At, Location
<1>5. ASSUME NEW t \in Thread, Abort(t)
       PROVE  IsolateInTx'
  BY <1>5, ReturnIsolate DEF Abort, Aborts, Location
<1>6. ASSUME NEW t \in Thread, Unwind(t)
       PROVE  IsolateInTx'
  BY <1>6, ReturnIsolate DEF Unwind, Aborts, Location
<1>7. ASSUME NEW t \in Thread, EndReadOnly(t)
       PROVE  IsolateInTx'
  BY <1>7, GotoIsolate DEF EndReadOnly, At, Location
<1>8. ASSUME NEW t \in Thread, LeaveReadOnly(t)
       PROVE  IsolateInTx'
  BY <1>8, GotoIsolate DEF LeaveReadOnly, Commits, At, Location
<1>9. ASSUME NEW t \in Thread, Decide(t)
       PROVE  IsolateInTx'
  BY <1>9, GotoIsolate DEF Decide, At, Location
<1>10. ASSUME NEW t \in Thread, WriteBackDone(t)
       PROVE  IsolateInTx'
  BY <1>10, GotoIsolate DEF WriteBackDone, Commits, At, Location
<1>11. ASSUME NEW t \in Thread, DirectCommit(t)
       PROVE  IsolateInTx'
  BY <1>11, GotoIsolate DEF DirectCommit, Commits, At, Location
<1>12. ASSUME NEW t \in Thread, CommitDenied(t)
       PROVE  IsolateInTx'
  BY <1>12, ReturnIsolate DEF CommitDenied, Aborts, Location
<1>13. ASSUME NEW t \in Thread, NEW m \in Mutex,
              NEW try \in BOOLEAN, LockCall(t, m, try)
       PROVE  IsolateInTx'
  BY <1>13, CallsIsolate, ProgramTypes, OutsidePrograms DEF LockCall, TypeOK
<1>14. ASSUME NEW t \in Thread, TakeMutex(t)
       PROVE  IsolateInTx'
  BY <1>14, ProceedIsolate DEF TakeMutex, Next1
<1>15. ASSUME NEW t \in Thread, TrylockFails(t)
       PROVE  IsolateInTx'
  BY <1>15, ReturnIsolate DEF TrylockFails
<1>16. ASSUME NEW t \in Thread, CoreGranted(t)
       PROVE  IsolateInTx'
  BY <1>16, ProceedIsolate DEF CoreGranted, AtCore, Next1
<1>17. ASSUME NEW t \in Thread, CoreRefused(t)
       PROVE  IsolateInTx'
  <2>1. CASE call[t].try
    BY <1>17, <2>1, ReturnIsolate DEF CoreRefused
  <2>2. CASE ~call[t].try
    BY <1>17, <2>2, OutsidePrograms DEF CoreRefused, IsolateInTx, TypeOK
  <2> QED
    BY <2>1, <2>2
<1>18. ASSUME NEW t \in Thread, Drained(t)
       PROVE  IsolateInTx'
  BY <1>18, ProceedIsolate DEF Drained, Next1
<1>19. ASSUME NEW t \in Thread, Register(t)
       PROVE  IsolateInTx'
  BY <1>19, ProceedIsolate DEF Register, Next1
<1>20. ASSUME NEW t \in Thread, Unlock(t)
       PROVE  IsolateInTx'
  BY <1>20, ProceedIsolate DEF Unlock, Next1
<1>21. ASSUME NEW t \in Thread, NEW m \in Mutex, UnlockThrows(t, m)
       PROVE  IsolateInTx'
  BY <1>21, ReturnIsolate DEF UnlockThrows, Aborts, Location
<1>22. ASSUME NEW t \in Thread, NEW m \in Mutex,
              NEW try \in BOOLEAN, LockInTx(t, m, try)
       PROVE  IsolateInTx'
  BY <1>22, CallsIsolate, ProgramTypes DEF LockInTx, At, TypeOK
<1>23. ASSUME NEW t \in Thread, MakeIsolated(t)
       PROVE  IsolateInTx'
  BY <1>23, ProceedIsolate DEF MakeIsolated, Next1
<1>24. ASSUME NEW t \in Thread, MakeIrrevocable(t)
       PROVE  IsolateInTx'
  BY <1>24, ProceedIsolate DEF MakeIrrevocable, Next1
<1>25. ASSUME NEW t \in Thread, Publish(t)
       PROVE  IsolateInTx'
  BY <1>25, ProceedIsolate DEF Publish, Next1
<1>26. ASSUME NEW t \in Thread, List(t)
       PROVE  IsolateInTx'
  BY <1>26, ProceedIsolate DEF List, Next1
<1>27. ASSUME NEW t \in Thread, Note(t)
       PROVE  IsolateInTx'
  BY <1>27, ProceedIsolate DEF Note, Next1
<1>28. ASSUME NEW t \in Thread, Take(t)
       PROVE  IsolateInTx'
  BY <1>28, ProceedIsolate DEF Take, Next1
<1>29. ASSUME NEW t \in Thread, TakeFails(t)
       PROVE  IsolateInTx'
  BY <1>29, ProceedIsolate DEF TakeFails, Next1
<1>30. ASSUME NEW t \in Thread, Suspend(t)
       PROVE  IsolateInTx'
  BY <1>30, ProceedIsolate DEF Suspend, Next1
<1>31. ASSUME NEW m \in Mutex, TmLockConflict(m)
       PROVE  IsolateInTx'
  BY <1>31 DEF TmLockConflict, control, IsolateInTx
<1>32. ASSUME NEW t \in Thread,
              PassGate(t) \/ EnterInflight(t) \/ LeaveInflight(t)
       PROVE  IsolateInTx'
  BY <1>32 DEF PassGate, EnterInflight, LeaveInflight, control, IsolateInTx
<1>33. ASSUME NEW t \in Thread, NEW m \in Mutex, UnlockCall(t, m)
       PROVE  IsolateInTx'
  <2>1. \A i \in 1..2 : <<"look", "unlock">>[i] # "isolate"
    OBVIOUS
  <2> QED
    BY <1>33, <2>1 DEF UnlockCall, IsolateInTx, TypeOK
<1>34. ASSUME NEW t \in Thread, Look(t)
       PROVE  IsolateInTx'
  BY <1>34, ProceedIsolate DEF Look, Next1
<1>35. CASE UNCHANGED vars
  BY <1>35 DEF vars, control, IsolateInTx
<1> QED
  BY <1>1, <1>2, <1>3, <1>4, <1>5, <1>6, <1>7, <1>8, <1>9, <1>10, <1>11,
     <1>12, <1>13, <1>14, <1>15, <1>16, <1>17, <1>18, <1>19, <1>20, <1>21,
     <1>22, <1>23, <1>24, <1>25, <1>26, <1>27, <1>28, <1>29, <1>30, <1>31,
     <1>32, <1>33, <1>34, <1>35
  DEF Next, Step, TxSection, LockSection, LockInTxSection, TxStep, LockStep,
      LockInTxStep

(* No step makes a transaction in flight beside an isolated one forget that *)
(* it is doomed, and none enters beside it.                                 *)
LEMMA IsolationStep ==
  ASSUME IsolationInv, [Next]_vars
  PROVE  (IsolatedPastGate /\ DoomedBesideIsolated)'
<1>0. UNCHANGED config
  BY OthersStay DEF IsolationInv, Next, TmLockConflict, vars, Elsewhere
<1> USE <1>0 DEF IsolationInv, Strays, config
<1>1. ASSUME NEW t \in Thread, Onward(t), NEW m \in Mutex, AddTxConflictingLock(t, m)
       PROVE  (IsolatedPastGate /\ DoomedBesideIsolated)'
  BY <1>1 DEF AddTxConflictingLock, At, Goto, txVars, IsolatedPastGate,
         DoomedBesideIsolated, Isolated, InFlight, Present, Onward, TypeOK
<1>2. ASSUME NEW t \in Thread, Onward(t), Declared(t)
       PROVE  (IsolatedPastGate /\ DoomedBesideIsolated)'
  BY <1>2 DEF Declared, At, Goto, txVars, IsolatedPastGate,
         DoomedBesideIsolated, Isolated, InFlight, Present, Onward, TypeOK
<1>3. ASSUME NEW t \in Thread, Onward(t), Begin(t)
       PROVE  (IsolatedPastGate /\ DoomedBesideIsolated)'
  BY <1>3 DEF Begin, At, Goto, txVars, IsolatedPastGate, DoomedBesideIsolated,
         Isolated, InFlight, Present, Onward, TypeOK
<1>4. ASSUME NEW t \in Thread, PutTxInflight(t)
       PROVE  (IsolatedPastGate /\ DoomedBesideIsolated)'
  BY <1>4 DEF PutTxInflight, Leaves, GateInv, AtGate, At, Goto,
         IsolatedPastGate, DoomedBesideIsolated, Isolated, InFlight, Present,
         TypeOK
<1>5. ASSUME NEW t \in Thread, Onward(t), Abort(t)
       PROVE  (IsolatedPastGate /\ DoomedBesideIsolated)'
  BY <1>5 DEF Abort, Aborts, Goto, IsolatedPastGate, DoomedBesideIsolated,
         Isolated, InFlight, Present, Onward, TypeOK
<1>6. ASSUME NEW t \in Thread, Onward(t), Unwind(t)
       PROVE  (IsolatedPastGate /\ DoomedBesideIsolated)'
  BY <1>6 DEF Unwind, Aborts, Goto, IsolatedPastGate, DoomedBesideIsolated,
         Isolated, InFlight, Present, Onward, TypeOK
<1>7. ASSUME NEW t \in Thread, Onward(t), EndReadOnly(t)
       PROVE  (IsolatedPastGate /\ DoomedBesideIsolated)'
  BY <1>7 DEF EndReadOnly, At, Goto, txVars, IsolatedPastGate,
         DoomedBesideIsolated, Isolated, InFlight, Present, Onward, TypeOK
<1>8. ASSUME NEW t \in Thread, Onward(t), LeaveReadOnly(t)
       PROVE  (IsolatedPastGate /\ DoomedBesideIsolated)'
  BY <1>8 DEF LeaveReadOnly, Commits, Goto, IsolatedPastGate,
         DoomedBesideIsolated, Isolated, InFlight, Present, Onward, TypeOK
<1>9. ASSUME NEW t \in Thread, Onward(t), Decide(t)
       PROVE  (IsolatedPastGate /\ DoomedBesideIsolated)'
  BY <1>9, ForceToAbortGrows DEF Decide, Goto, At, IsolatedPastGate,
         DoomedBesideIsolated, Isolated, InFlight, Present, Onward, TypeOK
<1>10. ASSUME NEW t \in Thread, Onward(t), WriteBackDone(t)
       PROVE  (IsolatedPastGate /\ DoomedBesideIsolated)'
  BY <1>10 DEF WriteBackDone, Commits, At, Goto, IsolatedPastGate,
         DoomedBesideIsolated, Isolated, InFlight, Present, Onward, TypeOK
<1>11. ASSUME NEW t \in Thread, Onward(t), DirectCommit(t)
       PROVE  (IsolatedPastGate /\ DoomedBesideIsolated)'
  BY <1>11, ForceToAbortGrows DEF DirectCommit, Commits, Goto,
         IsolatedPastGate, DoomedBesideIsolated, Isolated, InFlight, Present, Onward, TypeOK
<1>12. ASSUME NEW t \in Thread, Onward(t), CommitDenied(t)
       PROVE  (IsolatedPastGate /\ DoomedBesideIsolated)'
  BY <1>12 DEF CommitDenied, Aborts, Goto, IsolatedPastGate,
         DoomedBesideIsolated, Isolated, InFlight, Present, Onward, TypeOK
<1>13. ASSUME NEW t \in Thread, Onward(t), NEW m \in Mutex,
              NEW try \in BOOLEAN, LockCall(t, m, try)
       PROVE  (IsolatedPastGate /\ DoomedBesideIsolated)'
  BY <1>13 DEF LockCall, Calls, txVars, IsolatedPastGate, DoomedBesideIsolated,
         Isolated, InFlight, Present, Onward, TypeOK
<1>14. ASSUME NEW t \in Thread, Onward(t), TakeMutex(t)
       PROVE  (IsolatedPastGate /\ DoomedBesideIsolated)'
  BY <1>14 DEF TakeMutex, txVars, IsolatedPastGate, DoomedBesideIsolated,
         Isolated, InFlight, Present, Onward, TypeOK
<1>15. ASSUME NEW t \in Thread, Onward(t), TrylockFails(t)
       PROVE  (IsolatedPastGate /\ DoomedBesideIsolated)'
  BY <1>15 DEF TrylockFails, txVars, IsolatedPastGate, DoomedBesideIsolated,
         Isolated, InFlight, Present, Onward, TypeOK
<1>16. ASSUME NEW t \in Thread, Onward(t), CoreGranted(t)
       PROVE  (IsolatedPastGate /\ DoomedBesideIsolated)'
  <2>1. \A u \in Thread : forcedToAbort[u] => forcedToAbort'[u]
    BY <1>16, ForceToAbortGrows DEF CoreGranted, Core, DefCoreFull,
           DirCoreFull, DefCoreTm, DirCoreTm, DefCoreTx, DirCoreTx
  <2>2. \A u \in Thread : overtaken[u] => overtaken'[u]
    BY <1>16 DEF CoreGranted, Overtakes
  <2> QED
    BY <1>16, <2>1, <2>2 DEF CoreGranted, IsolatedPastGate, DoomedBesideIsolated,
           Isolated, InFlight, Present, Onward, TypeOK
<1>17. ASSUME NEW t \in Thread, Onward(t), CoreRefused(t)
       PROVE  (IsolatedPastGate /\ DoomedBesideIsolated)'
  BY <1>17 DEF CoreRefused, txVars, IsolatedPastGate, DoomedBesideIsolated,
         Isolated, InFlight, Present, Onward, TypeOK
<1>18. ASSUME NEW t \in Thread, Onward(t), Drained(t)
       PROVE  (IsolatedPastGate /\ DoomedBesideIsolated)'
  BY <1>18 DEF Drained, txVars, IsolatedPastGate, DoomedBesideIsolated,
         Isolated, InFlight, Present, Onward, TypeOK
<1>19. ASSUME NEW t \in Thread, Onward(t), Register(t)
       PROVE  (IsolatedPastGate /\ DoomedBesideIsolated)'
  BY <1>19 DEF Register, txVars, IsolatedPastGate, DoomedBesideIsolated,
         Isolated, InFlight, Present, Onward, TypeOK
<1>20. ASSUME NEW t \in Thread, Onward(t), Unlock(t)
       PROVE  (IsolatedPastGate /\ DoomedBesideIsolated)'
  BY <1>20 DEF Unlock, IsolatedPastGate, DoomedBesideIsolated, Isolated,
         InFlight, Present, Onward, TypeOK
<1>21. ASSUME NEW t \in Thread, Onward(t), NEW m \in Mutex, UnlockThrows(t, m)
       PROVE  (IsolatedPastGate /\ DoomedBesideIsolated)'
  BY <1>21 DEF UnlockThrows, Aborts, Goto, IsolatedPastGate,
         DoomedBesideIsolated, Isolated, InFlight, Present, Onward, TypeOK
<1>22. ASSUME NEW t \in Thread, Onward(t), NEW m \in Mutex,
              NEW try \in BOOLEAN, LockInTx(t, m, try)
       PROVE  (IsolatedPastGate /\ DoomedBesideIsolated)'
  BY <1>22 DEF LockInTx, Calls, txVars, IsolatedPastGate, DoomedBesideIsolated,
         Isolated, InFlight, Present, Onward, TypeOK
<1>23. ASSUME NEW t \in Thread, Onward(t), MakeIsolated(t),
              Isolated(t) \/ Inside(t)
       PROVE  (IsolatedPastGate /\ DoomedBesideIsolated)'
  <2>1. CASE Isolated(t)
    BY <1>23, <2>1 DEF MakeIsolated, txVars, IsolatedPastGate,
           DoomedBesideIsolated, Isolated, InFlight, Present, Onward, TypeOK
  <2>2. CASE ~Isolated(t)
    <3>1. pc[t] = "body"
      <4>1. todo[t] # <<>> /\ todo[t][1] = "isolate"
        BY <1>23 DEF MakeIsolated, Next1, TypeOK
      <4>2. 1 \in 1..Len(todo[t])
        BY <4>1 DEF TypeOK
      <4> QED
        BY <4>1, <4>2 DEF IsolateInTx
    <3>2. \A u \in InFlight \ {t} : ~Irrevocable(u)
      BY <1>23, <2>2 DEF MakeIsolated, IrrevocableTxInFlight, Others
    <3>3. \A u \in InFlight \ {t} : ~isolatedNow[u]
      BY <3>2 DEF Irrevocable, Isolated, IsolatedPastGate, InFlight, TypeOK
    <3>4. InFlight \subseteq Thread
      BY DEF InFlight, TypeOK
    <3>5. ForceToAbort(Others(t))
      BY <1>23, <2>2 DEF MakeIsolated
    <3>6. \A u \in InFlight \ {t} :
            forcedToAbort'[u] = (forcedToAbort[u] \/
                                 (u \in Others(t) /\ ~Irrevocable(u)))
      BY <3>4, <3>5 DEF ForceToAbort
    <3>7. \A u \in InFlight \ {t} : forcedToAbort'[u]
      BY <3>2, <3>6 DEF Others
    <3>8. ASSUME NEW u \in Thread, section[u] = "gate"
          PROVE  Strays /\ overtaken'[u]
      <4>1. Strays
        BY <1>23, <2>2, <3>8, LatmAssumption DEF Inside, GateInv, AtGate
      <4>2. Overtakes
        BY <1>23, <2>2 DEF MakeIsolated
      <4> QED
        BY <3>8, <4>1, <4>2 DEF Overtakes, AtGate
    <3>9. \A u \in Present' \ {t} : u \in InFlight \/ section[u] = "gate"
      BY <1>23 DEF MakeIsolated, InFlight, Present, Onward
    <3>10. /\ isolatedNow' = [isolatedNow EXCEPT ![t] = TRUE]
           /\ UNCHANGED <<config, transactionsInFlight>>
      BY <1>23, <2>2 DEF MakeIsolated
    <3>11. DoomedBesideIsolated'
      BY <3>3, <3>7, <3>8, <3>9, <3>10 DEF DoomedBesideIsolated, InFlight,
             Present, TypeOK
    <3>12. IsolatedPastGate'
      BY <1>23, <2>2, <3>1 DEF MakeIsolated, IsolatedPastGate, Isolated,
             InFlight, TypeOK
    <3> QED
      BY <3>11, <3>12
  <2> QED
    BY <2>1, <2>2
<1>24. ASSUME NEW t \in Thread, Onward(t), MakeIrrevocable(t)
       PROVE  (IsolatedPastGate /\ DoomedBesideIsolated)'
  BY <1>24 DEF MakeIrrevocable, txVars, IsolatedPastGate, DoomedBesideIsolated,
         Isolated, InFlight, Present, Onward, TypeOK
<1>25. ASSUME NEW t \in Thread, Onward(t), Publish(t)
       PROVE  (IsolatedPastGate /\ DoomedBesideIsolated)'
  BY <1>25 DEF Publish, txVars, IsolatedPastGate, DoomedBesideIsolated,
         Isolated, InFlight, Present, Onward, TypeOK
<1>26. ASSUME NEW t \in Thread, Onward(t), List(t)
       PROVE  (IsolatedPastGate /\ DoomedBesideIsolated)'
  BY <1>26 DEF List, txVars, IsolatedPastGate, DoomedBesideIsolated, Isolated,
         InFlight, Present, Onward, TypeOK
<1>27. ASSUME NEW t \in Thread, Onward(t), Note(t)
       PROVE  (IsolatedPastGate /\ DoomedBesideIsolated)'
  BY <1>27 DEF Note, txVars, IsolatedPastGate, DoomedBesideIsolated, Isolated,
         InFlight, Present, Onward, TypeOK
<1>28. ASSUME NEW t \in Thread, Onward(t), Take(t)
       PROVE  (IsolatedPastGate /\ DoomedBesideIsolated)'
  BY <1>28 DEF Take, txVars, IsolatedPastGate, DoomedBesideIsolated, Isolated,
         InFlight, Present, Onward, TypeOK
<1>29. ASSUME NEW t \in Thread, Onward(t), TakeFails(t)
       PROVE  (IsolatedPastGate /\ DoomedBesideIsolated)'
  BY <1>29 DEF TakeFails, txVars, IsolatedPastGate, DoomedBesideIsolated,
         Isolated, InFlight, Present, Onward, TypeOK
<1>30. ASSUME NEW t \in Thread, Onward(t), Suspend(t)
       PROVE  (IsolatedPastGate /\ DoomedBesideIsolated)'
  <2>1. \A u \in Thread : forcedToAbort[u] => forcedToAbort'[u]
    BY <1>30, ForceToAbortGrows DEF Suspend, DefCoreTx
  <2> QED
    BY <1>30, <2>1 DEF Suspend, IsolatedPastGate, DoomedBesideIsolated,
           Isolated, InFlight, Present, Onward, TypeOK
<1>31. ASSUME NEW m \in Mutex, TmLockConflict(m), UNCHANGED sectionVars
       PROVE  (IsolatedPastGate /\ DoomedBesideIsolated)'
  BY <1>31 DEF TmLockConflict, txVars, control, sectionVars,
         IsolatedPastGate, DoomedBesideIsolated, Isolated, InFlight, Present,
         TypeOK
<1>32. ASSUME NEW t \in Thread, PassGate(t)
       PROVE  (IsolatedPastGate /\ DoomedBesideIsolated)'
  <2>1. pc[t] = "entering"
    BY <1>32 DEF PassGate, At
  <2>2. \A u \in InFlight \ {t} : ~isolatedNow[u]
    BY <1>32 DEF PassGate, IsolatedTxInFlight, Others, IsolatedPastGate,
           InFlight, TypeOK
  <2>3. ~isolatedNow[t]
    BY <2>1 DEF IsolatedPastGate
  <2> QED
    BY <1>32, <2>2, <2>3 DEF PassGate, control, IsolatedPastGate,
           DoomedBesideIsolated, Isolated, InFlight, TypeOK
<1>33. ASSUME NEW t \in Thread, Onward(t), EnterInflight(t) \/ LeaveInflight(t)
       PROVE  (IsolatedPastGate /\ DoomedBesideIsolated)'
  BY <1>33 DEF EnterInflight, LeaveInflight, txVars, control,
         IsolatedPastGate, DoomedBesideIsolated, Isolated, InFlight, Present,
         Onward, TypeOK
<1>34. ASSUME NEW t \in Thread, Onward(t),
              Look(t) \/ \E m \in Mutex : UnlockCall(t, m)
       PROVE  (IsolatedPastGate /\ DoomedBesideIsolated)'
  BY <1>34 DEF Look, UnlockCall, txVars, IsolatedPastGate,
         DoomedBesideIsolated, Isolated, InFlight, Present, Onward, TypeOK
<1>35. CASE UNCHANGED vars
  BY <1>35 DEF vars, txVars, control, sectionVars, IsolatedPastGate,
         DoomedBesideIsolated, Isolated, InFlight, Present, TypeOK
<1>36. ASSUME NEW t \in Thread, Step(t)
       PROVE  (IsolatedPastGate /\ DoomedBesideIsolated)'
  <2>1. CASE PassGate(t) \/ PutTxInflight(t)
    BY <1>4, <1>32, <2>1
  <2>2. CASE Onward(t)
    BY <1>1, <1>2, <1>3, <1>4, <1>5, <1>6, <1>7, <1>8, <1>9, <1>10, <1>11,
       <1>12, <1>13, <1>14, <1>15, <1>16, <1>17, <1>18, <1>19, <1>20, <1>21,
       <1>22, <1>23, <1>24, <1>25, <1>26, <1>27, <1>28, <1>29, <1>30, <1>32,
       <1>33, <1>34, <1>36, <2>2
    DEF Step, TxSection, LockSection, LockInTxSection, TxStep, LockStep,
        LockInTxStep
  <2> QED
    BY <1>36, <2>1, <2>2, OnwardStep
<1> QED
  BY <1>31, <1>35, <1>36 DEF Next

(* make_isolated(): a transaction that made itself isolated shares the      *)
(* in-flight list only with doomed ones, for every protection, kind of      *)
(* update and number of threads and mutexes; except, with deferred update   *)
(* and full or tm protection, for those it overtook at the gate, whose      *)
(* in-flight mutex an unlock_() had freed.                                  *)
THEOREM IsolationHolds == Spec => []IsolatedRunsAlone
<1>1. Init => IsolationInv
  BY IsolationInit
<1>2. IsolationInv /\ [Next]_vars => IsolationInv'
  BY TypeStep, GateStep, IsolateInTxStep, IsolationStep DEF IsolationInv
<1>3. IsolationInv => IsolatedRunsAlone
  BY DEF IsolationInv, DoomedBesideIsolated, IsolatedRunsAlone, Present
<1> QED
  BY <1>1, <1>2, <1>3, PTL DEF Spec
=============================================================================
