---------------------------- MODULE LatmLockProofs ----------------------------
(* What user locks keep out, for every value of the constants of Latm.      *)
EXTENDS LatmProofs

(* A lock call made outside of transactions, and what is left of it.        *)
Outside ==
  IF direct
  THEN {<<"mutex", "core", "drain", "register">>, <<"core", "drain", "register">>,
        <<"drain", "register">>, <<"register">>}
  ELSE {<<"mutex", "core", "register">>, <<"core", "register">>, <<"register">>}

(* Inside, a first step makes the transaction isolated or irrevocable; tx   *)
(* protection leaves the register alone and suspends whom it keeps out.     *)
Enters == {"isolate", "irrevocable"}
Works == {"list", "current", "publish", "take"} \cup
           IF policy = "tx" THEN {"suspend"} ELSE {"note", "settle"}

InTxTodo(t) ==
  /\ Head(todo[t]) \in Enters \cup Works
  /\ Tail(todo[t]) \in Seq(Works)
  /\ Head(todo[t]) \in Works => Irrevocable(t)

(* unlock_(), and what is left of it.                                       *)
UnlockTodo == {<<"look", "unlock">>, <<"unlock">>}

(* Where a call can be in progress.                                         *)
CallPlace(t) ==
  todo[t] # <<>> => \/ pc[t] = "out" /\ todo[t] \in Outside
                    \/ pc[t] = "body" /\ InTxTodo(t)
                    \/ /\ todo[t] \in UnlockTodo
                       /\ pc[t] = "out" \/ (pc[t] = "body" /\ Irrevocable(t))

CallsInv == \A t \in Thread : CallPlace(t)

(* Who is in flight is between its start and its end, and only irrevocable  *)
(* or isolated transactions have obtained locks.                            *)
FlightInv ==
  /\ \A t \in InFlight : pc[t] \in {"body", "added", "leave"}
  /\ \A t \in Thread : obtainedLocks[t] # {} => Irrevocable(t)

(* The steps of a call between the mutex and the registration, and those of *)
(* them that hold latmMutex_; the steps of unlock_(), which hold both.      *)
Granting == {"core", "drain", "register"}
Registering == {"drain", "register"}
Unlocking == {"look", "unlock"}

(* A locker has its lock; latmMutex_ is held up to the registration, and by *)
(* unlock_(); what counts as locked is locked, and the locker that waits is *)
(* not there yet; in tx protection the register tells truth.                *)
LockerInv ==
  /\ \A t \in Thread, s \in Granting \cup Unlocking :
       Next1(t, s) => owner[Arg(t)] = t
  /\ \A t \in Thread, s \in Registering \cup Unlocking :
       Next1(t, s) => latmMutex = t
  /\ \A t \in Thread : Next1(t, "core") => ~TakenOutside(Arg(t))
  /\ \A t \in Thread : Next1(t, "drain") => Arg(t) \notin latmLockedLocks
  /\ \A m \in latmLockedLocks : owner[m] # NoThread /\ Counts(m)
  /\ policy = "tx" => \A m \in Mutex : locksOfThread[m] \in {NoThread, owner[m]}

(* Why a transaction beside a lock that should keep it out does no harm;    *)
(* or it waits in its declaration until this lock is released.              *)
Harmless(t) ==
  \/ forcedToAbort[t] /\ ~direct
  \/ slipped[t] \/ (Strays /\ overtaken[t]) \/ Irrevocable(t)
  \/ \E k \in Mutex : owner[k] = t

Waits(t, m) ==
  /\ policy = "tx" /\ At(t, "added") /\ blocked[t]
  /\ t \in locksAndThreadIds[m]

Excludes(m, t) == TakenOutside(m) /\ owner[m] # t /\ KeepsOut(m, t)

(* Also of those between the gate and the list.                             *)
KeptOut ==
  \A t \in Present, m \in Mutex :
    Excludes(m, t) => Harmless(t) \/ Waits(t, m)

LockInv ==
  TypeOK /\ GateInv /\ CallsInv /\ FlightInv /\ LockerInv /\ KeptOut

-----------------------------------------------------------------------------
(* The programs of the lock calls.                                          *)

LEMMA OutsideHeads ==
  ASSUME NEW s \in Outside, direct \in BOOLEAN
  PROVE  /\ s # <<>> /\ Head(s) \in {"mutex"} \cup Granting
         /\ Head(s) = "mutex" => /\ Tail(s) \in Outside /\ Tail(s) # <<>>
                                 /\ Head(Tail(s)) = "core"
         /\ Head(s) = "core" =>
              /\ Tail(s) \in Outside /\ Tail(s) # <<>>
              /\ Head(Tail(s)) = IF direct THEN "drain" ELSE "register"
         /\ Head(s) = "drain" => /\ Tail(s) \in Outside /\ Tail(s) # <<>>
                                 /\ Head(Tail(s)) = "register"
         /\ Head(s) = "register" => Tail(s) = <<>>
<1>1. /\ Tail(<<"mutex", "core", "drain", "register">>)
           = <<"core", "drain", "register">>
      /\ Tail(<<"core", "drain", "register">>) = <<"drain", "register">>
      /\ Tail(<<"drain", "register">>) = <<"register">>
      /\ Tail(<<"mutex", "core", "register">>) = <<"core", "register">>
      /\ Tail(<<"core", "register">>) = <<"register">>
      /\ Tail(<<"register">>) = <<>>
  OBVIOUS
<1>2. /\ Head(<<"mutex", "core", "drain", "register">>) = "mutex"
      /\ Head(<<"core", "drain", "register">>) = "core"
      /\ Head(<<"drain", "register">>) = "drain"
      /\ Head(<<"mutex", "core", "register">>) = "mutex"
      /\ Head(<<"core", "register">>) = "core"
      /\ Head(<<"register">>) = "register"
  OBVIOUS
<1>3. /\ <<"mutex", "core", "drain", "register">> # <<>>
      /\ <<"core", "drain", "register">> # <<>>
      /\ <<"drain", "register">> # <<>>
      /\ <<"mutex", "core", "register">> # <<>>
      /\ <<"core", "register">> # <<>>
      /\ <<"register">> # <<>>
  OBVIOUS
<1>4. CASE direct
  BY <1>1, <1>2, <1>3, <1>4 DEF Outside, Granting
<1>5. CASE ~direct
  BY <1>1, <1>2, <1>3, <1>5 DEF Outside, Granting
<1> QED
  BY <1>4, <1>5

(* The program of a call outside.                                           *)
LEMMA OutsideProgram ==
  ASSUME NEW try \in BOOLEAN, TypeOK
  PROVE  /\ LockFunction(try).outside # <<>> =>
              /\ LockFunction(try).outside \in Outside
              /\ Head(LockFunction(try).outside) = "mutex"
         /\ PthreadLock.outside \in Outside
         /\ Head(PthreadLock.outside) = "mutex"
<1> DEFINE Prog == IF direct THEN <<"mutex", "core", "drain", "register">>
                   ELSE <<"mutex", "core", "register">>
<1>1. Prog \in Outside /\ Head(Prog) = "mutex"
  BY DEF Outside
<1>2. PthreadLock.outside = Prog
  BY DEF PthreadLock, TypeOK, DefFullLock, DirFullLock, DefTmLock, DirTmLock,
         DefTxLock, DirTxLock
<1>3. PthreadTrylock.outside \in {Prog, <<>>}
  BY DEF PthreadTrylock, TypeOK, DefFullLock, DirFullLock, DefTmLock,
         DirTmLock, DefFullTrylock, DirFullTrylock, DefTmTrylock,
         DirTmTrylock, DefTxTrylock, DirTxTrylock
<1> QED
  BY <1>1, <1>2, <1>3 DEF LockFunction

(* The program of a call inside a transaction.                              *)
LEMMA InTxProgram ==
  ASSUME NEW try \in BOOLEAN, TypeOK, LockFunction(try).inTx # <<>>
  PROVE  /\ Head(LockFunction(try).inTx) \in Enters
         /\ Tail(LockFunction(try).inTx) \in Seq(Works)
<1> DEFINE Good(s) == Head(s) \in Enters /\ Tail(s) \in Seq(Works)
<1>1. ASSUME policy # "tx"
      PROVE  /\ Good(DefFullLock.inTx) /\ Good(DirFullLock.inTx)
             /\ Good(DefTmLock.inTx) /\ Good(DirTmLock.inTx)
  BY <1>1 DEF DefFullLock, DirFullLock, DefTmLock, DirTmLock, Enters, Works
<1>2. ASSUME policy = "tx"
      PROVE  Good(DefTxLock.inTx) /\ Good(DirTxLock.inTx)
  BY <1>2 DEF DefTxLock, DirTxLock, Enters, Works
<1>3. DefTxTrylock.inTx = <<>> /\ DirTxTrylock.inTx = <<>>
  BY DEF DefTxTrylock, DirTxTrylock
<1> HIDE DEF Good
<1>4. Good(PthreadLock.inTx)
  BY <1>1, <1>2 DEF PthreadLock, TypeOK
<1>5. PthreadTrylock.inTx # <<>> => Good(PthreadTrylock.inTx)
  BY <1>1, <1>3 DEF PthreadTrylock, TypeOK, DefFullTrylock, DirFullTrylock,
                    DefTmTrylock, DirTmTrylock
<1> QED
  BY <1>4, <1>5 DEF LockFunction, Good

-----------------------------------------------------------------------------
(* Calls.                                                                   *)

LEMMA CallsFrame ==
  ASSUME CallsInv, NEW t \in Thread, UNCHANGED config,
         \A u \in Thread \ {t} : /\ todo'[u] = todo[u] /\ pc'[u] = pc[u]
                                 /\ txType'[u] = txType[u],
         CallPlace(t)'
  PROVE  CallsInv'
BY DEF CallsInv, CallPlace, InTxTodo, Outside, Works, UnlockTodo, Irrevocable,
       config

LEMMA UnlockHeads ==
  ASSUME NEW s \in UnlockTodo
  PROVE  /\ s # <<>> /\ Head(s) \in Unlocking
         /\ Head(s) = "look" => Tail(s) = <<"unlock">> /\ Tail(s) # <<>>
         /\ Head(s) = "unlock" => Tail(s) = <<>>
<1>1. Tail(<<"look", "unlock">>) = <<"unlock">> /\ Tail(<<"unlock">>) = <<>>
  OBVIOUS
<1>2. Head(<<"look", "unlock">>) = "look" /\ Head(<<"unlock">>) = "unlock"
  OBVIOUS
<1>3. <<"look", "unlock">> # <<>> /\ <<"unlock">> # <<>>
  OBVIOUS
<1> QED
  BY <1>1, <1>2, <1>3 DEF UnlockTodo, Unlocking

(* A call that goes on inside a transaction.                                *)
LEMMA InTxProceeds ==
  ASSUME TypeOK, NEW t \in Thread, todo[t] # <<>>, pc[t] = "body", InTxTodo(t),
         Proceed(t), UNCHANGED <<config, pc>>, Irrevocable(t)'
  PROVE  CallPlace(t)'
<1>1. todo'[t] = Tail(todo[t])
  BY DEF Proceed, TypeOK
<1>2. Tail(todo[t]) \in Seq(Works)
  BY DEF InTxTodo
<1>3. Works' = Works
  BY DEF Works, config
<1>4. todo'[t] # <<>> => Head(todo'[t]) \in Works /\ Tail(todo'[t]) \in Seq(Works)
  BY <1>1, <1>2
<1> QED
  BY <1>3, <1>4 DEF CallPlace, InTxTodo

(* The steps of unlock_() are made outside or by an irrevocable             *)
(* transaction, those of the other calls outside or in a body.              *)
LEMMA UnlockingCall ==
  ASSUME TypeOK, CallsInv, NEW t \in Thread, todo[t] # <<>>,
         Head(todo[t]) \in Unlocking
  PROVE  /\ todo[t] \in UnlockTodo
         /\ pc[t] = "out" \/ (pc[t] = "body" /\ Irrevocable(t))
<1>1. todo[t] \notin Outside
  BY OutsideHeads DEF Unlocking, Granting, TypeOK
<1>2. ~InTxTodo(t)
  BY DEF InTxTodo, Unlocking, Enters, Works
<1> QED
  BY <1>1, <1>2 DEF CallsInv, CallPlace

LEMMA InTxCall ==
  ASSUME TypeOK, CallsInv, NEW t \in Thread, todo[t] # <<>>,
         Head(todo[t]) \notin {"mutex"} \cup Granting \cup Unlocking
  PROVE  /\ pc[t] = "body" /\ InTxTodo(t)
         /\ Head(todo[t]) \notin Enters => Irrevocable(t)
<1>1. pc[t] = "body" /\ InTxTodo(t)
  BY OutsideHeads, UnlockHeads DEF CallsInv, CallPlace, TypeOK
<1> QED
  BY <1>1 DEF InTxTodo

LEMMA OutsideCall ==
  ASSUME TypeOK, CallsInv, NEW t \in Thread, todo[t] # <<>>,
         Head(todo[t]) \in {"mutex"} \cup Granting
  PROVE  pc[t] = "out" /\ todo[t] \in Outside
<1>1. ~InTxTodo(t)
  BY DEF InTxTodo, Enters, Works, Granting
<1>2. todo[t] \notin UnlockTodo
  BY UnlockHeads DEF Unlocking, Granting
<1> QED
  BY <1>1, <1>2 DEF CallsInv, CallPlace

LEMMA CallsStep ==
  ASSUME TypeOK, GateInv, CallsInv, FlightInv, [Next]_vars
  PROVE  CallsInv'
<1> USE TypeOK, CallsInv
<1>1. ASSUME NEW t \in Thread, NEW m \in Mutex, AddTxConflictingLock(t, m)
       PROVE  CallsInv'
  BY <1>1, CallsFrame DEF AddTxConflictingLock, At, Goto, txVars, control,
     CallPlace, TypeOK
<1>2. ASSUME NEW t \in Thread, Declared(t)
       PROVE  CallsInv'
  BY <1>2, CallsFrame DEF Declared, At, Goto, txVars, control, CallPlace,
     TypeOK
<1>3. ASSUME NEW t \in Thread, Begin(t)
       PROVE  CallsInv'
  BY <1>3, CallsFrame DEF Begin, At, Goto, txVars, control, CallPlace, TypeOK
<1>4. ASSUME NEW t \in Thread, PutTxInflight(t)
       PROVE  CallsInv'
  BY <1>4, CallsFrame DEF PutTxInflight, GateInv, At, Goto, txVars, control,
     CallPlace, TypeOK
<1>5. ASSUME NEW t \in Thread, Abort(t)
       PROVE  CallsInv'
  BY <1>5, CallsFrame DEF Abort, Aborts, Returns, Goto, txVars, control,
     CallPlace, TypeOK
<1>6. ASSUME NEW t \in Thread, Unwind(t)
       PROVE  CallsInv'
  BY <1>6, CallsFrame DEF Unwind, Aborts, Returns, Goto, txVars, control,
     CallPlace, TypeOK
<1>7. ASSUME NEW t \in Thread, EndReadOnly(t)
       PROVE  CallsInv'
  BY <1>7, CallsFrame DEF EndReadOnly, At, Goto, txVars, control, CallPlace,
     TypeOK
<1>8. ASSUME NEW t \in Thread, LeaveReadOnly(t)
       PROVE  CallsInv'
  BY <1>8, CallsFrame DEF LeaveReadOnly, Commits, At, Goto, txVars, control,
     CallPlace, TypeOK
<1>9. ASSUME NEW t \in Thread, Decide(t)
       PROVE  CallsInv'
  BY <1>9, CallsFrame DEF Decide, At, Goto, txVars, control, CallPlace, TypeOK
<1>10. ASSUME NEW t \in Thread, WriteBackDone(t)
       PROVE  CallsInv'
  BY <1>10, CallsFrame DEF WriteBackDone, Commits, At, Goto, txVars,
     control, CallPlace, TypeOK
<1>11. ASSUME NEW t \in Thread, DirectCommit(t)
       PROVE  CallsInv'
  BY <1>11, CallsFrame DEF DirectCommit, Commits, At, Goto, txVars, control,
     CallPlace, TypeOK
<1>12. ASSUME NEW t \in Thread, CommitDenied(t)
       PROVE  CallsInv'
  BY <1>12, CallsFrame DEF CommitDenied, Aborts, Returns, Goto, txVars,
     control, CallPlace, TypeOK
<1>13. ASSUME NEW t \in Thread, NEW m \in Mutex,
              NEW try \in BOOLEAN, LockCall(t, m, try)
       PROVE  CallsInv'
  <2>1. CallPlace(t)'
    BY <1>13, OutsideProgram DEF LockCall, Calls, At, CallPlace, Outside,
       config, TypeOK
  <2> QED
    BY <1>13, <2>1, CallsFrame DEF LockCall, Calls, txVars, TypeOK
<1>14. ASSUME NEW t \in Thread, TakeMutex(t)
       PROVE  CallsInv'
  <2>1. pc[t] = "out" /\ todo[t] \in Outside /\ Tail(todo[t]) \in Outside \cup {<<>>}
    BY <1>14, OutsideCall, OutsideHeads DEF TakeMutex, Next1, Granting, TypeOK
  <2>2. CallPlace(t)'
    BY <1>14, <2>1 DEF TakeMutex, Proceed, CallPlace, Outside, config, TypeOK
  <2> QED
    BY <1>14, <2>2, CallsFrame DEF TakeMutex, txVars, Proceed, TypeOK
<1>15. ASSUME NEW t \in Thread, TrylockFails(t)
       PROVE  CallsInv'
  BY <1>15, CallsFrame DEF TrylockFails, Returns, txVars, CallPlace, TypeOK
<1>16. ASSUME NEW t \in Thread, CoreGranted(t)
       PROVE  CallsInv'
  <2>1. pc[t] = "out" /\ todo[t] \in Outside /\ Tail(todo[t]) \in Outside \cup {<<>>}
    BY <1>16, OutsideCall, OutsideHeads DEF CoreGranted, AtCore, Next1,
       Granting, TypeOK
  <2>2. CallPlace(t)'
    BY <1>16, <2>1 DEF CoreGranted, Proceed, CallPlace, Outside, config, TypeOK
  <2> QED
    BY <1>16, <2>2, CallsFrame DEF CoreGranted, txVars, Proceed, TypeOK
<1>17. ASSUME NEW t \in Thread, CoreRefused(t)
       PROVE  CallsInv'
  <2>1. pc[t] = "out"
    BY <1>17, OutsideCall DEF CoreRefused, AtCore, Next1, Granting, Unlocking
  <2>2. CallPlace(t)'
    BY <1>17, <2>1, OutsideProgram DEF CoreRefused, Returns, CallPlace,
       Outside, config, TypeOK
  <2> QED
    BY <1>17, <2>2, CallsFrame DEF CoreRefused, Returns, txVars, TypeOK
<1>18. ASSUME NEW t \in Thread, Drained(t)
       PROVE  CallsInv'
  <2>1. pc[t] = "out" /\ todo[t] \in Outside /\ Tail(todo[t]) \in Outside \cup {<<>>}
    BY <1>18, OutsideCall, OutsideHeads DEF Drained, Next1, Granting, TypeOK
  <2>2. CallPlace(t)'
    BY <1>18, <2>1 DEF Drained, Proceed, CallPlace, Outside, config, TypeOK
  <2> QED
    BY <1>18, <2>2, CallsFrame DEF Drained, txVars, Proceed, TypeOK
<1>19. ASSUME NEW t \in Thread, Register(t)
       PROVE  CallsInv'
  <2>1. pc[t] = "out" /\ todo[t] \in Outside /\ Tail(todo[t]) \in Outside \cup {<<>>}
    BY <1>19, OutsideCall, OutsideHeads DEF Register, Next1, Granting, TypeOK
  <2>2. CallPlace(t)'
    BY <1>19, <2>1 DEF Register, Proceed, CallPlace, Outside, config, TypeOK
  <2> QED
    BY <1>19, <2>2, CallsFrame DEF Register, txVars, Proceed, TypeOK
<1>20. ASSUME NEW t \in Thread, Unlock(t)
       PROVE  CallsInv'
  <2>1. todo[t] # <<>> /\ Head(todo[t]) = "unlock"
    BY <1>20 DEF Unlock, Next1
  <2>2. todo'[t] = <<>>
    BY <1>20, <2>1, UnlockingCall, UnlockHeads DEF Unlock, Proceed, Unlocking,
       TypeOK
  <2> QED
    BY <1>20, <2>2, CallsFrame DEF Unlock, Proceed, CallPlace, TypeOK
<1>21. ASSUME NEW t \in Thread, NEW m \in Mutex, UnlockThrows(t, m)
       PROVE  CallsInv'
  BY <1>21, CallsFrame DEF UnlockThrows, Aborts, Returns, Goto, txVars,
     control, CallPlace, TypeOK
<1>22. ASSUME NEW t \in Thread, NEW m \in Mutex,
              NEW try \in BOOLEAN, LockInTx(t, m, try)
       PROVE  CallsInv'
  <2>1. InTxTodo(t)'
    BY <1>22, InTxProgram DEF LockInTx, Calls, InTxTodo, Works, Enters,
       config, TypeOK
  <2> QED
    BY <1>22, <2>1, CallsFrame DEF LockInTx, Calls, At, CallPlace, txVars,
       TypeOK
<1>23. ASSUME NEW t \in Thread, MakeIsolated(t)
       PROVE  CallsInv'
  <2>1. todo[t] # <<>> /\ Head(todo[t]) \notin {"mutex"} \cup Granting \cup Unlocking
    BY <1>23 DEF MakeIsolated, Next1, Granting, Unlocking
  <2>2. pc[t] = "body" /\ InTxTodo(t) /\ Irrevocable(t)'
    BY <1>23, <2>1, InTxCall DEF MakeIsolated, Isolated, Irrevocable, TypeOK
  <2>3. CallPlace(t)'
    BY <1>23, <2>1, <2>2, InTxProceeds DEF MakeIsolated
  <2> QED
    BY <1>23, <2>3, CallsFrame DEF MakeIsolated, txVars, Proceed, TypeOK
<1>24. ASSUME NEW t \in Thread, MakeIrrevocable(t)
       PROVE  CallsInv'
  <2>1. todo[t] # <<>> /\ Head(todo[t]) \notin {"mutex"} \cup Granting \cup Unlocking
    BY <1>24 DEF MakeIrrevocable, Next1, Granting, Unlocking
  <2>2. pc[t] = "body" /\ InTxTodo(t) /\ Irrevocable(t)'
    BY <1>24, <2>1, InTxCall DEF MakeIrrevocable, Isolated, Irrevocable, TypeOK
  <2>3. CallPlace(t)'
    BY <1>24, <2>1, <2>2, InTxProceeds DEF MakeIrrevocable
  <2> QED
    BY <1>24, <2>3, CallsFrame DEF MakeIrrevocable, txVars, Proceed, TypeOK
<1>25. ASSUME NEW t \in Thread, Publish(t)
       PROVE  CallsInv'
  <2>1. todo[t] # <<>> /\ Head(todo[t]) \notin {"mutex"} \cup Granting \cup Unlocking
    BY <1>25 DEF Publish, Next1, Granting, Unlocking
  <2>2. pc[t] = "body" /\ InTxTodo(t) /\ Irrevocable(t)
    BY <1>25, <2>1, InTxCall DEF Publish, Next1, Enters
  <2>3. CallPlace(t)'
    BY <1>25, <2>1, <2>2, InTxProceeds DEF Publish, txVars, Irrevocable, TypeOK
  <2> QED
    BY <1>25, <2>3, CallsFrame DEF Publish, txVars, Proceed, TypeOK
<1>26. ASSUME NEW t \in Thread, List(t)
       PROVE  CallsInv'
  <2>1. todo[t] # <<>> /\ Head(todo[t]) \notin {"mutex"} \cup Granting \cup Unlocking
    BY <1>26 DEF List, Next1, Granting, Unlocking
  <2>2. pc[t] = "body" /\ InTxTodo(t) /\ Irrevocable(t)
    BY <1>26, <2>1, InTxCall DEF List, Next1, Enters
  <2>3. CallPlace(t)'
    BY <1>26, <2>1, <2>2, InTxProceeds DEF List, txVars, Irrevocable, TypeOK
  <2> QED
    BY <1>26, <2>3, CallsFrame DEF List, txVars, Proceed, TypeOK
<1>27. ASSUME NEW t \in Thread, Note(t)
       PROVE  CallsInv'
  <2>1. todo[t] # <<>> /\ Head(todo[t]) \notin {"mutex"} \cup Granting \cup Unlocking
    BY <1>27 DEF Note, Next1, Granting, Unlocking
  <2>2. pc[t] = "body" /\ InTxTodo(t) /\ Irrevocable(t)
    BY <1>27, <2>1, InTxCall DEF Note, Next1, Enters
  <2>3. CallPlace(t)'
    BY <1>27, <2>1, <2>2, InTxProceeds DEF Note, txVars, Irrevocable, TypeOK
  <2> QED
    BY <1>27, <2>3, CallsFrame DEF Note, txVars, Proceed, TypeOK
<1>28. ASSUME NEW t \in Thread, Take(t)
       PROVE  CallsInv'
  <2>1. todo[t] # <<>> /\ Head(todo[t]) \notin {"mutex"} \cup Granting \cup Unlocking
    BY <1>28 DEF Take, Next1, Granting, Unlocking
  <2>2. pc[t] = "body" /\ InTxTodo(t) /\ Irrevocable(t)
    BY <1>28, <2>1, InTxCall DEF Take, Next1, Enters
  <2>3. CallPlace(t)'
    BY <1>28, <2>1, <2>2, InTxProceeds DEF Take, txVars, Irrevocable, TypeOK
  <2> QED
    BY <1>28, <2>3, CallsFrame DEF Take, txVars, Proceed, TypeOK
<1>29. ASSUME NEW t \in Thread, TakeFails(t)
       PROVE  CallsInv'
  <2>1. todo[t] # <<>> /\ Head(todo[t]) \notin {"mutex"} \cup Granting \cup Unlocking
    BY <1>29 DEF TakeFails, Next1, Granting, Unlocking
  <2>2. pc[t] = "body" /\ InTxTodo(t) /\ Irrevocable(t)
    BY <1>29, <2>1, InTxCall DEF TakeFails, Next1, Enters
  <2>3. CallPlace(t)'
    BY <1>29, <2>1, <2>2, InTxProceeds DEF TakeFails, txVars, Irrevocable,
       TypeOK
  <2> QED
    BY <1>29, <2>3, CallsFrame DEF TakeFails, txVars, Proceed, TypeOK
<1>30. ASSUME NEW t \in Thread, Suspend(t)
       PROVE  CallsInv'
  <2>1. todo[t] # <<>> /\ Head(todo[t]) \notin {"mutex"} \cup Granting \cup Unlocking
    BY <1>30 DEF Suspend, Next1, Granting, Unlocking
  <2>2. pc[t] = "body" /\ InTxTodo(t) /\ Irrevocable(t)
    BY <1>30, <2>1, InTxCall DEF Suspend, Next1, Enters
  <2>3. CallPlace(t)'
    BY <1>30, <2>1, <2>2, InTxProceeds DEF Suspend, txVars, Irrevocable, TypeOK
  <2> QED
    BY <1>30, <2>3, CallsFrame DEF Suspend, txVars, Proceed, TypeOK
<1>31. ASSUME NEW m \in Mutex, TmLockConflict(m)
       PROVE  CallsInv'
  BY <1>31 DEF TmLockConflict, config, txVars, control, CallsInv, CallPlace,
     InTxTodo, Outside, Works, UnlockTodo, Irrevocable
<1>32. ASSUME NEW t \in Thread,
              PassGate(t) \/ EnterInflight(t) \/ LeaveInflight(t)
       PROVE  CallsInv'
  BY <1>32 DEF PassGate, EnterInflight, LeaveInflight, config, txVars, control,
     CallsInv, CallPlace, InTxTodo, Outside, Works, UnlockTodo, Irrevocable
<1>33. ASSUME NEW t \in Thread, NEW m \in Mutex, UnlockCall(t, m)
       PROVE  CallsInv'
  <2>1. todo'[t] \in UnlockTodo /\ UNCHANGED <<config, txType, pc>>
    BY <1>33 DEF UnlockCall, UnlockTodo, txVars, TypeOK
  <2>2. pc[t] = "out" \/ (pc[t] = "body" /\ Irrevocable(t))
    BY <1>33 DEF UnlockCall, At, FlightInv
  <2>3. CallPlace(t)'
    BY <2>1, <2>2 DEF CallPlace, UnlockTodo, Irrevocable
  <2> QED
    BY <1>33, <2>1, <2>3, CallsFrame DEF UnlockCall, TypeOK
<1>34. ASSUME NEW t \in Thread, Look(t)
       PROVE  CallsInv'
  <2>1. todo[t] # <<>> /\ Head(todo[t]) = "look"
    BY <1>34 DEF Look, Next1
  <2>2. /\ Tail(todo[t]) \in UnlockTodo
        /\ pc[t] = "out" \/ (pc[t] = "body" /\ Irrevocable(t))
    BY <2>1, UnlockingCall, UnlockHeads DEF Unlocking, UnlockTodo
  <2>3. CallPlace(t)'
    BY <1>34, <2>2 DEF Look, Proceed, CallPlace, UnlockTodo, Irrevocable,
       txVars, TypeOK
  <2> QED
    BY <1>34, <2>3, CallsFrame DEF Look, txVars, Proceed, TypeOK
<1>35. CASE UNCHANGED vars
  BY <1>35 DEF vars, config, txVars, control, CallsInv, CallPlace, InTxTodo,
     Outside, Works, UnlockTodo, Irrevocable
<1> QED
  BY <1>1, <1>2, <1>3, <1>4, <1>5, <1>6, <1>7, <1>8, <1>9, <1>10, <1>11,
     <1>12, <1>13, <1>14, <1>15, <1>16, <1>17, <1>18, <1>19, <1>20, <1>21,
     <1>22, <1>23, <1>24, <1>25, <1>26, <1>27, <1>28, <1>29, <1>30, <1>31,
     <1>32, <1>33, <1>34, <1>35
  DEF Next, Step, TxSection, LockSection, LockInTxSection, TxStep, LockStep,
      LockInTxStep

(* Locks are obtained by transactions that have become irrevocable, which   *)
(* they stay until they commit; what they obtained then is cleared.          *)
LEMMA FlightStep ==
  ASSUME TypeOK, CallsInv, FlightInv, [Next]_vars
  PROVE  FlightInv'
<1> USE TypeOK, CallsInv, FlightInv
<1>1. ASSUME NEW t \in Thread, NEW m \in Mutex, AddTxConflictingLock(t, m)
       PROVE  FlightInv'
  BY <1>1 DEF AddTxConflictingLock, At, Goto, txVars, heldVars, control,
     FlightInv, InFlight, Irrevocable, TypeOK
<1>2. ASSUME NEW t \in Thread, Declared(t)
       PROVE  FlightInv'
  BY <1>2 DEF Declared, At, Goto, txVars, heldVars, control, FlightInv,
     InFlight, Irrevocable, TypeOK
<1>3. ASSUME NEW t \in Thread, Begin(t)
       PROVE  FlightInv'
  BY <1>3 DEF Begin, At, Goto, txVars, heldVars, control, FlightInv,
     InFlight, Irrevocable, TypeOK
<1>4. ASSUME NEW t \in Thread, PutTxInflight(t)
       PROVE  FlightInv'
  BY <1>4 DEF PutTxInflight, At, Goto, txVars, heldVars, control,
     FlightInv, InFlight, Irrevocable, TypeOK
<1>5. ASSUME NEW t \in Thread, Abort(t)
       PROVE  FlightInv'
  BY <1>5 DEF Abort, Aborts, Goto, heldVars, FlightInv, InFlight,
     Irrevocable, TypeOK
<1>6. ASSUME NEW t \in Thread, Unwind(t)
       PROVE  FlightInv'
  BY <1>6 DEF Unwind, Aborts, Goto, heldVars, FlightInv, InFlight,
     Irrevocable, TypeOK
<1>7. ASSUME NEW t \in Thread, EndReadOnly(t)
       PROVE  FlightInv'
  BY <1>7 DEF EndReadOnly, At, Goto, txVars, heldVars, control, FlightInv,
     InFlight, Irrevocable, TypeOK
<1>8. ASSUME NEW t \in Thread, LeaveReadOnly(t)
       PROVE  FlightInv'
  BY <1>8 DEF LeaveReadOnly, Commits, ClearLatmObtainedLocks, At, Goto,
     FlightInv, InFlight, Irrevocable, TypeOK
<1>9. ASSUME NEW t \in Thread, Decide(t)
       PROVE  FlightInv'
  BY <1>9 DEF Decide, At, Goto, txVars, heldVars, control, FlightInv,
     InFlight, Irrevocable, TypeOK
<1>10. ASSUME NEW t \in Thread, WriteBackDone(t)
       PROVE  FlightInv'
  BY <1>10 DEF WriteBackDone, Commits, ClearLatmObtainedLocks, At, Goto,
     FlightInv, InFlight, Irrevocable, TypeOK
<1>11. ASSUME NEW t \in Thread, DirectCommit(t)
       PROVE  FlightInv'
  BY <1>11 DEF DirectCommit, Commits, ClearLatmObtainedLocks, At, Goto,
     FlightInv, InFlight, Irrevocable, TypeOK
<1>12. ASSUME NEW t \in Thread, CommitDenied(t)
       PROVE  FlightInv'
  BY <1>12 DEF CommitDenied, Aborts, Goto, heldVars, FlightInv, InFlight,
     Irrevocable, TypeOK
<1>13. ASSUME NEW t \in Thread, NEW m \in Mutex,
              NEW try \in BOOLEAN, LockCall(t, m, try)
       PROVE  FlightInv'
  BY <1>13 DEF LockCall, Calls, txVars, heldVars, FlightInv, InFlight,
     Irrevocable, TypeOK
<1>14. ASSUME NEW t \in Thread, TakeMutex(t)
       PROVE  FlightInv'
  BY <1>14 DEF TakeMutex, At, Goto, txVars, heldVars, control, FlightInv,
     InFlight, Irrevocable, TypeOK
<1>15. ASSUME NEW t \in Thread, TrylockFails(t)
       PROVE  FlightInv'
  BY <1>15 DEF TrylockFails, At, Goto, txVars, heldVars, control,
     FlightInv, InFlight, Irrevocable, TypeOK
<1>16. ASSUME NEW t \in Thread, CoreGranted(t)
       PROVE  FlightInv'
  BY <1>16 DEF CoreGranted, At, Goto, txVars, heldVars, control, FlightInv,
     InFlight, Irrevocable, TypeOK
<1>17. ASSUME NEW t \in Thread, CoreRefused(t)
       PROVE  FlightInv'
  BY <1>17 DEF CoreRefused, At, Goto, txVars, heldVars, control, FlightInv,
     InFlight, Irrevocable, TypeOK
<1>18. ASSUME NEW t \in Thread, Drained(t)
       PROVE  FlightInv'
  BY <1>18 DEF Drained, At, Goto, txVars, heldVars, control, FlightInv,
     InFlight, Irrevocable, TypeOK
<1>19. ASSUME NEW t \in Thread, Register(t)
       PROVE  FlightInv'
  BY <1>19 DEF Register, At, Goto, txVars, heldVars, control, FlightInv,
     InFlight, Irrevocable, TypeOK
<1>20. ASSUME NEW t \in Thread, Unlock(t)
       PROVE  FlightInv'
  BY <1>20 DEF Unlock, FlightInv, InFlight, Irrevocable, TypeOK
<1>21. ASSUME NEW t \in Thread, NEW m \in Mutex, UnlockThrows(t, m)
       PROVE  FlightInv'
  BY <1>21 DEF UnlockThrows, Aborts, Goto, heldVars, FlightInv, InFlight,
     Irrevocable, TypeOK
<1>22. ASSUME NEW t \in Thread, NEW m \in Mutex,
              NEW try \in BOOLEAN, LockInTx(t, m, try)
       PROVE  FlightInv'
  BY <1>22 DEF LockInTx, Calls, txVars, heldVars, FlightInv, InFlight,
     Irrevocable, TypeOK
<1>23. ASSUME NEW t \in Thread, MakeIsolated(t)
       PROVE  FlightInv'
  BY <1>23 DEF MakeIsolated, At, Goto, txVars, heldVars, control,
     FlightInv, InFlight, Irrevocable, TypeOK
<1>24. ASSUME NEW t \in Thread, MakeIrrevocable(t)
       PROVE  FlightInv'
  BY <1>24 DEF MakeIrrevocable, At, Goto, txVars, heldVars, control,
     FlightInv, InFlight, Irrevocable, TypeOK
<1>25. ASSUME NEW t \in Thread, Publish(t)
       PROVE  FlightInv'
  BY <1>25 DEF Publish, At, Goto, txVars, heldVars, control, FlightInv,
     InFlight, Irrevocable, TypeOK
<1>26. ASSUME NEW t \in Thread, List(t)
       PROVE  FlightInv'
  <2>1. pc[t] = "body" /\ Irrevocable(t)
    BY <1>26, InTxCall DEF List, Next1, Granting, Unlocking,
       Enters
  <2> QED
    BY <1>26, <2>1 DEF List, txVars, FlightInv, InFlight, Irrevocable, TypeOK
<1>27. ASSUME NEW t \in Thread, Note(t)
       PROVE  FlightInv'
  BY <1>27 DEF Note, At, Goto, txVars, heldVars, control, FlightInv,
     InFlight, Irrevocable, TypeOK
<1>28. ASSUME NEW t \in Thread, Take(t)
       PROVE  FlightInv'
  BY <1>28 DEF Take, At, Goto, txVars, heldVars, control, FlightInv,
     InFlight, Irrevocable, TypeOK
<1>29. ASSUME NEW t \in Thread, TakeFails(t)
       PROVE  FlightInv'
  BY <1>29 DEF TakeFails, At, Goto, txVars, heldVars, control, FlightInv,
     InFlight, Irrevocable, TypeOK
<1>30. ASSUME NEW t \in Thread, Suspend(t)
       PROVE  FlightInv'
  BY <1>30 DEF Suspend, At, Goto, txVars, heldVars, control, FlightInv,
     InFlight, Irrevocable, TypeOK
<1>31. ASSUME NEW m \in Mutex, TmLockConflict(m)
       PROVE  FlightInv'
  BY <1>31 DEF TmLockConflict, At, Goto, txVars, heldVars, control,
     FlightInv, InFlight, Irrevocable, TypeOK
<1>32. ASSUME NEW t \in Thread,
              PassGate(t) \/ EnterInflight(t) \/ LeaveInflight(t)
       PROVE  FlightInv'
  BY <1>32 DEF PassGate, EnterInflight, LeaveInflight, txVars, heldVars,
     control, FlightInv, InFlight, Irrevocable, TypeOK
<1>33. ASSUME NEW t \in Thread,
              Look(t) \/ \E m \in Mutex : UnlockCall(t, m)
       PROVE  FlightInv'
  BY <1>33 DEF Look, UnlockCall, txVars, heldVars, FlightInv, InFlight,
     Irrevocable, TypeOK
<1>34. CASE UNCHANGED vars
  BY <1>34 DEF vars, txVars, heldVars, control, FlightInv, InFlight,
     Irrevocable, TypeOK
<1> QED
  BY <1>1, <1>2, <1>3, <1>4, <1>5, <1>6, <1>7, <1>8, <1>9, <1>10, <1>11,
     <1>12, <1>13, <1>14, <1>15, <1>16, <1>17, <1>18, <1>19, <1>20, <1>21,
     <1>22, <1>23, <1>24, <1>25, <1>26, <1>27, <1>28, <1>29, <1>30, <1>31,
     <1>32, <1>33, <1>34
  DEF Next, Step, TxSection, LockSection, LockInTxSection, TxStep, LockStep,
      LockInTxStep

-----------------------------------------------------------------------------
(* Lockers.  Most steps leave alone what says who has taken which lock.     *)
Idle(t) == \A s \in Granting \cup Unlocking : ~Next1(t, s)

Quiet ==
  /\ UNCHANGED <<config, owner, latmLockedLocks, locksOfThread>>
  /\ tmConflictingLocks \subseteq tmConflictingLocks'
  /\ \A t \in Thread : latmMutex = t => latmMutex' = t
  /\ \A t \in Thread : \A s \in Granting \cup Unlocking :
       /\ Next1(t, s)' <=> Next1(t, s)
       /\ Next1(t, s) => Arg(t)' = Arg(t)

QuietTx(t) ==
  \/ \E m \in Mutex : AddTxConflictingLock(t, m)
  \/ Declared(t) \/ Begin(t) \/ Abort(t) \/ Unwind(t)
  \/ EndReadOnly(t) \/ LeaveReadOnly(t) \/ Decide(t)
  \/ WriteBackDone(t) \/ DirectCommit(t) \/ CommitDenied(t)

QuietSection(t) ==
  PassGate(t) \/ PutTxInflight(t) \/ EnterInflight(t) \/ LeaveInflight(t)

QuietLock(t) ==
  \/ \E m \in Mutex, try \in BOOLEAN : LockCall(t, m, try)
  \/ TrylockFails(t)
  \/ \E m \in Mutex : UnlockThrows(t, m)
  \/ \E m \in Mutex, try \in BOOLEAN : LockInTx(t, m, try)
  \/ MakeIsolated(t) \/ MakeIrrevocable(t) \/ Publish(t) \/ List(t)
  \/ TakeFails(t) \/ Suspend(t)

(* The steps that are not quiet.                                            *)
LockWork(t) ==
  \/ (CoreSection(t) => Inside(t)) /\ CoreGranted(t)
  \/ TakeMutex(t) \/ CoreRefused(t) \/ Drained(t) \/ Register(t)
  \/ Note(t) \/ Take(t)
  \/ Look(t) \/ Unlock(t) \/ \E m \in Mutex : UnlockCall(t, m)

LEMMA QuietOrWork ==
  ASSUME NEW t \in Thread, Step(t)
  PROVE  QuietSection(t) \/ QuietTx(t) \/ QuietLock(t) \/ LockWork(t)
BY DEF Step, TxSection, LockSection, LockInTxSection, TxStep, LockStep,
       LockInTxStep, QuietSection, QuietTx, QuietLock, LockWork

LEMMA IdleWithout ==
  ASSUME NEW t \in Thread, todo[t] = <<>>
  PROVE  Idle(t)
BY DEF Idle, Next1

LEMMA InTxIdle ==
  ASSUME TypeOK, CallsInv, NEW t \in Thread, todo[t] # <<>>, Proceed(t),
         Head(todo[t]) \notin {"mutex"} \cup Granting \cup Unlocking
  PROVE  pc[t] = "body" /\ Idle(t) /\ Idle(t)'
<1>1. pc[t] = "body" /\ Tail(todo[t]) \in Seq(Works)
  BY InTxCall DEF InTxTodo
<1>2. Tail(todo[t]) # <<>> => Head(Tail(todo[t])) \in Works
  BY <1>1
<1>3. todo'[t] = Tail(todo[t])
  BY DEF Proceed, TypeOK
<1>4. \A s \in Works : s \notin Granting \cup Unlocking
  BY DEF Works, Granting, Unlocking
<1> QED
  BY <1>1, <1>2, <1>3, <1>4 DEF Idle, Next1

LEMMA QuietFrame ==
  ASSUME NEW t \in Thread, Idle(t), Idle(t)',
         UNCHANGED <<config, owner, latmLockedLocks, locksOfThread>>,
         tmConflictingLocks' = tmConflictingLocks,
         \A u \in Thread \ {t} : todo'[u] = todo[u] /\ call'[u] = call[u],
         latmMutex' = latmMutex \/ latmMutex = NoThread
  PROVE  Quiet
BY LatmAssumption DEF Quiet, Idle, Next1, Arg

LEMMA QuietSectionStep ==
  ASSUME TypeOK, NEW t \in Thread, QuietSection(t)
  PROVE  Quiet
<1>1. CASE PassGate(t)
  BY <1>1 DEF PassGate, lockVars, declVars, control, Next1, Arg, Quiet
<1>2. CASE PutTxInflight(t)
  BY <1>2 DEF PutTxInflight, lockVars, declVars, Next1, Arg, Quiet
<1>3. CASE EnterInflight(t)
  <2>1. \A u \in Thread : latmMutex = u => latmMutex' = u
    BY <1>3, LatmAssumption DEF EnterInflight, LatmFree, At, Next1
  <2> QED
    BY <1>3, <2>1 DEF EnterInflight, declVars, control, Next1, Arg, Quiet
<1>4. CASE LeaveInflight(t)
  BY <1>4 DEF LeaveInflight, lockVars, declVars, control, Next1, Arg, Quiet
<1> QED
  BY <1>1, <1>2, <1>3, <1>4 DEF QuietSection

LEMMA QuietTxStep ==
  ASSUME TypeOK, CallsInv, NEW t \in Thread, QuietTx(t)
  PROVE  Quiet
<1>1. ASSUME NEW m \in Mutex, AddTxConflictingLock(t, m)
       PROVE  Quiet
  BY <1>1, QuietFrame DEF AddTxConflictingLock, At, Idle, Next1, lockVars,
     declVars, config, control, TypeOK
<1>2. CASE Declared(t)
  BY <1>2, QuietFrame DEF Declared, At, Idle, Next1, lockVars, declVars,
     config, control, TypeOK
<1>3. CASE Begin(t)
  BY <1>3, QuietFrame DEF Begin, At, Idle, Next1, lockVars, declVars,
     config, control, TypeOK
<1>4. CASE Abort(t)
  <2>1. Idle(t)
    BY <1>4 DEF Abort, At, Idle, Next1, Granting, Unlocking
  <2>2. Idle(t)'
    BY <1>4, IdleWithout DEF Abort, Aborts, Returns, Idle, Next1, TypeOK
  <2> QED
    BY <1>4, <2>1, <2>2, QuietFrame DEF Abort, Aborts, Returns, lockVars,
       declVars, config, control, TypeOK
<1>5. CASE Unwind(t)
  BY <1>5, QuietFrame DEF Unwind, Aborts, Returns, At, Idle, Next1,
     lockVars, declVars, config, control, TypeOK
<1>6. CASE EndReadOnly(t)
  BY <1>6, QuietFrame DEF EndReadOnly, At, Idle, Next1, lockVars, declVars,
     config, control, TypeOK
<1>7. CASE LeaveReadOnly(t)
  BY <1>7, QuietFrame DEF LeaveReadOnly, Commits, At, Idle, Next1,
     lockVars, declVars, config, control, TypeOK
<1>8. CASE Decide(t)
  BY <1>8, QuietFrame DEF Decide, At, Idle, Next1, lockVars, declVars,
     config, control, TypeOK
<1>9. CASE WriteBackDone(t)
  BY <1>9, QuietFrame DEF WriteBackDone, Commits, At, Idle, Next1,
     lockVars, declVars, config, control, TypeOK
<1>10. CASE DirectCommit(t)
  BY <1>10, QuietFrame DEF DirectCommit, Commits, At, Idle, Next1,
     lockVars, declVars, config, control, TypeOK
<1>11. CASE CommitDenied(t)
  BY <1>11, QuietFrame DEF CommitDenied, Aborts, Returns, At, Idle, Next1,
     lockVars, declVars, config, control, TypeOK
<1> QED
  BY <1>1, <1>2, <1>3, <1>4, <1>5, <1>6, <1>7, <1>8, <1>9, <1>10, <1>11
     DEF QuietTx

LEMMA QuietLockStep ==
  ASSUME TypeOK, CallsInv, NEW t \in Thread, QuietLock(t)
  PROVE  Quiet
<1>1. ASSUME NEW m \in Mutex, NEW try \in BOOLEAN, LockCall(t, m, try)
       PROVE  Quiet
  <2>1. Idle(t) /\ Idle(t)'
    BY <1>1, OutsideProgram DEF LockCall, Calls, At, Idle, Next1, Granting,
       Unlocking, TypeOK
  <2> QED
    BY <1>1, <2>1, QuietFrame DEF LockCall, Calls, lockVars, declVars,
       config, TypeOK
<1>2. CASE TrylockFails(t)
  <2>1. Idle(t) /\ Idle(t)'
    BY <1>2 DEF TrylockFails, Returns, Idle, Next1, Granting, Unlocking,
       TypeOK
  <2> QED
    BY <1>2, <2>1, QuietFrame DEF TrylockFails, Returns, lockVars,
       declVars, config, TypeOK
<1>3. ASSUME NEW m \in Mutex, UnlockThrows(t, m)
       PROVE  Quiet
  <2>1. Idle(t) /\ Idle(t)'
    BY <1>3 DEF UnlockThrows, Aborts, Returns, At, Idle, Next1, TypeOK
  <2> QED
    BY <1>3, <2>1, QuietFrame DEF UnlockThrows, Aborts, Returns, LatmFree,
       lockVars, declVars, config, TypeOK
<1>4. ASSUME NEW m \in Mutex, NEW try \in BOOLEAN, LockInTx(t, m, try)
       PROVE  Quiet
  <2>1. Idle(t) /\ Idle(t)'
    BY <1>4, InTxProgram DEF LockInTx, At, Calls, Idle, Next1, Enters,
       Granting, Unlocking, TypeOK
  <2> QED
    BY <1>4, <2>1, QuietFrame DEF LockInTx, Calls, lockVars, declVars,
       config, TypeOK
<1>5. CASE MakeIsolated(t)
  <2>1. Idle(t) /\ Idle(t)'
    BY <1>5, InTxIdle DEF MakeIsolated, Next1, Granting, Unlocking
  <2> QED
    BY <1>5, <2>1, QuietFrame DEF MakeIsolated, Proceed, lockVars,
       declVars, config, TypeOK
<1>6. CASE MakeIrrevocable(t)
  <2>1. Idle(t) /\ Idle(t)'
    BY <1>6, InTxIdle DEF MakeIrrevocable, Next1, Granting, Unlocking
  <2> QED
    BY <1>6, <2>1, QuietFrame DEF MakeIrrevocable, Proceed, lockVars,
       declVars, config, TypeOK
<1>7. CASE Publish(t)
  <2>1. Idle(t) /\ Idle(t)'
    BY <1>7, InTxIdle DEF Publish, Next1, Granting, Unlocking
  <2> QED
    BY <1>7, <2>1, QuietFrame DEF Publish, Proceed, lockVars, declVars,
       config, TypeOK
<1>8. CASE List(t)
  <2>1. Idle(t) /\ Idle(t)'
    BY <1>8, InTxIdle DEF List, Next1, Granting, Unlocking
  <2> QED
    BY <1>8, <2>1, QuietFrame DEF List, Proceed, lockVars, declVars,
       config, TypeOK
<1>9. CASE TakeFails(t)
  <2>1. Idle(t) /\ Idle(t)'
    BY <1>9, InTxIdle DEF TakeFails, Next1, Granting, Unlocking
  <2> QED
    BY <1>9, <2>1, QuietFrame DEF TakeFails, Proceed, lockVars, declVars,
       config, TypeOK
<1>10. CASE Suspend(t)
  <2>1. Idle(t) /\ Idle(t)'
    BY <1>10, InTxIdle DEF Suspend, Next1, Granting, Unlocking
  <2> QED
    BY <1>10, <2>1, QuietFrame DEF Suspend, Proceed, DefCoreTx, lockVars,
       declVars, config, TypeOK
<1> QED
  BY <1>1, <1>2, <1>3, <1>4, <1>5, <1>6, <1>7, <1>8, <1>9, <1>10 DEF QuietLock

LEMMA QuietTaken ==
  ASSUME TypeOK, Quiet, NEW m \in Mutex
  PROVE  TakenOutside(m)' <=> TakenOutside(m)
<1>1. owner[m] # NoThread => owner[m] \in Thread
  BY DEF TypeOK
<1> QED
  BY <1>1 DEF Quiet, TakenOutside, Granting, config

LEMMA QuietLocker ==
  ASSUME TypeOK, LockerInv, Quiet
  PROVE  LockerInv'
<1>1. ASSUME NEW t \in Thread, NEW s \in Granting \cup Unlocking, Next1(t, s)'
      PROVE  owner'[Arg(t)'] = t
  BY <1>1 DEF LockerInv, Quiet
<1>2. ASSUME NEW t \in Thread, NEW s \in Registering \cup Unlocking, Next1(t, s)'
      PROVE  latmMutex' = t
  BY <1>2 DEF LockerInv, Quiet, Registering, Granting
<1>3. ASSUME NEW t \in Thread, Next1(t, "core")'
      PROVE  ~TakenOutside(Arg(t))'
  <2>1. Next1(t, "core") /\ Arg(t)' = Arg(t)
    BY <1>3 DEF Quiet, Granting
  <2>2. Arg(t) \in Mutex
    BY <2>1 DEF Next1, Arg, TypeOK
  <2>3. ~TakenOutside(Arg(t))
    BY <2>1 DEF LockerInv
  <2>4. Arg(t) = Arg(t)' /\ owner' = owner /\ latmLockedLocks' = latmLockedLocks
    BY <2>1 DEF Quiet
  <2> QED
    BY <2>1, <2>2, <2>3, QuietTaken DEF Arg
<1>4. \A m \in latmLockedLocks' : owner'[m] # NoThread /\ Counts(m)'
  BY DEF LockerInv, Quiet, Counts, config
<1>5. policy' = "tx" => \A m \in Mutex : locksOfThread'[m] \in {NoThread, owner'[m]}
  BY DEF LockerInv, Quiet, config
<1>6. ASSUME NEW t \in Thread, Next1(t, "drain")'
      PROVE  Arg(t)' \notin latmLockedLocks'
  BY <1>6 DEF LockerInv, Quiet, Granting
<1> QED
  BY <1>1, <1>2, <1>3, <1>4, <1>5, <1>6 DEF LockerInv

(* The steps that take, grant, register or release a lock.                  *)
LockerParts(t) ==
  /\ \A s \in Granting \cup Unlocking : Next1(t, s) => owner[Arg(t)] = t
  /\ \A s \in Registering \cup Unlocking : Next1(t, s) => latmMutex = t
  /\ Next1(t, "core") => ~TakenOutside(Arg(t))
  /\ Next1(t, "drain") => Arg(t) \notin latmLockedLocks

LEMMA LockerFromParts ==
  ASSUME \A t \in Thread : LockerParts(t)',
         \A m \in latmLockedLocks' : owner'[m] # NoThread /\ Counts(m)',
         policy' = "tx" => \A m \in Mutex : locksOfThread'[m] \in {NoThread, owner'[m]}
  PROVE  LockerInv'
BY DEF LockerParts, LockerInv

(* Of a step of t, what the others have to know: it leaves their locks and  *)
(* their calls alone.                                                       *)
LEMMA OthersParts ==
  ASSUME TypeOK, LockerInv, NEW t \in Thread, NEW u \in Thread, u # t,
         UNCHANGED config,
         todo'[u] = todo[u], call'[u] = call[u],
         latmMutex = u => latmMutex' = u,
         \A m \in Mutex : owner[m] = u =>
            /\ owner'[m] = u
            /\ m \in latmLockedLocks' => m \in latmLockedLocks
            /\ policy = "tx" => locksOfThread'[m] = locksOfThread[m]
  PROVE  LockerParts(u)'
<1>1. \A s \in Granting \cup Unlocking : Next1(u, s)' <=> Next1(u, s)
  BY DEF Next1
<1>2. Arg(u)' = Arg(u)
  BY DEF Arg
<1>3. ASSUME NEW s \in Granting \cup Unlocking, Next1(u, s)
      PROVE  /\ Arg(u) \in Mutex /\ owner[Arg(u)] = u
             /\ owner'[Arg(u)] = u
  BY <1>3 DEF Next1, Arg, TypeOK, LockerInv
<1>4. ASSUME Next1(u, "core")
      PROVE  ~TakenOutside(Arg(u))'
  <2>1. ~TakenOutside(Arg(u)) /\ owner[Arg(u)] = u /\ Arg(u) \in Mutex
        /\ owner'[Arg(u)] = u
    BY <1>3, <1>4 DEF LockerInv, Granting
  <2>2. ~Next1(u, "drain") /\ ~Next1(u, "register")
        /\ ~Next1(u, "drain")' /\ ~Next1(u, "register")'
    BY <1>4 DEF Next1
  <2>3. u # NoThread
    BY LatmAssumption
  <2>4. IF policy = "tx" THEN locksOfThread[Arg(u)] # u
        ELSE Arg(u) \notin latmLockedLocks
    BY <2>1, <2>2, <2>3 DEF TakenOutside
  <2> QED
    BY <1>2, <2>1, <2>2, <2>4 DEF TakenOutside, config
<1>5. Next1(u, "drain") => Arg(u) \notin latmLockedLocks'
  BY <1>3 DEF LockerInv, Granting
<1> QED
  BY <1>1, <1>2, <1>3, <1>4, <1>5 DEF LockerParts, LockerInv, Registering,
     Granting

(* What the core of a lock does to the registers.                           *)
LEMMA CoreDoes ==
  ASSUME TypeOK, NEW t \in Thread, NEW m \in Mutex, Core(t, m)
  PROVE  /\ ForceToAbort(Victims(t, m))
         /\ locksOfThread' = [locksOfThread EXCEPT ![m] =
              IF direct /\ policy = "tx" /\ Victims(t, m) # {} THEN t ELSE @]
BY DEF Core, DefCoreTm, DefCoreFull, DirCoreTm, DirCoreFull, DefCoreTx,
       DirCoreTx, TypeOK

(* After its call has gone on, t is about to make the step s.               *)
LEMMA NextStep ==
  ASSUME TypeOK, CallsInv, NEW t \in Thread, NEW s \in {"mutex"} \cup Granting,
         Next1(t, s), Proceed(t)
  PROVE  /\ pc[t] = "out" /\ todo[t] \in Outside
         /\ Arg(t) \in Mutex
         /\ todo'[t] # <<>> => call'[t] = call[t]
         /\ s = "mutex" => todo'[t] # <<>> /\ Head(todo'[t]) = "core"
         /\ s = "core" => /\ todo'[t] # <<>>
                          /\ Head(todo'[t]) = IF direct THEN "drain" ELSE "register"
         /\ s = "drain" => todo'[t] # <<>> /\ Head(todo'[t]) = "register"
         /\ s = "register" => todo'[t] = <<>>
<1>1. todo[t] # <<>> /\ Head(todo[t]) = s
  BY DEF Next1
<1>2. pc[t] = "out" /\ todo[t] \in Outside
  BY <1>1, OutsideCall
<1>3. Arg(t) \in Mutex
  BY <1>1 DEF Arg, TypeOK
<1>4. todo'[t] = Tail(todo[t]) /\ (Tail(todo[t]) # <<>> => call'[t] = call[t])
  BY DEF Proceed, TypeOK
<1> QED
  BY <1>1, <1>2, <1>3, <1>4, OutsideHeads DEF TypeOK

LEMMA OthersCalls ==
  ASSUME TypeOK, NEW t \in Thread, Proceed(t)
  PROVE  \A u \in Thread \ {t} : todo'[u] = todo[u] /\ call'[u] = call[u]
BY DEF Proceed, TypeOK

LEMMA TakeMutexLocker ==
  ASSUME TypeOK, CallsInv, LockerInv, NEW t \in Thread, TakeMutex(t)
  PROVE  LockerInv'
<1> DEFINE m == Arg(t)
<1>1. /\ m \in Mutex /\ call'[t] = call[t]
      /\ todo'[t] # <<>> /\ Head(todo'[t]) = "core"
  BY NextStep DEF TakeMutex
<1>2. owner[m] = NoThread /\ owner' = [owner EXCEPT ![m] = t]
  BY DEF TakeMutex
<1>3. m \notin latmLockedLocks /\ (policy = "tx" => locksOfThread[m] = NoThread)
  BY <1>1, <1>2 DEF LockerInv
<1>4. UNCHANGED <<config, latmMutex, latmLockedLocks, locksOfThread, declVars>>
  BY DEF TakeMutex
<1>5. t # NoThread /\ Arg(t)' = m
  BY <1>1, LatmAssumption DEF Arg
<1>6. LockerParts(t)'
  <2>1. owner'[m] = t
    BY <1>1, <1>2 DEF TypeOK
  <2>2. \A s \in Registering \cup Unlocking : ~Next1(t, s)'
    BY <1>1 DEF Next1, Registering, Unlocking
  <2>3. ~TakenOutside(m)'
    BY <1>3, <1>4, <1>5, <2>1, <2>2 DEF TakenOutside, Registering, config
  <2> QED
    BY <1>5, <2>1, <2>2, <2>3 DEF LockerParts, Registering
<1>7. \A u \in Thread : LockerParts(u)'
  <2>1. \A u \in Thread \ {t} : /\ todo'[u] = todo[u] /\ call'[u] = call[u]
                                /\ u # NoThread
    BY OthersCalls, LatmAssumption DEF TakeMutex
  <2>2. \A k \in Mutex \ {m} : owner'[k] = owner[k]
    BY <1>2 DEF TypeOK
  <2> QED
    BY <1>1, <1>2, <1>4, <1>6, <2>1, <2>2, OthersParts
<1> QED
  BY <1>1, <1>2, <1>3, <1>4, <1>5, <1>7, LockerFromParts DEF LockerInv,
     TypeOK, Counts, config, declVars

LEMMA CoreGrantedLocker ==
  ASSUME TypeOK, CallsInv, LockerInv, NEW t \in Thread, CoreGranted(t)
  PROVE  LockerInv'
<1> DEFINE m == Arg(t)
<1>0. Next1(t, "core") /\ latmMutex \in {t, NoThread}
  BY DEF CoreGranted, AtCore
<1>1. /\ m \in Mutex /\ call'[t] = call[t] /\ todo'[t] # <<>>
      /\ Head(todo'[t]) \in Registering
  BY <1>0, NextStep DEF CoreGranted, Granting, Registering
<1>2. owner[m] = t /\ ~TakenOutside(m)
  BY <1>0 DEF LockerInv, Granting
<1>3. /\ UNCHANGED <<config, owner, latmLockedLocks, declVars>>
      /\ latmMutex' = t
  BY DEF CoreGranted
<1>4. t # NoThread /\ Arg(t)' = m
  BY <1>1, LatmAssumption DEF Arg
<1>5. /\ \A k \in Mutex \ {m} : locksOfThread'[k] = locksOfThread[k]
      /\ policy = "tx" => locksOfThread'[m] \in {NoThread, t}
  <2>1. Core(t, m) /\ (policy = "tx" => locksOfThread[m] \in {NoThread, t})
    BY <1>1, <1>2 DEF CoreGranted, LockerInv
  <2>2. locksOfThread' = [locksOfThread EXCEPT ![m] =
          IF direct /\ policy = "tx" /\ Victims(t, m) # {} THEN t ELSE @]
    BY <1>1, <2>1, CoreDoes
  <2> QED
    BY <1>1, <2>1, <2>2 DEF TypeOK
<1>6. m \notin latmLockedLocks
  BY <1>0, <1>2, <1>4 DEF TakenOutside, Next1, LockerInv, Counts
<1>7. LockerParts(t)'
  BY <1>1, <1>2, <1>3, <1>4, <1>6 DEF LockerParts, Next1, Registering
<1>8. \A u \in Thread : LockerParts(u)'
  <2>1. \A u \in Thread \ {t} : /\ todo'[u] = todo[u] /\ call'[u] = call[u]
                                /\ u # NoThread
    BY OthersCalls, LatmAssumption DEF CoreGranted
  <2> QED
    BY <1>0, <1>1, <1>2, <1>3, <1>5, <1>7, <2>1, OthersParts
<1> QED
  BY <1>1, <1>2, <1>3, <1>4, <1>5, <1>8, LockerFromParts DEF LockerInv,
     TypeOK, Counts, config, declVars

LEMMA CoreRefusedLocker ==
  ASSUME TypeOK, CallsInv, LockerInv, NEW t \in Thread, CoreRefused(t)
  PROVE  LockerInv'
<1> DEFINE m == Arg(t)
<1>1. /\ m \in Mutex /\ Next1(t, "core") /\ owner[m] = t /\ ~TakenOutside(m)
      /\ latmMutex \in {t, NoThread}
  BY DEF CoreRefused, AtCore, LockerInv, Granting, Next1, Arg, TypeOK
<1>2. t # NoThread
  BY LatmAssumption
<1>3. m \notin latmLockedLocks /\ (policy = "tx" => locksOfThread[m] = NoThread)
  BY <1>1, <1>2 DEF TakenOutside, Next1, LockerInv, Counts
<1>4. /\ UNCHANGED <<config, latmLockedLocks, locksOfThread, declVars>>
      /\ owner' = [owner EXCEPT ![m] = NoThread]
  BY DEF CoreRefused
<1>5. /\ todo'[t] # <<>> => Head(todo'[t]) = "mutex"
      /\ \A u \in Thread \ {t} : todo'[u] = todo[u] /\ call'[u] = call[u]
  BY OutsideProgram DEF CoreRefused, Returns, TypeOK
<1>6. LockerParts(t)'
  BY <1>5 DEF LockerParts, Next1, Granting, Registering, Unlocking
<1>7. \A u \in Thread : LockerParts(u)'
  <2>1. \A u \in Thread \ {t} : latmMutex # u
    BY <1>1, LatmAssumption
  <2> QED
    BY <1>1, <1>4, <1>5, <1>6, <2>1, OthersParts DEF TypeOK
<1> QED
  BY <1>3, <1>4, <1>7, LockerFromParts DEF LockerInv, TypeOK, Counts,
     config, declVars

LEMMA DrainedLocker ==
  ASSUME TypeOK, CallsInv, LockerInv, NEW t \in Thread, Drained(t)
  PROVE  LockerInv'
<1> DEFINE m == Arg(t)
<1>1. /\ m \in Mutex /\ call'[t] = call[t]
      /\ todo'[t] # <<>> /\ Head(todo'[t]) = "register"
  BY NextStep DEF Drained, Granting
<1>2. owner[m] = t /\ latmMutex = t
  BY DEF Drained, LockerInv, Granting, Registering
<1>3. UNCHANGED <<config, owner, latmMutex, latmLockedLocks, locksOfThread,
                  declVars>>
  BY DEF Drained, lockVars
<1>4. t # NoThread /\ Arg(t)' = m
  BY <1>1, LatmAssumption DEF Arg
<1>5. LockerParts(t)'
  BY <1>1, <1>2, <1>3, <1>4 DEF LockerParts, Next1, Registering
<1>6. \A u \in Thread : LockerParts(u)'
  <2>1. \A u \in Thread \ {t} : todo'[u] = todo[u] /\ call'[u] = call[u]
    BY OthersCalls DEF Drained
  <2> QED
    BY <1>3, <1>5, <2>1, OthersParts
<1> QED
  BY <1>3, <1>6, LockerFromParts DEF LockerInv, Counts, config, declVars

LEMMA RegisterLocker ==
  ASSUME TypeOK, CallsInv, LockerInv, NEW t \in Thread, Register(t)
  PROVE  LockerInv'
<1> DEFINE m == Arg(t)
<1>1. m \in Mutex /\ todo'[t] = <<>>
  BY NextStep DEF Register, Granting
<1>2. owner[m] = t /\ latmMutex = t /\ t # NoThread
  BY LatmAssumption DEF Register, LockerInv, Granting, Registering
<1>3. /\ UNCHANGED <<config, owner, declVars>>
      /\ locksOfThread' = [locksOfThread EXCEPT ![m] = t]
      /\ latmLockedLocks' = latmLockedLocks \cup IF Counts(m) THEN {m} ELSE {}
  BY DEF Register, Inserts
<1>4. LockerParts(t)'
  BY <1>1 DEF LockerParts, Next1
<1>5. \A u \in Thread : LockerParts(u)'
  <2>1. \A u \in Thread \ {t} : /\ todo'[u] = todo[u] /\ call'[u] = call[u]
                                /\ u # NoThread
    BY OthersCalls, LatmAssumption DEF Register
  <2>2. \A k \in Mutex \ {m} : locksOfThread'[k] = locksOfThread[k]
    BY <1>3 DEF TypeOK
  <2> QED
    BY <1>1, <1>2, <1>3, <1>4, <2>1, <2>2, OthersParts
<1> QED
  BY <1>1, <1>2, <1>3, <1>5, LockerFromParts DEF LockerInv, TypeOK, Counts,
     config, declVars

(* unlock_() and what of it does not release anything yet.                  *)
LEMMA UnlockCallLocker ==
  ASSUME TypeOK, LockerInv, NEW t \in Thread, NEW m \in Mutex, UnlockCall(t, m)
  PROVE  LockerInv'
<1>1. /\ UNCHANGED <<config, owner, latmLockedLocks, locksOfThread, declVars>>
      /\ owner[m] = t /\ latmMutex = NoThread /\ latmMutex' = t
      /\ todo'[t] = <<"look", "unlock">> /\ Arg(t)' = m
      /\ \A u \in Thread \ {t} : todo'[u] = todo[u] /\ call'[u] = call[u]
  BY DEF UnlockCall, LatmFree, Arg, NoCall, TypeOK
<1>2. LockerParts(t)'
  BY <1>1 DEF LockerParts, Next1, Granting, Registering, Unlocking
<1>3. \A u \in Thread : LockerParts(u)'
  <2>1. \A u \in Thread \ {t} : latmMutex # u
    BY <1>1, LatmAssumption
  <2> QED
    BY <1>1, <1>2, <2>1, OthersParts
<1> QED
  BY <1>1, <1>3, LockerFromParts DEF LockerInv, Counts, config, declVars

LEMMA LookLocker ==
  ASSUME TypeOK, CallsInv, LockerInv, NEW t \in Thread, Look(t)
  PROVE  LockerInv'
<1>1. Next1(t, "look") /\ UNCHANGED <<config, lockVars, declVars>>
  BY DEF Look
<1>2. owner[Arg(t)] = t /\ latmMutex = t
  BY <1>1 DEF LockerInv, Unlocking
<1>3. todo'[t] # <<>> /\ Head(todo'[t]) = "unlock" /\ Arg(t)' = Arg(t)
  <2>1. /\ todo[t] # <<>> /\ todo[t] \in UnlockTodo /\ Head(todo[t]) = "look"
        /\ Proceed(t)
    BY <1>1, UnlockingCall DEF Look, Next1, Unlocking
  <2>2. todo'[t] = Tail(todo[t])
    BY <2>1 DEF Proceed, TypeOK
  <2>3. Tail(todo[t]) = <<"unlock">> /\ Tail(todo[t]) # <<>>
    BY <2>1, UnlockHeads
  <2>4. call'[t] = call[t]
    BY <2>1, <2>3 DEF Proceed, TypeOK
  <2>5. Head(<<"unlock">>) = "unlock"
    OBVIOUS
  <2> QED
    BY <2>2, <2>3, <2>4, <2>5 DEF Arg
<1>4. LockerParts(t)'
  BY <1>1, <1>2, <1>3 DEF LockerParts, Next1, Granting, Registering, lockVars
<1>5. \A u \in Thread : LockerParts(u)'
  BY <1>1, <1>4, OthersCalls, OthersParts DEF Look, lockVars
<1> QED
  BY <1>1, <1>5, LockerFromParts DEF LockerInv, Counts, config, lockVars,
     declVars

LEMMA UnlockLocker ==
  ASSUME TypeOK, CallsInv, LockerInv, NEW t \in Thread, Unlock(t)
  PROVE  LockerInv'
<1> DEFINE m == Arg(t)
<1>1. Next1(t, "unlock") /\ m \in Mutex /\ t # NoThread
  BY LatmAssumption DEF Unlock, Next1, Arg, TypeOK
<1>2. owner[m] = t /\ latmMutex = t
  BY <1>1 DEF LockerInv, Unlocking
<1>3. /\ UNCHANGED <<config, declVars>>
      /\ owner' = [owner EXCEPT ![m] = NoThread]
      /\ locksOfThread' = [locksOfThread EXCEPT ![m] = NoThread]
  BY DEF Unlock
<1>4. latmLockedLocks' = latmLockedLocks \ {m}
  BY DEF Unlock, PthreadUnlock, DefFullUnlock, DirFullUnlock, DefTmUnlock,
         DirTmUnlock, DefTxUnlock, DirTxUnlock, Erases, Counts, LockerInv
<1>5. LockerParts(t)'
  <2>1. todo'[t] = <<>>
    BY <1>1, UnlockingCall, UnlockHeads DEF Unlock, Next1, Proceed, Unlocking,
       TypeOK
  <2> QED
    BY <2>1 DEF LockerParts, Next1
<1>6. \A u \in Thread : LockerParts(u)'
  <2>1. \A u \in Thread \ {t} : /\ todo'[u] = todo[u] /\ call'[u] = call[u]
                                /\ latmMutex # u
    BY <1>2, OthersCalls DEF Unlock
  <2>2. \A k \in Mutex \ {m} : /\ owner'[k] = owner[k]
                               /\ locksOfThread'[k] = locksOfThread[k]
    BY <1>3 DEF TypeOK
  <2> QED
    BY <1>1, <1>2, <1>3, <1>4, <1>5, <2>1, <2>2, OthersParts
<1> QED
  BY <1>1, <1>2, <1>3, <1>4, <1>6, LockerFromParts DEF LockerInv, TypeOK,
     Counts, config, declVars

(* The two steps of a call inside a transaction that touch the registers.   *)
LEMMA NoteTakeInTx ==
  ASSUME TypeOK, CallsInv, NEW t \in Thread, Note(t) \/ Take(t)
  PROVE  /\ Arg(t) \in Mutex /\ t # NoThread /\ todo[t] # <<>>
         /\ pc[t] = "body" /\ pc'[t] = "body" /\ Idle(t) /\ Idle(t)'
         /\ policy = "tx" => Take(t)
<1>1. todo[t] # <<>> /\ Head(todo[t]) \in {"note", "settle", "take"}
  BY DEF Note, Take, Next1
<1>2. pc[t] = "body" /\ InTxTodo(t) /\ Idle(t) /\ Idle(t)'
  BY <1>1, InTxCall, InTxIdle DEF Note, Take, Granting, Unlocking
<1>3. policy = "tx" => Head(todo[t]) = "take"
  BY <1>1, <1>2 DEF InTxTodo, Enters, Works
<1> QED
  BY <1>1, <1>2, <1>3, LatmAssumption DEF Note, Take, Next1, Arg, TypeOK

LEMMA NoteTakeLocker ==
  ASSUME TypeOK, CallsInv, LockerInv, NEW t \in Thread, Note(t) \/ Take(t)
  PROVE  LockerInv'
<1>1. /\ Arg(t) \in Mutex /\ t # NoThread /\ Idle(t)'
      /\ policy = "tx" => Take(t)
  BY NoteTakeInTx
<1>2. /\ UNCHANGED <<config, latmMutex, latmLockedLocks, declVars>>
      /\ \A k \in Mutex : owner[k] # NoThread => owner'[k] = owner[k]
      /\ policy = "tx" => UNCHANGED locksOfThread
  BY <1>1 DEF Note, Take, TypeOK
<1>3. \A u \in Thread \ {t} : todo'[u] = todo[u] /\ call'[u] = call[u]
  BY OthersCalls DEF Note, Take
<1>4. LockerParts(t)'
  BY <1>1 DEF LockerParts, Idle, Granting, Registering
<1>5. \A u \in Thread : LockerParts(u)'
  <2>1. \A u \in Thread : u # NoThread
    BY LatmAssumption
  <2>2. ASSUME NEW u \in Thread \ {t}
        PROVE  \A m \in Mutex : owner[m] = u =>
                 /\ owner'[m] = u
                 /\ m \in latmLockedLocks' => m \in latmLockedLocks
                 /\ policy = "tx" => locksOfThread'[m] = locksOfThread[m]
    BY <1>2, <2>1, <2>2
  <2>3. ASSUME NEW u \in Thread \ {t}
        PROVE  LockerParts(u)'
    BY <1>2, <1>3, <2>2, <2>3, OthersParts
  <2> QED
    BY <1>4, <2>3
<1> QED
  BY <1>2, <1>5, LockerFromParts DEF LockerInv, TypeOK, Counts, config,
     declVars

LEMMA TmLockConflictQuiet ==
  ASSUME TypeOK, NEW m \in Mutex, TmLockConflict(m)
  PROVE  Quiet
BY DEF TmLockConflict, Quiet, lockVars, control, Next1, Arg, Granting

LEMMA StutterQuiet ==
  ASSUME UNCHANGED vars
  PROVE  Quiet
BY DEF vars, Quiet, config, lockVars, declVars, control, Next1, Arg

(* A lock taken by a locker is taken, whoever steps.                        *)
LEMMA LockerStep ==
  ASSUME TypeOK, CallsInv, LockerInv, [Next]_vars
  PROVE  LockerInv'
<1>1. ASSUME NEW t \in Thread, QuietSection(t)
      PROVE  LockerInv'
  BY <1>1, QuietSectionStep, QuietLocker
<1>2. ASSUME NEW t \in Thread, QuietTx(t) \/ QuietLock(t)
      PROVE  LockerInv'
  BY <1>2, QuietTxStep, QuietLockStep, QuietLocker
<1>3. ASSUME NEW m \in Mutex, TmLockConflict(m)
      PROVE  LockerInv'
  BY <1>3, TmLockConflictQuiet, QuietLocker
<1>4. CASE UNCHANGED vars
  BY <1>4, StutterQuiet, QuietLocker
<1>5. ASSUME NEW t \in Thread, LockWork(t)
      PROVE  LockerInv'
  BY <1>5, TakeMutexLocker, CoreGrantedLocker, CoreRefusedLocker,
     DrainedLocker, RegisterLocker, UnlockCallLocker, LookLocker, UnlockLocker,
     NoteTakeLocker DEF LockWork
<1> QED
  BY <1>1, <1>2, <1>3, <1>4, <1>5, QuietOrWork DEF Next

-----------------------------------------------------------------------------
(* What a step leaves to a transaction: its excuse.                         *)
Spares(u) ==
  /\ Harmless(u) => Harmless(u)'
  /\ \A m \in Mutex : Waits(u, m) => Waits(u, m)'

LEMMA SparesFrame ==
  ASSUME UNCHANGED config, NEW u \in Thread,
         forcedToAbort[u] => forcedToAbort'[u], slipped[u] => slipped'[u],
         overtaken[u] => overtaken'[u],
         Irrevocable(u) => Irrevocable(u)',
         \A k \in Mutex : owner[k] = u => owner'[k] = u,
         \/ policy # "tx" \/ pc[u] # "added" \/ ~blocked[u]
         \/ /\ todo'[u] = todo[u] /\ pc'[u] = pc[u]
            /\ \A k \in Mutex : u \in locksAndThreadIds[k]
                 => blocked'[u] /\ u \in locksAndThreadIds'[k]
  PROVE  Spares(u)
BY DEF Spares, Harmless, Waits, At, Strays, config

LEMMA KeptOutFrame ==
  ASSUME KeptOut,
         \A u \in Present', m \in Mutex :
           Excludes(m, u)' => \/ Harmless(u)' \/ Waits(u, m)'
                              \/ u \in Present /\ Excludes(m, u) /\ Spares(u)
  PROVE  KeptOut'
BY DEF KeptOut, Spares

LEMMA KeptOutQuiet ==
  ASSUME TypeOK, KeptOut, Quiet, UNCHANGED tmConflictingLocks,
         \A u \in Present' :
           /\ u \in Present /\ Spares(u)
           /\ txConflictingLocks'[u] \subseteq txConflictingLocks[u]
  PROVE  KeptOut'
<1>1. ASSUME NEW u \in Present', NEW m \in Mutex, Excludes(m, u)'
      PROVE  Excludes(m, u)
  BY <1>1, QuietTaken DEF Excludes, KeepsOut, Quiet, config
<1> QED
  BY <1>1, KeptOutFrame

LEMMA QuietTxKept ==
  ASSUME TypeOK, CallsInv, FlightInv, KeptOut, Quiet, NEW t \in Thread,
         QuietTx(t), Onward(t),
         \A m \in Mutex : ~AddTxConflictingLock(t, m)
  PROVE  KeptOut'
<1>1. CASE Declared(t)
  <2>1. ASSUME NEW u \in Present'
        PROVE  /\ u \in Present /\ Spares(u)
               /\ txConflictingLocks'[u] = txConflictingLocks[u]
    BY <1>1, <2>1, SparesFrame DEF At, Goto, Declared, InFlight, Present, Onward,
       Irrevocable, lockVars, declVars, heldVars, txVars, control, config,
       TypeOK
  <2> QED
    BY <1>1, <2>1, KeptOutQuiet DEF Declared, declVars
<1>2. CASE Begin(t)
  <2>1. ASSUME NEW u \in Present'
        PROVE  /\ u \in Present /\ Spares(u)
               /\ txConflictingLocks'[u] = txConflictingLocks[u]
    BY <1>2, <2>1, SparesFrame DEF At, Goto, Begin, InFlight, Present, Onward, Irrevocable,
       lockVars, declVars, heldVars, txVars, control, config, TypeOK
  <2> QED
    BY <1>2, <2>1, KeptOutQuiet DEF Begin, declVars
<1>3. CASE Abort(t)
  <2>1. ASSUME NEW u \in Present'
        PROVE  /\ u \in Present /\ Spares(u)
               /\ txConflictingLocks'[u] = txConflictingLocks[u]
    BY <1>3, <2>1, SparesFrame DEF Abort, Aborts, Returns, Goto, InFlight, Present, Onward,
       Irrevocable, lockVars, declVars, heldVars, txVars, control, config,
       TypeOK
  <2> QED
    BY <1>3, <2>1, KeptOutQuiet DEF Abort, declVars
<1>4. CASE Unwind(t)
  <2>1. ASSUME NEW u \in Present'
        PROVE  /\ u \in Present /\ Spares(u)
               /\ txConflictingLocks'[u] = txConflictingLocks[u]
    BY <1>4, <2>1, SparesFrame DEF Unwind, Aborts, Returns, Goto, InFlight, Present, Onward,
       Irrevocable, lockVars, declVars, heldVars, txVars, control, config,
       TypeOK
  <2> QED
    BY <1>4, <2>1, KeptOutQuiet DEF Unwind, declVars
<1>5. CASE EndReadOnly(t)
  <2>1. ASSUME NEW u \in Present'
        PROVE  /\ u \in Present /\ Spares(u)
               /\ txConflictingLocks'[u] = txConflictingLocks[u]
    BY <1>5, <2>1, SparesFrame DEF At, Goto, EndReadOnly, InFlight, Present, Onward,
       Irrevocable, lockVars, declVars, heldVars, txVars, control, config,
       TypeOK
  <2> QED
    BY <1>5, <2>1, KeptOutQuiet DEF EndReadOnly, declVars
<1>6. CASE LeaveReadOnly(t)
  <2>1. ASSUME NEW u \in Present'
        PROVE  /\ u \in Present /\ Spares(u)
               /\ txConflictingLocks'[u] = txConflictingLocks[u]
    BY <1>6, <2>1, SparesFrame DEF LeaveReadOnly, Commits,
       ClearLatmObtainedLocks, UnblockConflicting, UnblockAllOn, At, Goto,
       InFlight, Present, Onward, Irrevocable, lockVars, declVars, heldVars, txVars, control,
       config, TypeOK
  <2> QED
    BY <1>6, <2>1, KeptOutQuiet DEF LeaveReadOnly, Commits, declVars
<1>7. CASE Decide(t)
  <2>1. ASSUME NEW u \in Present'
        PROVE  /\ u \in Present /\ Spares(u)
               /\ txConflictingLocks'[u] = txConflictingLocks[u]
    BY <1>7, <2>1, SparesFrame DEF Decide, ForceToAbort, At, Goto,
       InFlight, Present, Onward, Irrevocable, lockVars, declVars, heldVars, txVars, control,
       config, TypeOK
  <2> QED
    BY <1>7, <2>1, KeptOutQuiet DEF Decide, declVars
<1>8. CASE WriteBackDone(t)
  <2>1. ASSUME NEW u \in Present'
        PROVE  /\ u \in Present /\ Spares(u)
               /\ txConflictingLocks'[u] = txConflictingLocks[u]
    BY <1>8, <2>1, SparesFrame DEF WriteBackDone, Commits,
       ClearLatmObtainedLocks, UnblockConflicting, UnblockAllOn, FlightInv,
       At, Goto, InFlight, Present, Onward, Irrevocable, lockVars, declVars, heldVars, txVars,
       control, config, TypeOK
  <2> QED
    BY <1>8, <2>1, KeptOutQuiet DEF WriteBackDone, Commits, declVars
<1>9. CASE DirectCommit(t)
  <2>1. ASSUME NEW u \in Present'
        PROVE  /\ u \in Present /\ Spares(u)
               /\ txConflictingLocks'[u] = txConflictingLocks[u]
    BY <1>9, <2>1, SparesFrame DEF DirectCommit, Commits,
       ClearLatmObtainedLocks, UnblockConflicting, UnblockAllOn, ForceToAbort,
       At, Goto, InFlight, Present, Onward, Irrevocable, lockVars, declVars, heldVars, txVars,
       control, config, TypeOK
  <2> QED
    BY <1>9, <2>1, KeptOutQuiet DEF DirectCommit, Commits, declVars
<1>10. CASE CommitDenied(t)
  <2>1. ASSUME NEW u \in Present'
        PROVE  /\ u \in Present /\ Spares(u)
               /\ txConflictingLocks'[u] = txConflictingLocks[u]
    BY <1>10, <2>1, SparesFrame DEF CommitDenied, Aborts, Returns, Goto,
       InFlight, Present, Onward, Irrevocable, lockVars, declVars, heldVars, txVars, control,
       config, TypeOK
  <2> QED
    BY <1>10, <2>1, KeptOutQuiet DEF CommitDenied, declVars
<1> QED
  BY <1>1, <1>2, <1>3, <1>4, <1>5, <1>6, <1>7, <1>8, <1>9, <1>10 DEF QuietTx

LEMMA QuietLockKept ==
  ASSUME TypeOK, CallsInv, FlightInv, KeptOut, Quiet, NEW t \in Thread,
         QuietLock(t), Onward(t)
  PROVE  KeptOut'
<1>1. ASSUME NEW m \in Mutex, NEW try \in BOOLEAN, LockCall(t, m, try)
      PROVE  KeptOut'
  <2>1. ASSUME NEW u \in Present'
        PROVE  /\ u \in Present /\ Spares(u)
               /\ txConflictingLocks'[u] = txConflictingLocks[u]
    BY <1>1, <2>1, SparesFrame DEF LockCall, Calls, At, InFlight, Present, Onward,
       Irrevocable, lockVars, declVars, heldVars, txVars, control, config,
       TypeOK
  <2> QED
    BY <1>1, <2>1, KeptOutQuiet DEF LockCall, Calls, declVars
<1>2. CASE TrylockFails(t)
  <2>1. ASSUME NEW u \in Present'
        PROVE  /\ u \in Present /\ Spares(u)
               /\ txConflictingLocks'[u] = txConflictingLocks[u]
    <3>1. pc[t] = "out" /\ t \notin Present
      BY <1>2, OutsideCall DEF TrylockFails, Next1, FlightInv, Present, Onward
    <3> QED
      BY <1>2, <2>1, <3>1, SparesFrame DEF TrylockFails, Returns, InFlight, Present, Onward,
         Irrevocable, lockVars, declVars, heldVars, txVars, control, config,
         TypeOK
  <2> QED
    BY <1>2, <2>1, KeptOutQuiet DEF TrylockFails, declVars
<1>3. ASSUME NEW m \in Mutex, UnlockThrows(t, m)
      PROVE  KeptOut'
  <2>1. ASSUME NEW u \in Present'
        PROVE  /\ u \in Present /\ Spares(u)
               /\ txConflictingLocks'[u] = txConflictingLocks[u]
    BY <1>3, <2>1, SparesFrame DEF UnlockThrows, Aborts, At, Returns, Goto,
       InFlight, Present, Onward, Irrevocable, lockVars, declVars, heldVars, txVars, control,
       config, TypeOK
  <2> QED
    BY <1>3, <2>1, KeptOutQuiet DEF UnlockThrows, declVars
<1>4. ASSUME NEW m \in Mutex, NEW try \in BOOLEAN, LockInTx(t, m, try)
      PROVE  KeptOut'
  <2>1. ASSUME NEW u \in Present'
        PROVE  /\ u \in Present /\ Spares(u)
               /\ txConflictingLocks'[u] = txConflictingLocks[u]
    BY <1>4, <2>1, SparesFrame DEF LockInTx, Calls, At, InFlight, Present, Onward,
       Irrevocable, lockVars, declVars, heldVars, txVars, control, config,
       TypeOK
  <2> QED
    BY <1>4, <2>1, KeptOutQuiet DEF LockInTx, Calls, declVars
<1>5. CASE MakeIsolated(t)
  <2>1. ASSUME NEW u \in Present'
        PROVE  /\ u \in Present /\ Spares(u)
               /\ txConflictingLocks'[u] = txConflictingLocks[u]
    <3>1. pc[t] = "body"
      BY <1>5, InTxCall DEF MakeIsolated, Next1, Granting, Unlocking
    <3> QED
      BY <1>5, <2>1, <3>1, SparesFrame DEF MakeIsolated, ForceToAbort, Overtakes,
         Proceed, InFlight, Present, Onward, Irrevocable, lockVars, declVars, heldVars, txVars,
         control, config, TypeOK
  <2> QED
    BY <1>5, <2>1, KeptOutQuiet DEF MakeIsolated, declVars
<1>6. CASE MakeIrrevocable(t)
  <2>1. ASSUME NEW u \in Present'
        PROVE  /\ u \in Present /\ Spares(u)
               /\ txConflictingLocks'[u] = txConflictingLocks[u]
    <3>1. pc[t] = "body"
      BY <1>6, InTxCall DEF MakeIrrevocable, Next1, Granting, Unlocking
    <3> QED
      BY <1>6, <2>1, <3>1, SparesFrame DEF MakeIrrevocable, Proceed,
         InFlight, Present, Onward, Irrevocable, lockVars, declVars, heldVars, txVars, control,
         config, TypeOK
  <2> QED
    BY <1>6, <2>1, KeptOutQuiet DEF MakeIrrevocable, declVars
<1>7. CASE Publish(t)
  <2>1. ASSUME NEW u \in Present'
        PROVE  /\ u \in Present /\ Spares(u)
               /\ txConflictingLocks'[u] = txConflictingLocks[u]
    <3>1. pc[t] = "body"
      BY <1>7, InTxCall DEF Publish, Next1, Granting, Unlocking
    <3> QED
      BY <1>7, <2>1, <3>1, SparesFrame DEF Publish, Proceed, InFlight, Present, Onward,
         Irrevocable, lockVars, declVars, heldVars, txVars, control, config,
         TypeOK
  <2> QED
    BY <1>7, <2>1, KeptOutQuiet DEF Publish, declVars
<1>8. CASE List(t)
  <2>1. ASSUME NEW u \in Present'
        PROVE  /\ u \in Present /\ Spares(u)
               /\ txConflictingLocks'[u] = txConflictingLocks[u]
    <3>1. pc[t] = "body"
      BY <1>8, InTxCall DEF List, Next1, Granting, Unlocking
    <3> QED
      BY <1>8, <2>1, <3>1, SparesFrame DEF List, Proceed, InFlight, Present, Onward,
         Irrevocable, lockVars, declVars, heldVars, txVars, control, config,
         TypeOK
  <2> QED
    BY <1>8, <2>1, KeptOutQuiet DEF List, declVars
<1>9. CASE TakeFails(t)
  <2>1. ASSUME NEW u \in Present'
        PROVE  /\ u \in Present /\ Spares(u)
               /\ txConflictingLocks'[u] = txConflictingLocks[u]
    <3>1. pc[t] = "body"
      BY <1>9, InTxCall DEF TakeFails, Next1, Granting, Unlocking
    <3> QED
      BY <1>9, <2>1, <3>1, SparesFrame DEF TakeFails, Proceed, InFlight, Present, Onward,
         Irrevocable, lockVars, declVars, heldVars, txVars, control, config,
         TypeOK
  <2> QED
    BY <1>9, <2>1, KeptOutQuiet DEF TakeFails, declVars
<1>10. CASE Suspend(t)
  <2>1. ASSUME NEW u \in Present'
        PROVE  /\ u \in Present /\ Spares(u)
               /\ txConflictingLocks'[u] = txConflictingLocks[u]
    <3>1. pc[t] = "body"
      BY <1>10, InTxCall DEF Suspend, Next1, Granting, Unlocking
    <3> QED
      BY <1>10, <2>1, <3>1, SparesFrame DEF Suspend, DefCoreTx,
         ForceToAbort, Proceed, InFlight, Present, Onward, Irrevocable, lockVars, declVars,
         heldVars, txVars, control, config, TypeOK
  <2> QED
    BY <1>10, <2>1, KeptOutQuiet DEF Suspend, declVars
<1> QED
  BY <1>1, <1>2, <1>3, <1>4, <1>5, <1>6, <1>7, <1>8, <1>9, <1>10 DEF QuietLock

(* The gate of full and tm protection looks at the register, and tells so:  *)
(* who passes it beside a lock has slipped.                                 *)
LEMMA PassGateKept ==
  ASSUME TypeOK, KeptOut, Quiet, NEW t \in Thread, PassGate(t)
  PROVE  KeptOut'
<1>1. /\ \A m \in Mutex, u \in Thread : KeepsOut(m, u)' <=> KeepsOut(m, u)
      /\ Present' = Present \cup {t}
  BY DEF PassGate, KeepsOut, config, declVars, Present, InFlight, TypeOK
<1>2. ASSUME NEW m \in Mutex, Excludes(m, t)'
      PROVE  Harmless(t)'
  <2>1. TakenOutside(m) /\ owner[m] # t /\ KeepsOut(m, t)
    BY <1>1, <1>2, QuietTaken DEF Excludes, Quiet
  <2>2. \/ policy = "tx" \/ m \notin latmLockedLocks
        \/ locksOfThread[m] # owner[m]
    <3>1. owner[m] # NoThread
      BY <2>1 DEF TakenOutside
    <3> QED
      BY <2>1, <3>1 DEF PassGate, CanGoInflight, KeepsOut, TypeOK
  <2>3. Slips(t)
    BY <2>1, <2>2 DEF Slips
  <2> QED
    BY <2>3 DEF PassGate, Harmless, TypeOK
<1>3. ASSUME NEW u \in Present', u # t
      PROVE  u \in Present /\ u \in Thread /\ Spares(u)
  <2>1. u \in Present /\ u \in Thread
    BY <1>1, <1>3 DEF Present, InFlight, TypeOK
  <2> QED
    BY <1>3, <2>1, SparesFrame DEF PassGate, Irrevocable, lockVars, control,
       TypeOK
<1>4. ASSUME NEW u \in Present', u # t, NEW m \in Mutex, Excludes(m, u)'
      PROVE  Excludes(m, u)
  BY <1>1, <1>3, <1>4, QuietTaken DEF Excludes, Quiet
<1> QED
  BY <1>2, <1>3, <1>4, KeptOutFrame

LEMMA QuietSectionKept ==
  ASSUME TypeOK, GateInv, KeptOut, Quiet, NEW t \in Thread,
         PutTxInflight(t) \/ (Onward(t) /\ (EnterInflight(t) \/ LeaveInflight(t)))
  PROVE  KeptOut'
<1>1. CASE PutTxInflight(t)
  <2>1. AtGate(t) /\ pc[t] = "entering" /\ Present' \subseteq Present
    BY <1>1 DEF PutTxInflight, Leaves, AtGate, At, GateInv, Present, InFlight,
       TypeOK
  <2>2. ASSUME NEW u \in Present'
        PROVE  u \in Present /\ Spares(u)
    <3>1. u \in Present /\ u \in Thread
      BY <2>1, <2>2 DEF Present, InFlight, TypeOK
    <3> QED
      BY <1>1, <2>1, <3>1, SparesFrame DEF PutTxInflight, Goto, Irrevocable,
         lockVars, TypeOK
  <2> QED
    BY <1>1, <2>2, KeptOutQuiet DEF PutTxInflight, declVars
<1>2. CASE Onward(t) /\ (EnterInflight(t) \/ LeaveInflight(t))
  <2>1. /\ UNCHANGED <<config, owner, locksAndThreadIds, declVars, blocked,
                        txVars, control>>
        /\ Present' = Present
    BY <1>2 DEF EnterInflight, LeaveInflight, lockVars, Onward, Present,
       InFlight, txVars
  <2>2. ASSUME NEW u \in Present'
        PROVE  u \in Present /\ Spares(u)
    <3>1. u \in Present /\ u \in Thread
      BY <2>1, <2>2 DEF Present, InFlight, TypeOK
    <3> QED
      BY <2>1, <3>1, SparesFrame DEF Irrevocable, txVars, control
  <2> QED
    BY <2>1, <2>2, KeptOutQuiet DEF declVars
<1> QED
  BY <1>1, <1>2

(* A declaration is made while no lock is being granted: the register names *)
(* the owners, and the map holds the thread for the first of their locks.   *)
LEMMA AddTxConflictingLockKept ==
  ASSUME TypeOK, LockerInv, KeptOut, Quiet, NEW t \in Thread, NEW m \in Mutex,
         AddTxConflictingLock(t, m), Onward(t)
  PROVE  KeptOut'
<1> DEFINE declared == txConflictingLocks[t] \cup {m}
<1>1. /\ policy = "tx" /\ LatmFree /\ At(t, "body")
      /\ txConflictingLocks'[t] = declared
      /\ UNCHANGED <<config, owner, tmConflictingLocks, txVars, todo>>
      /\ \A u \in Thread \ {t} : txConflictingLocks'[u] = txConflictingLocks[u]
  BY DEF AddTxConflictingLock, TypeOK
<1>2. ASSUME NEW k \in Mutex
      PROVE  TakenOutside(k) <=> owner[k] # NoThread /\ locksOfThread[k] = owner[k]
  <2>1. policy = "tx" /\ latmLockedLocks = {}
    BY <1>1 DEF LockerInv, Counts
  <2>2. ASSUME NEW s \in Registering, owner[k] \in Thread
        PROVE  ~Next1(owner[k], s)
    BY <1>1, <2>2, LatmAssumption DEF LockerInv, LatmFree
  <2> QED
    BY <2>1, <2>2 DEF TakenOutside, Registering, TypeOK
<1>3. ASSUME NEW u \in Present'
      PROVE  u \in Present /\ Spares(u)
  <2>1. u \in Present /\ u \in Thread
    BY <1>1, <1>3 DEF Present, Onward, InFlight, txVars, TypeOK
  <2>2. \A k \in Mutex : locksAndThreadIds[k] \subseteq locksAndThreadIds'[k]
    <3>1. CASE UNCHANGED locksAndThreadIds
      BY <3>1
    <3>2. ASSUME NEW k \in TakenByOthers(t, declared),
                 locksAndThreadIds' = [locksAndThreadIds EXCEPT ![k] = @ \cup {t}]
          PROVE  \A j \in Mutex : locksAndThreadIds[j] \subseteq locksAndThreadIds'[j]
      BY <3>2 DEF TypeOK
    <3> QED
      BY <3>1, <3>2 DEF AddTxConflictingLock, SeeIfTxMustBlock
  <2>3. u # t => /\ todo'[u] = todo[u] /\ pc'[u] = pc[u]
                 /\ blocked[u] => blocked'[u]
    BY <2>1 DEF AddTxConflictingLock, SeeIfTxMustBlock, Goto, TypeOK
  <2>4. pc[t] = "body"
    BY <1>1 DEF At
  <2> QED
    BY <1>1, <2>1, <2>2, <2>3, <2>4, SparesFrame DEF Irrevocable, txVars
<1>4. ASSUME NEW u \in Present', NEW k \in Mutex, Excludes(k, u)',
             u # t \/ k # m
      PROVE  Excludes(k, u)
  <2>1. u \in Thread
    BY <1>3, <1>4 DEF Present, Onward, InFlight, TypeOK
  <2> QED
    BY <1>1, <1>4, <2>1, QuietTaken DEF Excludes, KeepsOut, config
<1>5. ASSUME t \in Present', Excludes(m, t)'
      PROVE  Harmless(t)' \/ Waits(t, m)'
  <2>1. TakenOutside(m) /\ owner[m] # t /\ locksOfThread[m] = owner[m]
    BY <1>1, <1>2, <1>5, QuietTaken DEF Excludes
  <2>2. CASE Irrevocable(t)
    BY <1>1, <2>2 DEF Harmless, Irrevocable, txVars
  <2>3. CASE ~Irrevocable(t)
    <3>1. m \in TakenByOthers(t, declared)
      BY <1>2, <2>1 DEF TakenByOthers
    <3>2. PICK k \in TakenByOthers(t, declared) :
            locksAndThreadIds' = [locksAndThreadIds EXCEPT ![k] = @ \cup {t}]
      BY <2>3, <3>1 DEF AddTxConflictingLock, SeeIfTxMustBlock
    <3>3. blocked'[t] /\ At(t, "added")'
      BY <1>1, <2>3, <3>1 DEF AddTxConflictingLock, SeeIfTxMustBlock, At, Goto,
         TypeOK
    <3>4. CASE k = m
      <4>1. t \in locksAndThreadIds'[m]
        BY <3>2, <3>4 DEF TypeOK
      <4> QED
        BY <1>1, <3>3, <4>1 DEF Waits, config
    <3>5. CASE k # m
      <4>1. /\ k \in txConflictingLocks[t] /\ k \in Mutex
            /\ locksOfThread[k] \notin {NoThread, t}
        BY <3>2, <3>5 DEF TakenByOthers, TypeOK
      <4>2. locksOfThread[k] = owner[k]
        BY <1>1, <4>1 DEF LockerInv
      <4>3. Excludes(k, t)
        BY <1>1, <1>2, <4>1, <4>2 DEF Excludes, KeepsOut
      <4>4. ~Waits(t, k)
        BY <1>1 DEF Waits, At
      <4>5. t \in Present
        BY <1>3, <1>5
      <4> QED
        BY <1>3, <1>5, <4>1, <4>3, <4>4, <4>5 DEF KeptOut, Spares
    <3> QED
      BY <3>4, <3>5
  <2> QED
    BY <2>2, <2>3
<1> QED
  BY <1>3, <1>4, <1>5, KeptOutFrame

-----------------------------------------------------------------------------
(* The steps that take, grant, register and release locks.                  *)
LEMMA ElsewhereTaken ==
  ASSUME TypeOK, NEW t \in Thread, NEW k \in Mutex, UNCHANGED config,
         owner'[k] = owner[k], locksOfThread'[k] = locksOfThread[k],
         k \in latmLockedLocks' => k \in latmLockedLocks,
         \A u \in Thread \ {t} : todo'[u] = todo[u] /\ call'[u] = call[u],
         \A s \in Registering : /\ ~(Next1(t, s) /\ Arg(t) = k)
                                /\ ~(Next1(t, s)' /\ Arg(t)' = k)
  PROVE  TakenOutside(k)' => TakenOutside(k)
<1>1. CASE owner[k] \in Thread \ {t}
  BY <1>1 DEF TakenOutside, Next1, Arg, config
<1>2. CASE owner[k] = t
  BY <1>2 DEF TakenOutside, config, Registering
<1>3. CASE owner[k] = NoThread
  BY <1>3 DEF TakenOutside
<1> QED
  BY <1>1, <1>2, <1>3 DEF TypeOK

LEMMA ElsewhereProceeding ==
  ASSUME TypeOK, NEW t \in Thread, NEW k \in Mutex, UNCHANGED config,
         todo[t] # <<>>, Proceed(t), k # Arg(t),
         owner'[k] = owner[k], locksOfThread'[k] = locksOfThread[k],
         k \in latmLockedLocks' => k \in latmLockedLocks
  PROVE  TakenOutside(k)' => TakenOutside(k)
<1>1. todo'[t] # <<>> => Arg(t)' = Arg(t)
  BY DEF Proceed, Arg, TypeOK
<1> QED
  BY <1>1, OthersCalls, ElsewhereTaken DEF Next1

LEMMA LockerOutside ==
  ASSUME TypeOK, CallsInv, FlightInv, NEW t \in Thread,
         NEW s \in {"mutex"} \cup Granting, Next1(t, s), Onward(t)
  PROVE  pc[t] = "out" /\ t \notin Present
BY OutsideCall DEF Next1, FlightInv, Present, Onward

(* A step of t that puts nobody in flight.                                  *)
LEMMA PresentStays ==
  ASSUME TypeOK, NEW t \in Thread, Onward(t), UNCHANGED transactionsInFlight
  PROVE  \A u \in Present' : u \in Present /\ u \in Thread
BY DEF Present, Onward, InFlight, TypeOK

(* In full and tm protection who is in flight beside one lock that counts   *)
(* has an excuse for all of them.                                           *)
LEMMA SecondLock ==
  ASSUME TypeOK, LockerInv, KeptOut, NEW u \in Present, policy # "tx",
         latmLockedLocks # {}
  PROVE  Harmless(u)
<1>1. PICK k \in latmLockedLocks : TRUE
  OBVIOUS
<1>2. k \in Mutex /\ owner[k] # NoThread /\ Counts(k)
  BY <1>1 DEF LockerInv, TypeOK
<1>3. TakenOutside(k) /\ KeepsOut(k, u)
  <2>1. ~(Next1(owner[k], "drain") /\ Arg(owner[k]) = k)
    BY <1>1, <1>2 DEF LockerInv, TypeOK
  <2> QED
    BY <1>1, <1>2, <2>1 DEF TakenOutside, KeepsOut, Counts
<1>4. CASE owner[k] = u
  BY <1>2, <1>4 DEF Harmless
<1>5. CASE owner[k] # u
  BY <1>2, <1>3, <1>5 DEF KeptOut, Excludes, Waits
<1> QED
  BY <1>4, <1>5

LEMMA TakeMutexKept ==
  ASSUME TypeOK, CallsInv, FlightInv, LockerInv, KeptOut, NEW t \in Thread,
         TakeMutex(t), Onward(t)
  PROVE  KeptOut'
<1>0. PICK m \in Mutex : m = Arg(t)
  BY DEF TakeMutex, Next1, Arg, TypeOK
<1>1. /\ Next1(t, "mutex") /\ owner[m] = NoThread
      /\ owner' = [owner EXCEPT ![m] = t]
  BY <1>0 DEF TakeMutex
<1>2. t # NoThread /\ ~Next1(t, "drain")' /\ ~Next1(t, "register")'
  BY NextStep, LatmAssumption DEF TakeMutex, Next1
<1>3. ~TakenOutside(m)'
  <2>1. m \notin latmLockedLocks /\ (policy = "tx" => locksOfThread[m] = NoThread)
    BY <1>1 DEF LockerInv
  <2>2. owner'[m] = t
    BY <1>1 DEF TypeOK
  <2> QED
    BY <1>2, <2>1, <2>2 DEF TakenOutside, TakeMutex, config
<1>4. ASSUME NEW u \in Present'
      PROVE  u \in Present /\ Spares(u)
  <2>1. u \in Present /\ u \in Thread /\ u # NoThread /\ u # t
    BY <1>1, <1>4, LockerOutside, PresentStays, LatmAssumption DEF TakeMutex,
       txVars
  <2>2. \A k \in Mutex : owner[k] = u => owner'[k] = u
    BY <1>1, <2>1 DEF TypeOK
  <2> QED
    BY <2>1, <2>2, SparesFrame DEF TakeMutex, Proceed, txVars, Irrevocable,
       TypeOK
<1>5. ASSUME NEW u \in Present', NEW k \in Mutex, Excludes(k, u)'
      PROVE  Excludes(k, u)
  <2>1. k # m
    BY <1>3, <1>5 DEF Excludes
  <2>2. owner'[k] = owner[k] /\ todo[t] # <<>>
    BY <1>1, <2>1 DEF TypeOK, Next1
  <2>3. TakenOutside(k)
    BY <1>0, <1>5, <2>1, <2>2, ElsewhereProceeding DEF TakeMutex, Excludes
  <2> QED
    BY <1>5, <2>2, <2>3 DEF TakeMutex, Excludes, KeepsOut, config, declVars
<1> QED
  BY <1>4, <1>5, KeptOutFrame

LEMMA CoreGrantedKept ==
  ASSUME TypeOK, GateInv, CallsInv, FlightInv, LockerInv, KeptOut,
         NEW t \in Thread, CoreGranted(t), CoreSection(t) => Inside(t), Onward(t)
  PROVE  KeptOut'
<1>0. PICK m \in Mutex : m = Arg(t)
  BY DEF CoreGranted, AtCore, Next1, Arg, TypeOK
<1>1. /\ Next1(t, "core") /\ owner[m] = t /\ t \notin Present
      /\ UNCHANGED <<config, owner, latmLockedLocks, declVars,
                     transactionsInFlight>>
      /\ \A v \in Victims(t, m) : ~Irrevocable(v)
  BY <1>0, LockerOutside DEF CoreGranted, AtCore, LockerInv, Granting
<1>2. /\ call'[t] = call[t] /\ todo'[t] # <<>>
      /\ Head(todo'[t]) = IF direct THEN "drain" ELSE "register"
      /\ t # NoThread
  BY <1>1, NextStep, LatmAssumption DEF CoreGranted, Granting
<1>3. /\ ForceToAbort(Victims(t, m))
      /\ locksOfThread' = [locksOfThread EXCEPT ![m] =
           IF direct /\ policy = "tx" /\ Victims(t, m) # {} THEN t ELSE @]
  BY <1>0, CoreDoes DEF CoreGranted
<1>4. ASSUME NEW u \in Present'
      PROVE  u \in Present /\ u \in Thread /\ u # t /\ Spares(u)
  <2>1. u \in Present /\ u \in Thread /\ u # t
    BY <1>1, <1>4, PresentStays
  <2>2. todo'[u] = todo[u] /\ pc'[u] = pc[u]
    BY <2>1, OthersCalls DEF CoreGranted
  <2>3. policy # "tx" \/ \A k \in Mutex : u \in locksAndThreadIds[k]
          => (blocked[u] => blocked'[u]) /\ u \in locksAndThreadIds'[k]
    BY <2>1 DEF CoreGranted, Core, DefCoreTx, DirCoreTx, TypeOK
  <2>4. /\ forcedToAbort[u] => forcedToAbort'[u]
        /\ overtaken[u] => overtaken'[u]
        /\ slipped'[u] = slipped[u] /\ txType'[u] = txType[u]
    BY <1>3, <2>1 DEF CoreGranted, ForceToAbort, Overtakes
  <2> QED
    BY <1>1, <2>1, <2>2, <2>3, <2>4, SparesFrame DEF Irrevocable
<1>5. ASSUME NEW u \in Present', NEW k \in Mutex, k # m, Excludes(k, u)'
      PROVE  Excludes(k, u)
  <2>1. locksOfThread'[k] = locksOfThread[k] /\ todo[t] # <<>>
    BY <1>1, <1>3, <1>5 DEF Next1, TypeOK
  <2>2. TakenOutside(k)
    BY <1>0, <1>1, <1>3, <1>5, <2>1, ElsewhereProceeding
       DEF CoreGranted, Excludes
  <2> QED
    BY <1>1, <1>5, <2>2 DEF Excludes, KeepsOut, config, declVars
(* Who is at the gate when the core looks at the list has lost the mutex.   *)
<1>6. ASSUME NEW u \in Present', u \notin InFlight, CoreSection(t)
      PROVE  Harmless(u)'
  <2>1. AtGate(u) /\ u \in Thread /\ u # NoThread
    BY <1>4, <1>6, LatmAssumption DEF Present, AtGate
  <2>2. Strays
    BY <1>6, <2>1 DEF Inside, GateInv
  <2>3. overtaken'[u]
    BY <1>6, <2>1 DEF CoreGranted, Overtakes
  <2> QED
    BY <1>1, <2>2, <2>3 DEF Harmless, Strays, config
<1>7. ASSUME NEW u \in Present', Excludes(m, u)'
      PROVE  Harmless(u)'
  <2>1. u \in Present /\ u \in Thread /\ u # t /\ Spares(u) /\ KeepsOut(m, u)
    BY <1>1, <1>4, <1>7 DEF Excludes, KeepsOut, config, declVars
  <2>2. CASE policy = "tx"
    <3>1. CASE u \notin InFlight
      BY <1>6, <1>7, <2>2, <3>1 DEF CoreSection
    <3>2. CASE u \in InFlight
      <4>1. u \in Victims(t, m)
        BY <2>1, <2>2, <3>2 DEF Victims, Others, KeepsOut
      <4>2. forcedToAbort'[u]
        BY <1>1, <1>3, <2>1, <4>1 DEF ForceToAbort
      <4>3. CASE direct
        <5>1. locksOfThread'[m] = t
          BY <1>1, <1>3, <2>2, <4>1, <4>3 DEF TypeOK
        <5>2. Next1(t, "drain")' /\ Arg(t)' = m
          BY <1>0, <1>2, <4>3 DEF Next1, Arg
        <5> QED
          BY <1>1, <1>7, <5>1, <5>2 DEF Excludes, TakenOutside
      <4>4. CASE ~direct
        BY <1>1, <4>2, <4>4 DEF Harmless, config
      <4> QED
        BY <4>3, <4>4
    <3> QED
      BY <3>1, <3>2
  <2>3. CASE policy # "tx"
    <3>1. Counts(m)
      BY <2>1, <2>3 DEF KeepsOut, Counts
    <3>2. ~direct
      <4>1. direct => Next1(t, "drain")' /\ Arg(t)' = m
        BY <1>0, <1>2 DEF Next1, Arg
      <4> QED
        BY <1>1, <1>7, <2>3, <4>1 DEF Excludes, TakenOutside, config
    <3>3. CASE latmLockedLocks # {}
      BY <2>1, <2>3, <3>3, SecondLock DEF Spares
    <3>4. CASE latmLockedLocks = {}
      <4>1. FirstLock(m) /\ CoreSection(t)
        BY <1>0, <3>1, <3>4 DEF FirstLock, CoreSection
      <4>2. CASE u \notin InFlight
        BY <1>6, <1>7, <4>1, <4>2
      <4>3. CASE u \in InFlight
        <5>1. u \in Victims(t, m)
          BY <2>1, <2>3, <4>1, <4>3 DEF Victims, Others
        <5> QED
          BY <1>1, <1>3, <2>1, <3>2, <5>1 DEF Harmless, ForceToAbort, config
      <4> QED
        BY <4>2, <4>3
    <3> QED
      BY <3>3, <3>4
  <2> QED
    BY <2>2, <2>3
<1> QED
  BY <1>4, <1>5, <1>7, KeptOutFrame

LEMMA CoreRefusedKept ==
  ASSUME TypeOK, CallsInv, FlightInv, LockerInv, KeptOut, NEW t \in Thread,
         CoreRefused(t), Onward(t)
  PROVE  KeptOut'
<1>0. PICK m \in Mutex : m = Arg(t)
  BY DEF CoreRefused, AtCore, Next1, Arg, TypeOK
<1>1. /\ Next1(t, "core") /\ t \notin Present
      /\ owner' = [owner EXCEPT ![m] = NoThread]
      /\ UNCHANGED <<config, locksOfThread, latmLockedLocks, declVars, txVars,
                     locksAndThreadIds, blocked, pc>>
  BY <1>0, LockerOutside DEF CoreRefused, AtCore, Granting
<1>2. /\ todo'[t] # <<>> => Head(todo'[t]) = "mutex"
      /\ \A u \in Thread \ {t} : todo'[u] = todo[u] /\ call'[u] = call[u]
  BY OutsideProgram DEF CoreRefused, Returns, TypeOK
<1>3. ASSUME NEW u \in Present', NEW k \in Mutex, Excludes(k, u)'
      PROVE  u \in Present /\ Excludes(k, u) /\ Spares(u)
  <2>1. k # m
    BY <1>1, <1>3 DEF Excludes, TakenOutside, TypeOK
  <2>2. owner'[k] = owner[k] /\ \A s \in Registering : ~Next1(t, s) /\ ~Next1(t, s)'
    BY <1>1, <1>2, <2>1 DEF Next1, Registering, TypeOK
  <2>3. TakenOutside(k)
    BY <1>1, <1>2, <1>3, <2>2, ElsewhereTaken DEF Excludes
  <2>4. u \in Present /\ u \in Thread /\ u # t
    BY <1>1, <1>3, PresentStays DEF txVars
  <2>5. \A j \in Mutex : owner[j] = u => owner'[j] = u
    BY <1>0, <1>1, <2>4 DEF TypeOK, LockerInv, Granting
  <2> QED
    BY <1>1, <1>2, <1>3, <2>2, <2>3, <2>4, <2>5, SparesFrame DEF Excludes,
       KeepsOut, config, declVars, txVars, Irrevocable
<1> QED
  BY <1>3, KeptOutFrame

LEMMA DrainedKept ==
  ASSUME TypeOK, CallsInv, FlightInv, LockerInv, KeptOut, NEW t \in Thread,
         Drained(t), Onward(t)
  PROVE  KeptOut'
<1>0. PICK m \in Mutex : m = Arg(t)
  BY DEF Drained, Next1, Arg, TypeOK
<1>1. /\ Next1(t, "drain") /\ owner[m] = t /\ t \notin Present /\ t # NoThread
      /\ FirstLock(m) => InFlight = {}
      /\ policy = "tx" /\ locksOfThread[m] = t => Victims(t, m) = {}
      /\ UNCHANGED <<config, owner, latmLockedLocks, locksOfThread, declVars,
                     locksAndThreadIds, blocked, transactionsInFlight,
                     forcedToAbort, txType, overtaken, pc>>
      /\ \A u \in Thread : slipped'[u] <=>
           slipped[u] \/ (AtGate(u) /\ KeepsOut(m, u))
  BY <1>0, LockerOutside, LatmAssumption DEF Drained, LockerInv, Granting,
     lockVars
<1>2. ASSUME NEW u \in Present'
      PROVE  u \in Present /\ u \in Thread /\ u # t /\ Spares(u)
  <2>1. u \in Present /\ u \in Thread /\ u # t
    BY <1>1, <1>2, PresentStays
  <2>2. todo'[u] = todo[u]
    BY <2>1, OthersCalls DEF Drained
  <2> QED
    BY <1>1, <2>1, <2>2, SparesFrame DEF Irrevocable
<1>3. ASSUME NEW u \in Present', NEW k \in Mutex, k # m, Excludes(k, u)'
      PROVE  Excludes(k, u)
  <2>1. TakenOutside(k)
    BY <1>0, <1>1, <1>3, ElsewhereProceeding DEF Drained, Excludes, Next1
  <2> QED
    BY <1>1, <1>3, <2>1 DEF Excludes, KeepsOut, config, declVars
<1>4. ASSUME NEW u \in Present', Excludes(m, u)', ~Excludes(m, u)
      PROVE  Harmless(u)'
  <2>1. KeepsOut(m, u) /\ owner[m] # u /\ ~TakenOutside(m)
    BY <1>1, <1>4 DEF Excludes, KeepsOut, config, declVars
  <2>2. CASE u \notin InFlight
    BY <1>1, <1>2, <1>4, <2>1, <2>2 DEF Present, AtGate, Harmless
  <2>3. CASE u \in InFlight
    <3>1. ASSUME policy = "tx" PROVE FALSE
      <4>1. locksOfThread[m] = t
        BY <1>0, <1>1, <2>1, <3>1 DEF TakenOutside
      <4>2. u \in Victims(t, m)
        BY <1>2, <1>4, <2>1, <2>3, <3>1 DEF Victims, Others, KeepsOut
      <4> QED
        BY <1>1, <3>1, <4>1, <4>2
    <3>2. latmLockedLocks # {}
      BY <1>1, <2>1, <2>3, <3>1 DEF FirstLock, Counts, KeepsOut
    <3> QED
      BY <1>2, <1>4, <3>1, <3>2, SecondLock DEF Spares
  <2> QED
    BY <2>2, <2>3
<1> QED
  BY <1>2, <1>3, <1>4, KeptOutFrame

LEMMA RegisterKept ==
  ASSUME TypeOK, CallsInv, FlightInv, LockerInv, KeptOut, NEW t \in Thread,
         Register(t), Onward(t)
  PROVE  KeptOut'
<1>0. PICK m \in Mutex : m = Arg(t)
  BY DEF Register, Next1, Arg, TypeOK
<1>1. /\ Next1(t, "register") /\ owner[m] = t /\ t \notin Present
      /\ locksOfThread' = [locksOfThread EXCEPT ![m] = t]
      /\ latmLockedLocks' \subseteq latmLockedLocks \cup {m}
      /\ UNCHANGED <<config, owner, declVars, txVars, locksAndThreadIds,
                     blocked, pc>>
  BY <1>0, LockerOutside DEF Register, Inserts, LockerInv, Granting
<1>2. ASSUME NEW u \in Present'
      PROVE  u \in Present /\ Spares(u)
  <2>1. u \in Present /\ u \in Thread /\ u # t
    BY <1>1, <1>2, PresentStays DEF txVars
  <2>2. todo'[u] = todo[u]
    BY <2>1, OthersCalls DEF Register
  <2> QED
    BY <1>1, <2>1, <2>2, SparesFrame DEF txVars, Irrevocable
<1>3. ASSUME NEW u \in Present', NEW k \in Mutex, Excludes(k, u)'
      PROVE  Excludes(k, u)
  <2>1. CASE k # m
    <3>1. locksOfThread'[k] = locksOfThread[k]
      BY <1>1, <2>1 DEF TypeOK
    <3> QED
      BY <1>0, <1>1, <1>3, <2>1, <3>1, ElsewhereProceeding DEF Register,
         Excludes,
         Next1, KeepsOut, config, declVars
  <2>2. CASE k = m
    <3>1. ~Next1(t, "drain")
      BY <1>1 DEF Next1
    <3>2. TakenOutside(m)
      BY <1>0, <1>1, <1>3, <2>2, <3>1 DEF Excludes, TakenOutside, config
    <3> QED
      BY <1>1, <1>3, <2>2, <3>2 DEF Excludes, KeepsOut, config, declVars
  <2> QED
    BY <2>1, <2>2
<1> QED
  BY <1>2, <1>3, KeptOutFrame

(* The call of unlock_() and its look at the list release nothing yet.      *)
LEMMA UnlockStartKept ==
  ASSUME TypeOK, CallsInv, KeptOut, NEW t \in Thread, Onward(t),
         Look(t) \/ \E m \in Mutex : UnlockCall(t, m)
  PROVE  KeptOut'
<1>1. /\ UNCHANGED <<config, owner, latmLockedLocks, locksOfThread,
                     locksAndThreadIds, declVars, blocked, txVars, pc>>
      /\ \A u \in Thread \ {t} : todo'[u] = todo[u] /\ call'[u] = call[u]
  BY OthersCalls DEF Look, UnlockCall, lockVars, TypeOK
<1>2. /\ pc[t] \in {"out", "body"}
      /\ \A s \in Registering : ~Next1(t, s) /\ ~Next1(t, s)'
  <2>1. CASE Look(t)
    <3>1. todo[t] # <<>> /\ todo[t] \in UnlockTodo /\ Head(todo[t]) = "look"
          /\ pc[t] \in {"out", "body"}
      BY <2>1, UnlockingCall DEF Look, Next1, Unlocking
    <3>2. todo'[t] = <<"unlock">>
      BY <2>1, <3>1, UnlockHeads DEF Look, Proceed, TypeOK
    <3> QED
      BY <3>1, <3>2 DEF Next1, Registering
  <2>2. ASSUME NEW m \in Mutex, UnlockCall(t, m)
        PROVE  /\ pc[t] \in {"out", "body"}
               /\ \A s \in Registering : ~Next1(t, s) /\ ~Next1(t, s)'
    <3>1. todo[t] = <<>> /\ todo'[t] = <<"look", "unlock">>
      BY <2>2 DEF UnlockCall, At, TypeOK
    <3> QED
      BY <2>2, <3>1 DEF UnlockCall, At, Next1, Registering
  <2> QED
    BY <2>1, <2>2
<1>3. ASSUME NEW u \in Present', NEW k \in Mutex, Excludes(k, u)'
      PROVE  u \in Present /\ Excludes(k, u) /\ Spares(u)
  <2>1. u \in Present /\ u \in Thread
    BY <1>1, <1>3, PresentStays DEF txVars
  <2>2. Spares(u)
    BY <1>1, <1>2, <2>1, SparesFrame DEF txVars, Irrevocable
  <2>3. TakenOutside(k)
    BY <1>1, <1>2, <1>3, ElsewhereTaken DEF Excludes
  <2> QED
    BY <1>1, <1>3, <2>1, <2>2, <2>3 DEF Excludes, KeepsOut, config, declVars
<1> QED
  BY <1>3, KeptOutFrame

(* The release of one lock takes nobody's excuse for another one.           *)
LEMMA UnlockKept ==
  ASSUME TypeOK, CallsInv, FlightInv, LockerInv, KeptOut, NEW t \in Thread,
         Unlock(t), Onward(t)
  PROVE  KeptOut'
<1>0. PICK m \in Mutex : m = Arg(t)
  BY DEF Unlock, Next1, Arg, TypeOK
<1>1. /\ Next1(t, "unlock") /\ owner[m] = t
      /\ owner' = [owner EXCEPT ![m] = NoThread]
      /\ locksOfThread' = [locksOfThread EXCEPT ![m] = NoThread]
      /\ UNCHANGED <<config, declVars, transactionsInFlight, forcedToAbort,
                     txType, overtaken, pc>>
      /\ SlippedPast(m) /\ Proceed(t)
  BY <1>0 DEF Unlock, LockerInv, Unlocking
<1>2. latmLockedLocks' = latmLockedLocks \ {m}
  BY <1>0 DEF Unlock, PthreadUnlock, DefFullUnlock, DirFullUnlock, DefTmUnlock,
         DirTmUnlock, DefTxUnlock, DirTxUnlock, Erases, Counts, LockerInv
<1>3. ASSUME NEW u \in Present', NEW k \in Mutex, Excludes(k, u)'
      PROVE  u \in Present /\ u \in Thread /\ k # m /\ Excludes(k, u)
  <2>1. k # m
    BY <1>1, <1>3 DEF Excludes, TakenOutside, TypeOK
  <2>2. owner'[k] = owner[k] /\ locksOfThread'[k] = locksOfThread[k]
    BY <1>1, <2>1 DEF TypeOK
  <2>3. TakenOutside(k)
    BY <1>0, <1>1, <1>2, <1>3, <2>1, <2>2, ElsewhereProceeding
       DEF Excludes, Next1
  <2>4. u \in Present /\ u \in Thread
    BY <1>1, <1>3, PresentStays
  <2> QED
    BY <1>1, <1>3, <2>1, <2>2, <2>3, <2>4 DEF Excludes, KeepsOut, config,
       declVars
<1>4. ASSUME NEW u \in Present', NEW k \in Mutex, Excludes(k, u)', Harmless(u)
      PROVE  Harmless(u)'
  <2>1. slipped[u] => slipped'[u]
    BY <1>1, <1>3, <1>4 DEF SlippedPast, Excludes
  <2>2. ASSUME NEW j \in Mutex, owner[j] = u
        PROVE  Irrevocable(u) \/ owner'[j] = u
    <3>1. CASE j # m
      BY <1>1, <2>2, <3>1 DEF TypeOK
    <3>2. CASE j = m
      <4>1. u = t /\ t \in InFlight
        BY <1>1, <1>3, <1>4, <2>2, <3>2 DEF Present, Onward
      <4>2. Irrevocable(t)
        BY <1>1, <4>1, UnlockingCall DEF Next1, Unlocking, FlightInv
      <4> QED
        BY <4>1, <4>2
    <3> QED
      BY <3>1, <3>2
  <2> QED
    BY <1>1, <1>4, <2>1, <2>2 DEF Harmless, Irrevocable, Strays, config
<1>5. ASSUME NEW u \in Present', NEW k \in Mutex, Excludes(k, u)', Waits(u, k)
      PROVE  Waits(u, k)'
  <2>1. /\ policy = "tx" /\ k # m /\ u \in Thread
        /\ u \in locksAndThreadIds[k] /\ u # t
    BY <1>1, <1>3, <1>5 DEF Waits, At, Next1
  <2>2. DefTxUnlock(m)
    BY <1>0, <2>1 DEF Unlock, PthreadUnlock, DirTxUnlock
  <2>3. u \in locksAndThreadIds'[k]
    BY <2>1, <2>2 DEF DefTxUnlock, TypeOK
  <2>4. blocked'[u] = blocked[u]
    BY <2>1, <2>2, <2>3 DEF DefTxUnlock, UnblockConflicting, UnblockAllOn,
       TypeOK
  <2>5. todo'[u] = todo[u]
    BY <1>1, <2>1, OthersCalls
  <2> QED
    BY <1>1, <1>5, <2>3, <2>4, <2>5 DEF Waits, At, config
<1> QED
  BY <1>3, <1>4, <1>5 DEF KeptOut

LEMMA NoteTakeKept ==
  ASSUME TypeOK, CallsInv, LockerInv, KeptOut, NEW t \in Thread,
         Note(t) \/ Take(t), Onward(t)
  PROVE  KeptOut'
<1>0. PICK m \in Mutex : m = Arg(t)
  BY DEF Note, Take, Next1, Arg, TypeOK
<1>1. /\ t # NoThread /\ todo[t] # <<>>
      /\ pc[t] = "body" /\ pc'[t] = "body" /\ Idle(t) /\ Idle(t)'
      /\ policy = "tx" => Take(t)
  BY NoteTakeInTx
<1>2. /\ UNCHANGED <<config, latmLockedLocks, declVars, txVars,
                     locksAndThreadIds, blocked, pc>>
      /\ \A k \in Mutex : owner'[k] = owner[k] \/ (owner[k] = NoThread /\ owner'[k] = t)
      /\ policy = "tx" => UNCHANGED locksOfThread
  BY <1>0, <1>1 DEF Note, Take, TypeOK
<1>3. \A u \in Thread \ {t} : todo'[u] = todo[u] /\ call'[u] = call[u]
  BY OthersCalls DEF Note, Take
<1>4. ASSUME NEW k \in Mutex, TakenOutside(k)'
      PROVE  TakenOutside(k) /\ owner'[k] = owner[k]
  <2>1. CASE owner'[k] = t /\ owner[k] = NoThread
    <3>1. k \notin latmLockedLocks /\ (policy = "tx" => locksOfThread[k] = NoThread)
      BY <2>1 DEF LockerInv
    <3> QED
      BY <1>1, <1>2, <1>4, <2>1, <3>1 DEF TakenOutside, Idle, Granting,
         config
  <2>2. CASE owner'[k] = owner[k]
    <3>1. CASE policy = "tx"
      BY <1>1, <1>2, <1>3, <1>4, <2>2, <3>1, ElsewhereTaken DEF Idle, Granting,
         Registering
    <3>2. CASE policy # "tx"
      <4>1. owner[k] \in Thread
        BY <1>4, <2>2 DEF TakenOutside, TypeOK
      <4>2. CASE owner[k] = t
        BY <1>1, <1>2, <1>4, <2>2, <3>2, <4>2 DEF TakenOutside, Idle, Granting,
           config
      <4>3. CASE owner[k] # t
        BY <1>2, <1>3, <1>4, <2>2, <3>2, <4>1, <4>3 DEF TakenOutside, Next1,
           Arg, config
      <4> QED
        BY <4>2, <4>3
    <3> QED
      BY <2>2, <3>1, <3>2
  <2> QED
    BY <1>2, <2>1, <2>2
<1>5. ASSUME NEW u \in Present', NEW k \in Mutex, Excludes(k, u)'
      PROVE  u \in Present /\ Excludes(k, u) /\ Spares(u)
  <2>1. u \in Present /\ u \in Thread /\ u # NoThread
    BY <1>2, <1>5, PresentStays, LatmAssumption DEF txVars
  <2>2. Spares(u)
    BY <1>1, <1>2, <1>3, <2>1, SparesFrame DEF txVars, Irrevocable
  <2>3. Excludes(k, u)
    BY <1>2, <1>4, <1>5 DEF Excludes, KeepsOut, config, declVars
  <2> QED
    BY <2>1, <2>2, <2>3
<1> QED
  BY <1>5, KeptOutFrame

LEMMA KeptOutStep ==
  ASSUME TypeOK, GateInv, CallsInv, FlightInv, LockerInv, KeptOut, [Next]_vars
  PROVE  KeptOut'
<1>1. ASSUME NEW t \in Thread, QuietSection(t), Step(t)
      PROVE  KeptOut'
  BY <1>1, QuietSectionStep, PassGateKept, QuietSectionKept, OnwardStep
     DEF QuietSection
<1>2. ASSUME NEW t \in Thread, QuietTx(t), Onward(t)
      PROVE  KeptOut'
  BY <1>2, QuietTxStep, QuietTxKept, AddTxConflictingLockKept
<1>3. ASSUME NEW t \in Thread, QuietLock(t), Onward(t)
      PROVE  KeptOut'
  BY <1>3, QuietLockStep, QuietLockKept
<1>4. ASSUME NEW m \in Mutex, TmLockConflict(m), UNCHANGED sectionVars
      PROVE  KeptOut'
  <2>1. Present = {}
    BY <1>4 DEF TmLockConflict, At, FlightInv, GateInv, AtGate, Present,
       InFlight, TypeOK
  <2>2. Present' = Present
    BY <1>4 DEF TmLockConflict, Present, InFlight, txVars, sectionVars
  <2> QED
    BY <2>1, <2>2 DEF KeptOut
<1>5. CASE UNCHANGED vars
  <2>1. /\ Quiet /\ UNCHANGED <<config, owner, declVars, txVars, control,
                                blocked, locksAndThreadIds>>
        /\ Present' = Present
    BY <1>5, StutterQuiet DEF vars, lockVars, txVars, sectionVars, Present,
       InFlight
  <2>2. ASSUME NEW u \in Present'
        PROVE  u \in Present /\ Spares(u)
    <3>1. u \in Present /\ u \in Thread
      BY <2>1, <2>2 DEF Present, InFlight, TypeOK
    <3> QED
      BY <2>1, <3>1, SparesFrame DEF txVars, control, Irrevocable
  <2> QED
    BY <2>1, <2>2, KeptOutQuiet DEF declVars
<1>6. ASSUME NEW t \in Thread, LockWork(t), Onward(t)
      PROVE  KeptOut'
  BY <1>6, TakeMutexKept, CoreGrantedKept, CoreRefusedKept, DrainedKept,
     RegisterKept, NoteTakeKept, UnlockStartKept, UnlockKept DEF LockWork
<1> QED
  BY <1>1, <1>2, <1>3, <1>4, <1>5, <1>6, QuietOrWork, OnwardStep
     DEF Next, QuietSection

LEMMA LockInit == Init => LockInv
<1> SUFFICES ASSUME Init PROVE LockInv
  OBVIOUS
<1>1. TypeOK
  BY TypeInit
<1>2. CallsInv /\ FlightInv /\ GateInv
  BY DEF Init, CallsInv, CallPlace, FlightInv, InFlight, GateInv, AtGate
<1>3. LockerInv
  BY DEF Init, LockerInv, Next1
<1>4. KeptOut
  BY DEF Init, KeptOut, Present, InFlight
<1> QED
  BY <1>1, <1>2, <1>3, <1>4 DEF LockInv

(* A lock taken outside of transactions keeps the transactions out that it  *)
(* should keep out, except those that slipped in or were overtaken.         *)
THEOREM LocksHold == Spec => []LocksKeepTransactionsOut
<1>1. Init => LockInv
  BY LockInit
<1>2. LockInv /\ [Next]_vars => LockInv'
  BY TypeStep, GateStep, CallsStep, FlightStep, LockerStep, KeptOutStep
     DEF LockInv
<1>3. LockInv => LocksKeepTransactionsOut
  <2>1. SUFFICES ASSUME LockInv, NEW t \in InFlight, NEW m \in Mutex,
                        TakenOutside(m) /\ owner[m] # t /\ KeepsOut(m, t)
                 PROVE  \/ forcedToAbort[t] /\ ~direct
                        \/ At(t, "added") /\ blocked[t]
                        \/ slipped[t] \/ (Strays /\ overtaken[t])
                        \/ Irrevocable(t)
                        \/ \E k \in Mutex : owner[k] = t
    BY DEF LocksKeepTransactionsOut
  <2> QED
    BY <2>1 DEF LockInv, KeptOut, Present, Excludes, Harmless, Waits
<1> QED
  BY <1>1, <1>2, <1>3, PTL DEF Spec

-----------------------------------------------------------------------------
(* Blocked threads.  Full and tm protection block all threads, and with     *)
(* direct update only: at the first lock, which is inserted after the wait. *)
Draining(u) == (Next1(u, "drain") \/ Next1(u, "register")) /\ Counts(Arg(u))

BlockedInv ==
  policy # "tx" => \A t \in Thread : blocked[t] =>
    /\ direct
    /\ latmLockedLocks # {} \/ \E u \in Thread : Draining(u)

LEMMA QuietBlocked ==
  ASSUME BlockedInv, Quiet,
         \A t \in Thread : blocked'[t] => blocked[t] \/ policy = "tx"
  PROVE  BlockedInv'
<1>1. UNCHANGED config
  BY DEF Quiet
<1>2. ASSUME NEW u \in Thread, Draining(u)
      PROVE  Draining(u)'
  BY <1>2 DEF Quiet, Draining, Counts, Granting, config
<1> QED
  BY <1>1, <1>2 DEF BlockedInv, Quiet, config

(* What unblocks, and what leaves the blocks alone.                         *)
LEMMA QuietBlocks ==
  ASSUME TypeOK, CallsInv, NEW t \in Thread,
         QuietSection(t) \/ QuietTx(t) \/ QuietLock(t),
         NEW u \in Thread, blocked'[u]
  PROVE  blocked[u] \/ policy = "tx"
<1>1. ASSUME NEW m \in Mutex, AddTxConflictingLock(t, m)
      PROVE  policy = "tx"
  BY <1>1 DEF AddTxConflictingLock
<1>2. CASE LeaveReadOnly(t) \/ WriteBackDone(t) \/ DirectCommit(t)
  BY <1>2 DEF LeaveReadOnly, WriteBackDone, DirectCommit, Commits,
     ClearLatmObtainedLocks
<1>3. CASE Suspend(t)
  <2>1. todo[t] # <<>> /\ Head(todo[t]) = "suspend"
    BY <1>3 DEF Suspend, Next1
  <2>2. InTxTodo(t)
    BY <2>1, InTxCall DEF Granting, Unlocking
  <2> QED
    BY <2>1, <2>2 DEF InTxTodo, Enters, Works
<1>4. CASE Declared(t) \/ Begin(t) \/ EndReadOnly(t) \/ Decide(t)
  BY <1>4 DEF Declared, Begin, EndReadOnly, Decide
<1>5. CASE \/ Abort(t) \/ Unwind(t) \/ CommitDenied(t)
           \/ \E m \in Mutex : UnlockThrows(t, m)
  BY <1>5 DEF Abort, Unwind, CommitDenied, UnlockThrows
<1>6. CASE \/ TrylockFails(t) \/ TakeFails(t) \/ Publish(t) \/ List(t)
           \/ MakeIsolated(t) \/ MakeIrrevocable(t)
  BY <1>6 DEF TrylockFails, TakeFails, Publish, List, MakeIsolated,
     MakeIrrevocable
<1>7. ASSUME NEW m \in Mutex, NEW try \in BOOLEAN,
             LockCall(t, m, try) \/ LockInTx(t, m, try)
      PROVE  blocked[u]
  BY <1>7 DEF LockCall, LockInTx, Calls
<1>8. CASE QuietSection(t)
  BY <1>8 DEF QuietSection, PassGate, PutTxInflight, EnterInflight,
     LeaveInflight
<1> QED
  BY <1>1, <1>2, <1>3, <1>4, <1>5, <1>6, <1>7, <1>8 DEF QuietTx, QuietLock

(* A step of t, about to make another step than these, leaves the others'   *)
(* waits alone.                                                             *)
LEMMA OthersDrain ==
  ASSUME NEW t \in Thread, ~Next1(t, "drain"), ~Next1(t, "register"),
         UNCHANGED <<config, declVars>>,
         \A u \in Thread \ {t} : todo'[u] = todo[u] /\ call'[u] = call[u],
         NEW u \in Thread, Draining(u)
  PROVE  Draining(u)'
BY DEF Draining, Next1, Arg, Counts, config, declVars

LEMMA CoreGrantedBlocked ==
  ASSUME TypeOK, CallsInv, BlockedInv, NEW t \in Thread, CoreGranted(t)
  PROVE  BlockedInv'
<1>0. PICK m \in Mutex : m = Arg(t)
  BY DEF CoreGranted, AtCore, Next1, Arg, TypeOK
<1>1. /\ Next1(t, "core") /\ UNCHANGED <<config, latmLockedLocks, declVars>>
      /\ \A u \in Thread \ {t} : todo'[u] = todo[u] /\ call'[u] = call[u]
  BY OthersCalls DEF CoreGranted, AtCore
<1>2. ASSUME NEW u \in Thread, Draining(u)
      PROVE  Draining(u)'
  <2>1. ~Next1(t, "drain") /\ ~Next1(t, "register")
    BY <1>1 DEF Next1
  <2> QED
    BY <1>1, <1>2, <2>1, OthersDrain
<1>3. ASSUME policy # "tx", NEW u \in Thread, blocked'[u], ~blocked[u]
      PROVE  direct /\ Draining(t)'
  <2>1. direct /\ FirstLock(m)
    BY <1>0, <1>3 DEF CoreGranted, Core, DefCoreTm, DirCoreTm, DefCoreFull,
       DirCoreFull, TypeOK
  <2>2. Next1(t, "drain")' /\ Arg(t)' = m
    BY <1>0, <1>1, <2>1, NextStep DEF CoreGranted, Granting, Next1, Arg
  <2> QED
    BY <1>1, <2>1, <2>2 DEF Draining, FirstLock, Counts, config, declVars
<1> QED
  BY <1>1, <1>2, <1>3 DEF BlockedInv, config

LEMMA DrainedBlocked ==
  ASSUME TypeOK, CallsInv, BlockedInv, NEW t \in Thread, Drained(t)
  PROVE  BlockedInv'
<1>1. /\ Next1(t, "drain")
      /\ UNCHANGED <<config, declVars, blocked, latmLockedLocks>>
      /\ \A u \in Thread \ {t} : todo'[u] = todo[u] /\ call'[u] = call[u]
  BY OthersCalls DEF Drained, lockVars
<1>2. Next1(t, "register")' /\ Arg(t)' = Arg(t)
  BY <1>1, NextStep DEF Drained, Granting, Next1, Arg
<1>3. ASSUME NEW u \in Thread, Draining(u)
      PROVE  Draining(u)'
  BY <1>1, <1>2, <1>3 DEF Draining, Next1, Arg, Counts, config, declVars
<1> QED
  BY <1>1, <1>3 DEF BlockedInv, config

LEMMA RegisterBlocked ==
  ASSUME TypeOK, BlockedInv, NEW t \in Thread, Register(t)
  PROVE  BlockedInv'
<1>1. /\ latmLockedLocks' = latmLockedLocks \cup IF Counts(Arg(t)) THEN {Arg(t)} ELSE {}
      /\ UNCHANGED <<config, declVars, blocked>>
      /\ \A u \in Thread \ {t} : todo'[u] = todo[u] /\ call'[u] = call[u]
  BY OthersCalls DEF Register, Inserts
<1>2. ASSUME NEW u \in Thread, Draining(u), latmLockedLocks' = {}
      PROVE  Draining(u)'
  <2>1. u # t
    BY <1>1, <1>2 DEF Draining
  <2> QED
    BY <1>1, <1>2, <2>1 DEF Draining, Next1, Arg, Counts, config, declVars
<1> QED
  BY <1>1, <1>2 DEF BlockedInv, config

(* The last release unblocks, and only a release empties the register.      *)
LEMMA UnlockBlocked ==
  ASSUME TypeOK, BlockedInv, NEW t \in Thread, Unlock(t)
  PROVE  BlockedInv'
<1> DEFINE m == Arg(t)
<1>1. UNCHANGED <<config, declVars>> /\ Next1(t, "unlock")
  BY DEF Unlock
<1>2. ASSUME NEW u \in Thread, Draining(u)
      PROVE  Draining(u)'
  <2>1. ~Next1(t, "drain") /\ ~Next1(t, "register")
    BY <1>1 DEF Next1
  <2> QED
    BY <1>1, <1>2, <2>1, OthersDrain, OthersCalls DEF Unlock
<1>3. CASE policy # "tx" /\ direct
  <2>1. /\ latmLockedLocks' = latmLockedLocks \ IF Counts(m) THEN {m} ELSE {}
        /\ \A u \in Thread : blocked'[u] <=>
             blocked[u] /\ ~(Counts(m) /\ latmLockedLocks' = {})
    BY <1>3 DEF Unlock, PthreadUnlock, DirTmUnlock, DirFullUnlock, Erases,
       TypeOK
  <2> QED
    BY <1>1, <1>2, <1>3, <2>1 DEF BlockedInv, config
<1>4. CASE policy # "tx" /\ ~direct
  <2>1. UNCHANGED blocked
    BY <1>4 DEF Unlock, PthreadUnlock, DefTmUnlock, DefFullUnlock, TypeOK
  <2> QED
    BY <1>1, <1>4, <2>1 DEF BlockedInv, config
<1>5. CASE policy = "tx"
  BY <1>1, <1>5 DEF BlockedInv, config
<1> QED
  BY <1>3, <1>4, <1>5

LEMMA BlockedStep ==
  ASSUME TypeOK, CallsInv, BlockedInv, [Next]_vars
  PROVE  BlockedInv'
<1>1. ASSUME NEW t \in Thread, QuietSection(t) \/ QuietTx(t) \/ QuietLock(t)
      PROVE  BlockedInv'
  BY <1>1, QuietSectionStep, QuietTxStep, QuietLockStep, QuietBlocks,
     QuietBlocked
<1>2. ASSUME NEW m \in Mutex, TmLockConflict(m)
      PROVE  BlockedInv'
  BY <1>2, TmLockConflictQuiet, QuietBlocked DEF TmLockConflict
<1>3. CASE UNCHANGED vars
  BY <1>3, StutterQuiet, QuietBlocked DEF vars
<1>4. ASSUME NEW t \in Thread,
             \/ TakeMutex(t) \/ CoreRefused(t) \/ Note(t) \/ Take(t)
             \/ Look(t) \/ \E m \in Mutex : UnlockCall(t, m)
      PROVE  BlockedInv'
  <2>1. /\ ~Next1(t, "drain") /\ ~Next1(t, "register")
        /\ UNCHANGED <<config, declVars, blocked, latmLockedLocks>>
    BY <1>4 DEF TakeMutex, CoreRefused, AtCore, Note, Take, Look, UnlockCall,
       At, Next1, lockVars
  <2>2. \A u \in Thread \ {t} : todo'[u] = todo[u] /\ call'[u] = call[u]
    BY <1>4, OthersCalls DEF TakeMutex, CoreRefused, Note, Take, Look,
       UnlockCall, Returns, TypeOK
  <2>3. \A u \in Thread : Draining(u) => Draining(u)'
    BY <2>1, <2>2, OthersDrain
  <2> QED
    BY <2>1, <2>3 DEF BlockedInv, config
<1>5. ASSUME NEW t \in Thread,
             CoreGranted(t) \/ Drained(t) \/ Register(t) \/ Unlock(t)
      PROVE  BlockedInv'
  BY <1>5, CoreGrantedBlocked, DrainedBlocked, RegisterBlocked, UnlockBlocked
<1> QED
  BY <1>1, <1>2, <1>3, <1>4, <1>5, QuietOrWork DEF Next, LockWork

(* In full and tm protection a thread is blocked only while somebody holds  *)
(* a lock: the release of the last one lets all threads go.                 *)
THEOREM BlocksEnd == Spec => []BlockedUntilReleased
<1> DEFINE Inv == LockInv /\ BlockedInv
<1>1. Init => Inv
  BY LockInit DEF LockInv, Init, BlockedInv
<1>2. Inv /\ [Next]_vars => Inv'
  BY TypeStep, GateStep, CallsStep, FlightStep, LockerStep, KeptOutStep,
     BlockedStep DEF LockInv
<1>3. Inv => BlockedUntilReleased
  <2>1. SUFFICES ASSUME Inv, policy # "tx", NEW t \in Thread, blocked[t]
                 PROVE  \E m \in Mutex : owner[m] # NoThread
    BY DEF BlockedUntilReleased
  <2>2. CASE latmLockedLocks # {}
    BY <2>1, <2>2 DEF LockInv, LockerInv, TypeOK
  <2>3. ASSUME NEW u \in Thread, Draining(u)
        PROVE  \E m \in Mutex : owner[m] # NoThread
    <3>1. Arg(u) \in Mutex /\ owner[Arg(u)] = u /\ u # NoThread
      BY <2>1, <2>3, LatmAssumption DEF Draining, Next1, Arg, TypeOK,
         LockInv, LockerInv, Granting
    <3> QED
      BY <3>1
  <2> QED
    BY <2>1, <2>2, <2>3 DEF BlockedInv
<1> QED
  <2> HIDE DEF Inv
  <2> QED
    BY <1>1, <1>2, <1>3, PTL DEF Spec
=============================================================================
