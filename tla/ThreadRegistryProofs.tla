------------------------ MODULE ThreadRegistryProofs ------------------------
(* Theorems about ThreadRegistry, for any number of threads.                *)
EXTENDS ThreadRegistry, TLAPS

(* A walk that is not at its end stands on a mutex.                         *)
LEMMA WalkingHere ==
  ASSUME TypeOK, NEW t \in Thread, Walking(t)
  PROVE  /\ cursor[t] \in DOMAIN registry
         /\ Here(t) \in Thread
         /\ Here(t) \in Registered
BY DEF TypeOK, Walking, Here, Registered

LEMMA TypeInit == Init => TypeOK
BY RegistryAssumption DEF Init, TypeOK, Location, Registered

(* A round of a walk keeps the types.                                       *)
LEMMA TypeRound ==
  ASSUME TypeOK, NEW t \in Thread, NEW skip, UNCHANGED barrier,
         LockHere(t, skip) \/ UnlockHere(t, skip)
  PROVE  TypeOK'
<1>1. Here(t) \in Thread
  BY WalkingHere DEF LockHere, UnlockHere
<1>2. /\ registry' = registry
      /\ contexts' = contexts
      /\ transactionMutex' = transactionMutex
      /\ pc' = pc
  BY DEF LockHere, UnlockHere
<1>3. cursor' \in [Thread -> Nat \ {0}]
  BY DEF LockHere, UnlockHere, Advance, TypeOK
<1>4. threadMutex' \in [Thread -> Thread \union {NoThread}]
  BY <1>1 DEF LockHere, UnlockHere, TypeOK
<1>5. QED
  BY <1>2, <1>3, <1>4 DEF TypeOK, Registered

(* An insertion keeps the positions there are and adds the thread.          *)
LEMMA Insertion ==
  ASSUME TypeOK, NEW t \in Thread, RegisterInsert(t)
  PROVE  /\ registry' \in Seq(Thread)
         /\ Registered' = Registered \union {t}
         /\ \A i \in DOMAIN registry : i \in DOMAIN registry' /\ registry'[i] = registry[i]
         /\ t \in Registered => registry' = registry
         /\ t \notin Registered =>
              /\ DOMAIN registry' = DOMAIN registry \union {Len(registry) + 1}
              /\ registry'[Len(registry) + 1] = t
<1>1. CASE t \in Registered
  BY <1>1 DEF RegisterInsert, TypeOK, Registered
<1>2. CASE t \notin Registered
  <2>1. registry' = Append(registry, t) /\ registry \in Seq(Thread)
    BY <1>2 DEF RegisterInsert, TypeOK
  <2>2. /\ registry' \in Seq(Thread)
        /\ Len(registry') = Len(registry) + 1
        /\ DOMAIN registry' = DOMAIN registry \union {Len(registry) + 1}
        /\ \A i \in DOMAIN registry : registry'[i] = registry[i]
        /\ registry'[Len(registry) + 1] = t
    BY <2>1
  <2>3. Registered' = Registered \union {t}
    BY <2>2 DEF Registered
  <2>4. QED
    BY <1>2, <2>2, <2>3
<1>3. QED
  BY <1>1, <1>2

LEMMA TypeStep ==
  ASSUME TypeOK, [Next]_vars
  PROVE  TypeOK'
<1> USE TypeOK, RegistryAssumption DEF Goto, Rewind
<1>0. barrier' = barrier
  BY DEF Next, vars
<1>1. ASSUME NEW t \in Thread, InitializeThread(t)
      PROVE  TypeOK'
  BY <1>0, <1>1 DEF InitializeThread, TypeOK, Location, Registered
<1>2. ASSUME NEW t \in Thread, RegisterLock(t)
      PROVE  TypeOK'
  BY <1>0, <1>2, TypeRound DEF RegisterLock
<1>3. ASSUME NEW t \in Thread, RegisterInsert(t)
      PROVE  TypeOK'
  <2>1. \A i, j \in DOMAIN registry' : registry'[i] = registry'[j] => i = j
    <3>1. CASE t \in Registered
      BY <1>3, <3>1, Insertion DEF TypeOK
    <3>2. CASE t \notin Registered
      <4>1. \A i \in DOMAIN registry : registry[i] # t
        BY <3>2 DEF Registered
      <4>2. QED
        BY <1>3, <3>2, <4>1, Insertion DEF TypeOK
    <3>3. QED
      BY <3>1, <3>2
  <2>2. contexts' \subseteq Registered'
    <3>1. Registered' = Registered \union {t}
      BY <1>3, Insertion
    <3>2. contexts' = contexts \union {t} /\ contexts \subseteq Registered
      BY <1>0, <1>3 DEF RegisterInsert, TypeOK
    <3>3. QED
      BY <3>1, <3>2
  <2>3. /\ cursor' \in [Thread -> Nat \ {0}]
        /\ pc' \in [Thread -> Location]
        /\ \A u \in Thread : pc'[u] \notin {"outside", "registering"} => u \in contexts'
    BY <1>0, <1>3 DEF RegisterInsert, TypeOK, Location
  <2>4. QED
    BY <1>0, <1>3, <2>1, <2>2, <2>3, Insertion DEF RegisterInsert, TypeOK
<1>4. ASSUME NEW t \in Thread, RegisterUnlock(t)
      PROVE  TypeOK'
  BY <1>0, <1>4, TypeRound DEF RegisterUnlock
<1>5. ASSUME NEW t \in Thread, RegisterDone(t)
      PROVE  TypeOK'
  BY <1>0, <1>5 DEF RegisterDone, TypeOK, Location, Registered
<1>6. ASSUME NEW t \in Thread, TerminateThread(t)
      PROVE  TypeOK'
  BY <1>0, <1>6 DEF TerminateThread, TypeOK, Location, Registered
<1>7. ASSUME NEW t \in Thread, LockTx(t)
      PROVE  TypeOK'
  BY <1>0, <1>7 DEF LockTx, TypeOK, Location, Registered
<1>8. ASSUME NEW t \in Thread, UnlockTx(t)
      PROVE  TypeOK'
  BY <1>0, <1>8 DEF UnlockTx, TypeOK, Location, Registered
<1>9. ASSUME NEW t \in Thread, EndTransaction(t)
      PROVE  TypeOK'
  BY <1>0, <1>9 DEF EndTransaction, TypeOK, Location, Registered
<1>10. ASSUME NEW t \in Thread, LockMutex(t)
       PROVE  TypeOK'
  BY <1>0, <1>10, TypeRound DEF LockMutex
<1>11. ASSUME NEW t \in Thread, Commit(t)
       PROVE  TypeOK'
  BY <1>0, <1>11 DEF Commit, TypeOK, Location, Registered
<1>12. ASSUME NEW t \in Thread, CommitDenied(t)
       PROVE  TypeOK'
  BY <1>0, <1>12 DEF CommitDenied, TypeOK, Location, Registered
<1>13. ASSUME NEW t \in Thread, DeniedUnlock(t)
       PROVE  TypeOK'
  BY <1>0, <1>13, TypeRound DEF DeniedUnlock
<1>14. ASSUME NEW t \in Thread, DeniedDone(t)
       PROVE  TypeOK'
  BY <1>0, <1>14 DEF DeniedDone, TypeOK, Location, Registered
<1>15. ASSUME NEW t \in Thread, WriteBackDone(t)
       PROVE  TypeOK'
  BY <1>0, <1>15 DEF WriteBackDone, TypeOK, Location, Registered
<1>16. ASSUME NEW t \in Thread, UnlockMutex(t)
       PROVE  TypeOK'
  BY <1>0, <1>16, TypeRound DEF UnlockMutex
<1>17. ASSUME NEW t \in Thread, Committed(t)
       PROVE  TypeOK'
  BY <1>0, <1>17 DEF Committed, TypeOK, Location, Registered
<1>18. CASE UNCHANGED vars
  BY <1>18 DEF vars, walkVars, TypeOK, Registered
<1>19. QED
  BY <1>1, <1>2, <1>3, <1>4, <1>5, <1>6, <1>7, <1>8, <1>9, <1>10, <1>11,
     <1>12, <1>13, <1>14, <1>15, <1>16, <1>17, <1>18 DEF Next, Step

(* Every variable keeps its type, a registered thread has one mutex, and a  *)
(* thread past initialize_thread() has its context.                         *)
THEOREM RegistryTypeCorrect == Spec => []TypeOK
<1>1. TypeOK /\ [Next]_vars => TypeOK'
  BY TypeStep
<1>2. QED
  BY TypeInit, <1>1, PTL DEF Spec

-----------------------------------------------------------------------------
(* The inductive invariant.                                                 *)

GeneralInv ==
  \A t \in Thread :
    pc[t] \in {"registering", "registered", "lockAll", "denied"} =>
      transactionMutex = t

LockedBy(t) == \A m \in Locked(t) \intersect Guarded : threadMutex[m] = t

BarrierInv ==
  \A t \in Thread :
    pc[t] \in {"lockAll", "denied", "aborting", "writeBack", "unlockAll"}
      /\ barrier => Registered = Thread

LEMMA Parts ==
  RegistryInv <=> GeneralInv /\ (\A t \in Thread : LockedBy(t)) /\ BarrierInv
BY DEF RegistryInv, GeneralInv, LockedBy, BarrierInv

LEMMA InvInit == Init => RegistryInv
BY DEF Init, RegistryInv, Locked

(* transactionMutex_ is held by one thread at a time.                       *)
LEMMA GeneralStep ==
  ASSUME TypeOK, GeneralInv, [Next]_vars
  PROVE  GeneralInv'
<1> USE RegistryAssumption DEF GeneralInv, TypeOK, Goto
<1>1. CASE UNCHANGED vars
  BY <1>1 DEF vars, walkVars
<1>2. ASSUME NEW t \in Thread, Step(t)
      PROVE  GeneralInv'
  BY <1>2 DEF Step, InitializeThread, RegisterLock, RegisterInsert,
     RegisterUnlock, RegisterDone, TerminateThread, LockTx, UnlockTx,
     EndTransaction, LockMutex, Commit, CommitDenied, DeniedUnlock, DeniedDone,
     WriteBackDone, UnlockMutex, Committed, LockHere, UnlockHere
<1>3. QED
  BY <1>1, <1>2 DEF Next

(* Behind the barrier, commits start when every thread has its mutex, and   *)
(* no mutex is ever taken away.                                             *)
LEMMA BarrierStep ==
  ASSUME TypeOK, BarrierInv, [Next]_vars
  PROVE  BarrierInv'
<1> USE DEF BarrierInv, Goto
<1>0. barrier' = barrier
  BY DEF Next, vars
<1>1. CASE UNCHANGED vars
  BY <1>1 DEF vars, walkVars, Registered
<1>2. ASSUME NEW t \in Thread, RegisterInsert(t)
      PROVE  BarrierInv'
  <2>1. Registered' = Registered \union {t}
    BY <1>2, Insertion
  <2>2. \A u \in Thread :
          pc'[u] \in {"lockAll", "denied", "aborting", "writeBack", "unlockAll"}
            => pc[u] = pc'[u]
    BY <1>2 DEF RegisterInsert, TypeOK
  <2>3. QED
    BY <1>0, <2>1, <2>2
<1>3. ASSUME NEW t \in Thread, Step(t), ~RegisterInsert(t)
      PROVE  BarrierInv'
  <2>1. Registered' = Registered
    BY <1>3 DEF Registered, Step, InitializeThread, RegisterLock, RegisterUnlock,
       RegisterDone, TerminateThread, LockTx, UnlockTx, EndTransaction,
       LockMutex, Commit, CommitDenied, DeniedUnlock, DeniedDone,
       WriteBackDone, UnlockMutex, Committed, LockHere, UnlockHere
  <2>2. QED
    BY <1>0, <1>3, <2>1 DEF Step, InitializeThread, RegisterLock, RegisterUnlock,
       RegisterDone, TerminateThread, LockTx, UnlockTx, EndTransaction,
       LockMutex, Commit, CommitDenied, DeniedUnlock, DeniedDone,
       WriteBackDone, UnlockMutex, Committed, LockHere, UnlockHere, TypeOK
<1>4. QED
  BY <1>1, <1>2, <1>3 DEF Next

(* The ends of a walk: nothing is before its start, everything at its end.  *)
LEMMA WalkEnds ==
  ASSUME TypeOK, NEW t \in Thread
  PROVE  /\ cursor[t] = 1 => Before(t) = {} /\ From(t) = Registered
         /\ ~Walking(t) => Before(t) = Registered
<1>1. /\ cursor[t] \in Nat \ {0}
      /\ DOMAIN registry = 1 .. Len(registry)
      /\ Len(registry) \in Nat
  BY DEF TypeOK
<1>2. QED
  BY <1>1 DEF Before, From, Registered, Walking

(* A round moves the mutex it is at from one part to the other.             *)
LEMMA WalkRound ==
  ASSUME TypeOK, NEW t \in Thread, Walking(t), Advance(t), registry' = registry
  PROVE  /\ Before(t)' = Before(t) \union {Here(t)}
         /\ From(t)' = From(t) \ {Here(t)}
         /\ Here(t) \in From(t)
<1>1. /\ cursor[t] \in DOMAIN registry
      /\ DOMAIN registry \subseteq Nat
      /\ cursor[t] \in Nat
      /\ cursor'[t] = cursor[t] + 1
      /\ \A i, j \in DOMAIN registry : registry[i] = registry[j] => i = j
  BY WalkingHere DEF TypeOK, Advance
<1>2. {j \in DOMAIN registry : j < cursor[t] + 1}
        = {j \in DOMAIN registry : j < cursor[t]} \union {cursor[t]}
  BY <1>1
<1>3. {j \in DOMAIN registry : j >= cursor[t] + 1}
        = {j \in DOMAIN registry : j >= cursor[t]} \ {cursor[t]}
  BY <1>1
<1>4. cursor[t] \in {j \in DOMAIN registry : j >= cursor[t]}
  BY <1>1
<1>5. Before(t)' = Before(t) \union {Here(t)}
  BY <1>1, <1>2 DEF Before, Here
<1>6. From(t)' = From(t) \ {Here(t)}
  BY <1>1, <1>3 DEF From, Here
<1>7. QED
  BY <1>4, <1>5, <1>6 DEF From, Here

(* What one thread does to mutexes that are free or its own leaves the      *)
(* others' alone.                                                           *)
LEMMA OthersKeep ==
  ASSUME TypeOK, \A u \in Thread : LockedBy(u),
         NEW t \in Thread,
         registry' = registry, barrier' = barrier,
         \A u \in Thread : u # t => pc'[u] = pc[u] /\ cursor'[u] = cursor[u],
         \A m \in Guarded : \/ threadMutex'[m] = threadMutex[m]
                            \/ threadMutex[m] \in {t, NoThread}
  PROVE  /\ Guarded' = Guarded
         /\ \A u \in Thread : u # t => LockedBy(u)'
<1>1. Guarded' = Guarded
  BY DEF Guarded
<1>2. ASSUME NEW u \in Thread, u # t
      PROVE  LockedBy(u)'
  <2>1. Locked(u)' = Locked(u)
    BY <1>2 DEF Locked, Before, From, Registered
  <2>2. \A m \in Locked(u) \intersect Guarded : threadMutex[m] = u
    BY DEF LockedBy
  <2>3. QED
    BY <1>1, <1>2, <2>1, <2>2, RegistryAssumption DEF LockedBy
<1>3. QED
  BY <1>1, <1>2

LEMMA LockRound ==
  ASSUME TypeOK, \A u \in Thread : LockedBy(u),
         NEW t \in Thread, NEW skip, LockHere(t, skip), barrier' = barrier,
         \/ pc[t] = "registering" /\ skip = {t}
         \/ pc[t] = "lockAll" /\ skip = {}
  PROVE  \A u \in Thread : LockedBy(u)'
<1>1. /\ Walking(t) /\ Advance(t)
      /\ registry' = registry /\ pc' = pc
      /\ Here(t) \in Thread
      /\ \A u \in Thread : u # t => cursor'[u] = cursor[u]
  BY WalkingHere DEF LockHere, Advance, TypeOK
<1>2. /\ \A m \in Thread : \/ threadMutex'[m] = threadMutex[m]
                           \/ threadMutex[m] = NoThread /\ threadMutex'[m] = t
      /\ Here(t) \notin skip => threadMutex'[Here(t)] = t
  BY <1>1 DEF LockHere, TypeOK
<1>3. Guarded \subseteq Thread
  BY DEF Guarded, TypeOK
<1>4. Guarded' = Guarded /\ \A u \in Thread : u # t => LockedBy(u)'
  BY <1>1, <1>2, <1>3, OthersKeep
<1>5. Before(t)' = Before(t) \union {Here(t)}
  BY <1>1, WalkRound
<1>6. Locked(t)' \subseteq Locked(t) \union ({Here(t)} \ skip)
  BY <1>1, <1>5 DEF Locked
<1>7. \A m \in Locked(t) \intersect Guarded : threadMutex[m] = t
  BY DEF LockedBy
<1>8. LockedBy(t)'
  BY <1>2, <1>3, <1>4, <1>6, <1>7, RegistryAssumption DEF LockedBy
<1>9. QED
  BY <1>4, <1>8

LEMMA UnlockRound ==
  ASSUME TypeOK, \A u \in Thread : LockedBy(u),
         NEW t \in Thread, NEW skip, UnlockHere(t, skip), barrier' = barrier,
         \/ pc[t] \in {"registered", "denied"} /\ skip = {t}
         \/ pc[t] = "unlockAll" /\ skip = {}
  PROVE  \A u \in Thread : LockedBy(u)'
<1>1. /\ Walking(t) /\ Advance(t)
      /\ registry' = registry /\ pc' = pc
      /\ Here(t) \in Thread
      /\ \A u \in Thread : u # t => cursor'[u] = cursor[u]
  BY WalkingHere DEF UnlockHere, Advance, TypeOK
<1>2. \A m \in Thread : threadMutex'[m] # threadMutex[m] =>
         m = Here(t) /\ m \notin skip
  <2>1. threadMutex' = [threadMutex EXCEPT ![Here(t)] =
                           IF Here(t) \in skip THEN threadMutex[Here(t)]
                                               ELSE NoThread]
    BY DEF UnlockHere
  <2>2. threadMutex \in [Thread -> Thread \union {NoThread}]
    BY DEF TypeOK
  <2>3. CASE Here(t) \in skip
    BY <2>1, <2>2, <2>3
  <2>4. CASE Here(t) \notin skip
    BY <2>1, <2>2, <2>4
  <2>5. QED
    BY <2>3, <2>4
<1>3. Guarded \subseteq Thread
  BY DEF Guarded, TypeOK
<1>4. /\ From(t)' = From(t) \ {Here(t)}
      /\ Here(t) \in From(t)
  BY <1>1, WalkRound
<1>5. Here(t) \notin skip => Here(t) \in Locked(t)
  BY <1>4 DEF Locked
<1>6. \A m \in Locked(t) \intersect Guarded : threadMutex[m] = t
  BY DEF LockedBy
<1>7. Guarded' = Guarded /\ \A u \in Thread : u # t => LockedBy(u)'
  BY <1>1, <1>2, <1>3, <1>5, <1>6, OthersKeep
<1>8. Locked(t)' \subseteq Locked(t) \ ({Here(t)} \ skip)
  BY <1>1, <1>4 DEF Locked
<1>9. LockedBy(t)'
  BY <1>2, <1>3, <1>6, <1>7, <1>8 DEF LockedBy
<1>10. QED
  BY <1>7, <1>9

(* A new mutex is at the end, where only a walk that unlocks could find it: *)
(* behind the barrier there is none, and otherwise the mutex is not guarded *)
(* unless it is the first.                                                  *)
LEMMA InsertKeeps ==
  ASSUME TypeOK, RegistryInv, NEW t \in Thread, RegisterInsert(t),
         barrier' = barrier
  PROVE  \A u \in Thread : LockedBy(u)'
<1>1. /\ GeneralInv /\ BarrierInv
      /\ \A u \in Thread : LockedBy(u)
  BY Parts
<1>2. /\ pc[t] = "registering" /\ ~Walking(t)
      /\ threadMutex' = threadMutex
      /\ pc'[t] = "registered" /\ cursor'[t] = 1
      /\ \A u \in Thread : u # t => pc'[u] = pc[u] /\ cursor'[u] = cursor[u]
  BY DEF RegisterInsert, Goto, Rewind, TypeOK
<1>3. \A u \in Thread :
        u # t => pc[u] \notin {"registering", "registered", "lockAll", "denied"}
  BY <1>1, <1>2 DEF GeneralInv
<1>4. Locked(t) = Registered \ {t}
  BY <1>2, WalkEnds DEF Locked
<1>5. Locked(t)' \subseteq Registered' \ {t}
  BY <1>2 DEF Locked, From, Registered
<1>6. Registered' = Registered \union {t}
  BY Insertion
<1>7. CASE t \in Registered
  <2>1. registry' = registry
    BY <1>7, Insertion
  <2>2. Guarded' = Guarded /\ \A u \in Thread : u # t => LockedBy(u)'
    BY <1>1, <1>2, <2>1, OthersKeep
  <2>3. LockedBy(t)'
    BY <1>1, <1>2, <1>4, <1>5, <1>6, <2>2 DEF LockedBy
  <2>4. QED
    BY <2>2, <2>3
<1>8. CASE t \notin Registered
  <2>1. /\ \A i \in DOMAIN registry : registry'[i] = registry[i]
        /\ DOMAIN registry' = DOMAIN registry \union {Len(registry) + 1}
        /\ registry'[Len(registry) + 1] = t
    BY <1>8, Insertion
  <2>2. /\ DOMAIN registry = 1 .. Len(registry)
        /\ Len(registry) \in Nat
    BY DEF TypeOK
  <2>3. Guarded' \subseteq Guarded \union {t}
    BY <2>1 DEF Guarded
  <2>4. ~barrier /\ registry # <<>> => t \notin Guarded'
    <3>1. SUFFICES ASSUME ~barrier, registry # <<>>
                   PROVE  t \notin Guarded'
      OBVIOUS
    <3>2. 1 \in DOMAIN registry
      BY <2>2, <3>1 DEF TypeOK
    <3>3. registry'[1] = registry[1] /\ registry[1] # t
      BY <1>8, <2>1, <3>2 DEF Registered
    <3>4. QED
      BY <3>1, <3>3 DEF Guarded
  <2>5. ASSUME NEW u \in Thread, u # t
        PROVE  LockedBy(u)'
    <3>1. \A m \in Locked(u) \intersect Guarded : threadMutex[m] = u
      BY <1>1 DEF LockedBy
    <3>2. Locked(u)' \subseteq Locked(u) \union {t}
      BY <1>2, <1>3, <1>6, <2>1, <2>5 DEF Locked, From, Registered
    <3>3. t \in Locked(u)' => pc[u] \in {"writeBack", "unlockAll"}
      BY <1>2, <1>3, <2>5 DEF Locked
    <3>4. pc[u] \in {"writeBack", "unlockAll"} => ~barrier
      BY <1>1, <1>8 DEF BarrierInv
    <3>5. pc[u] \in {"writeBack", "unlockAll"} => registry # <<>>
      BY DEF TypeOK, Registered
    <3>6. \A m \in Locked(u)' \intersect Guarded' : m # t
      BY <2>4, <3>3, <3>4, <3>5
    <3>7. QED
      BY <1>2, <2>3, <3>1, <3>2, <3>6 DEF LockedBy
  <2>6. LockedBy(t)'
    BY <1>1, <1>2, <1>4, <1>5, <1>6, <2>3 DEF LockedBy
  <2>7. QED
    BY <2>5, <2>6
<1>9. QED
  BY <1>7, <1>8

LEMMA LockedStep ==
  ASSUME TypeOK, RegistryInv, [Next]_vars
  PROVE  \A u \in Thread : LockedBy(u)'
<1> USE TypeOK DEF Goto, Rewind
<1>0. /\ \A u \in Thread : LockedBy(u)
      /\ \A u \in Thread : pc[u] \notin {"outside", "registering"} => u \in Registered
      /\ Guarded \subseteq Thread
      /\ barrier' = barrier
  BY Parts DEF TypeOK, Guarded, Next, vars
<1>1. ASSUME NEW t \in Thread, InitializeThread(t)
      PROVE  \A u \in Thread : LockedBy(u)'
  <2>1. \A u \in Thread : u # t => LockedBy(u)'
    BY <1>0, <1>1, OthersKeep DEF InitializeThread, TypeOK
  <2>2. TypeOK' /\ cursor'[t] = 1 /\ pc'[t] = "registering"
    BY <1>0, <1>1, TypeStep DEF InitializeThread, Next, Step, TypeOK
  <2>3. Locked(t)' = {}
    BY <2>2 DEF Locked, Before, TypeOK
  <2>4. QED
    BY <2>1, <2>3 DEF LockedBy
<1>2. ASSUME NEW t \in Thread, RegisterLock(t)
      PROVE  \A u \in Thread : LockedBy(u)'
  BY <1>0, <1>2, LockRound DEF RegisterLock
<1>3. ASSUME NEW t \in Thread, RegisterInsert(t)
      PROVE  \A u \in Thread : LockedBy(u)'
  BY <1>0, <1>3, InsertKeeps
<1>4. ASSUME NEW t \in Thread, RegisterUnlock(t)
      PROVE  \A u \in Thread : LockedBy(u)'
  BY <1>0, <1>4, UnlockRound DEF RegisterUnlock
<1>5. ASSUME NEW t \in Thread,
             RegisterDone(t) \/ TerminateThread(t) \/ Committed(t)
      PROVE  \A u \in Thread : LockedBy(u)'
  <2>1. \A u \in Thread : u # t => LockedBy(u)'
    BY <1>0, <1>5, OthersKeep DEF RegisterDone, TerminateThread, Committed, TypeOK
  <2>2. Locked(t)' = {}
    BY <1>5 DEF RegisterDone, TerminateThread, Committed, Locked, TypeOK
  <2>3. QED
    BY <2>1, <2>2 DEF LockedBy
<1>6. ASSUME NEW t \in Thread, LockTx(t)
      PROVE  \A u \in Thread : LockedBy(u)'
  <2>1. /\ threadMutex'[t] = t /\ Locked(t)' = {t}
        /\ \A m \in Thread : \/ threadMutex'[m] = threadMutex[m]
                             \/ threadMutex[m] = NoThread
    BY <1>6 DEF LockTx, Locked, TypeOK
  <2>2. \A u \in Thread : u # t => LockedBy(u)'
    BY <1>0, <1>6, <2>1, OthersKeep DEF LockTx, TypeOK
  <2>3. QED
    BY <2>1, <2>2 DEF LockedBy
<1>7. ASSUME NEW t \in Thread, UnlockTx(t)
      PROVE  \A u \in Thread : LockedBy(u)'
  <2>1. /\ Locked(t) = {t} /\ Locked(t)' = {}
        /\ \A m \in Thread : m # t => threadMutex'[m] = threadMutex[m]
    BY <1>7 DEF UnlockTx, Locked, TypeOK
  <2>2. t \in Guarded => threadMutex[t] = t
    BY <1>0, <2>1 DEF LockedBy
  <2>3. \A u \in Thread : u # t => LockedBy(u)'
    BY <1>0, <1>7, <2>1, <2>2, OthersKeep DEF UnlockTx, TypeOK
  <2>4. QED
    BY <2>1, <2>3 DEF LockedBy
<1>8. ASSUME NEW t \in Thread, EndTransaction(t)
      PROVE  \A u \in Thread : LockedBy(u)'
  <2>1. \A u \in Thread : u # t => LockedBy(u)'
    BY <1>0, <1>8, OthersKeep DEF EndTransaction, TypeOK
  <2>2. cursor'[t] = 1 /\ pc'[t] = "lockAll" /\ registry' = registry
    BY <1>8 DEF EndTransaction, TypeOK
  <2>3. Locked(t)' = {}
    BY <2>2 DEF Locked, Before, TypeOK
  <2>4. QED
    BY <2>1, <2>3 DEF LockedBy
<1>9. ASSUME NEW t \in Thread, LockMutex(t)
      PROVE  \A u \in Thread : LockedBy(u)'
  BY <1>0, <1>9, LockRound DEF LockMutex
<1>10. ASSUME NEW t \in Thread,
              Commit(t) \/ CommitDenied(t) \/ WriteBackDone(t) \/ DeniedDone(t)
       PROVE  \A u \in Thread : LockedBy(u)'
  <2>1. /\ registry' = registry /\ threadMutex' = threadMutex
        /\ \A u \in Thread : u # t => pc'[u] = pc[u] /\ cursor'[u] = cursor[u]
    BY <1>10 DEF Commit, CommitDenied, WriteBackDone, DeniedDone, TypeOK
  <2>2. Guarded' = Guarded /\ \A u \in Thread : u # t => LockedBy(u)'
    BY <1>0, <2>1, OthersKeep
  <2>3. From(t)' \subseteq Registered /\ Registered' = Registered /\ t \in Registered
    BY <1>0, <1>10, <2>1 DEF From, Registered, Commit, CommitDenied,
       WriteBackDone, DeniedDone
  <2>4. Locked(t)' \subseteq Locked(t)
    <3>1. CASE Commit(t)
      BY <2>3, <3>1, WalkEnds DEF Commit, Locked, TypeOK
    <3>2. CASE CommitDenied(t)
      BY <2>3, <3>2, WalkEnds DEF CommitDenied, Locked, TypeOK
    <3>3. CASE WriteBackDone(t)
      BY <2>3, <3>3 DEF WriteBackDone, Locked, TypeOK
    <3>4. CASE DeniedDone(t)
      BY <3>4 DEF DeniedDone, Locked, TypeOK
    <3>5. QED
      BY <1>10, <3>1, <3>2, <3>3, <3>4
  <2>5. LockedBy(t)'
    BY <1>0, <2>1, <2>2, <2>4 DEF LockedBy
  <2>6. QED
    BY <2>2, <2>5
<1>11. ASSUME NEW t \in Thread, DeniedUnlock(t)
       PROVE  \A u \in Thread : LockedBy(u)'
  BY <1>0, <1>11, UnlockRound DEF DeniedUnlock
<1>12. ASSUME NEW t \in Thread, UnlockMutex(t)
       PROVE  \A u \in Thread : LockedBy(u)'
  BY <1>0, <1>12, UnlockRound DEF UnlockMutex
<1>13. CASE UNCHANGED vars
  BY <1>0, <1>13 DEF vars, walkVars, LockedBy, Locked, Guarded, Before, From, Registered
<1>14. QED
  BY <1>1, <1>2, <1>3, <1>4, <1>5, <1>6, <1>7, <1>8, <1>9, <1>10, <1>11,
     <1>12, <1>13 DEF Next, Step

(* The invariant holds with and without the barrier.                        *)
THEOREM RegistryCorrect == Spec => []RegistryInv
<1>1. TypeOK /\ RegistryInv /\ [Next]_vars => RegistryInv'
  <2>1. SUFFICES ASSUME TypeOK, RegistryInv, [Next]_vars
                 PROVE  RegistryInv'
    OBVIOUS
  <2>2. GeneralInv' /\ (\A t \in Thread : LockedBy(t)') /\ BarrierInv'
    BY <2>1, Parts, GeneralStep, LockedStep, BarrierStep
  <2>3. QED
    BY <2>2, Parts DEF RegistryInv, GeneralInv, LockedBy, BarrierInv
<1>2. QED
  BY InvInit, <1>1, RegistryTypeCorrect, PTL DEF Spec

-----------------------------------------------------------------------------
(* What follows from it.                                                    *)

(* A thread that copies owns the oldest mutex.                              *)
LEMMA WriterOwnsOldest ==
  ASSUME TypeOK, RegistryInv, NEW t \in Thread, pc[t] = "writeBack"
  PROVE  /\ registry # <<>>
         /\ threadMutex[registry[1]] = t
<1>1. t \in Registered
  BY DEF TypeOK
<1>2. registry # <<>> /\ 1 \in DOMAIN registry
  BY <1>1 DEF Registered, TypeOK
<1>3. registry[1] \in Locked(t) \intersect Guarded
  BY <1>2 DEF Locked, Registered, Guarded
<1>4. QED
  BY <1>2, <1>3, Parts DEF LockedBy

(* For any number of threads, and whoever registers meanwhile, never two    *)
(* write-backs at once.                                                     *)
THEOREM RegistryOneWriteBack == Spec => []OneWriteBack
<1>1. TypeOK /\ RegistryInv => OneWriteBack
  BY WriterOwnsOldest DEF OneWriteBack
<1>2. QED
  BY <1>1, RegistryTypeCorrect, RegistryCorrect, PTL

(* For any number of threads, threadMutexes_ does not grow under a commit   *)
(* that has not begun to unlock.                                            *)
THEOREM RegistryFrozen == Spec => RegistryFrozenByCommit
<1> DEFINE Frozen == registry' # registry =>
             \A t \in Thread : pc[t] \notin {"lockAll", "denied", "writeBack"}
<1>1. TypeOK /\ RegistryInv /\ [Next]_vars => [Frozen]_vars
  <2>1. SUFFICES ASSUME TypeOK, RegistryInv, Next, registry' # registry,
                        NEW t \in Thread
                 PROVE  pc[t] \notin {"lockAll", "denied", "writeBack"}
    BY DEF vars, walkVars
  <2>2. PICK r \in Thread : RegisterInsert(r)
    BY <2>1 DEF Next, Step, InitializeThread, RegisterLock, RegisterUnlock,
       RegisterDone, TerminateThread, LockTx, UnlockTx, EndTransaction,
       LockMutex, Commit, CommitDenied, DeniedUnlock, DeniedDone,
       WriteBackDone, UnlockMutex, Committed, LockHere, UnlockHere
  <2>3. /\ pc[r] = "registering" /\ ~Walking(r)
        /\ r \notin Registered
    BY <2>1, <2>2 DEF RegisterInsert
  <2>4. transactionMutex = r
    BY <2>1, <2>3, Parts DEF GeneralInv
  <2>5. pc[t] \notin {"lockAll", "denied"}
    BY <2>1, <2>3, <2>4, Parts DEF GeneralInv
  <2>6. ASSUME pc[t] = "writeBack" PROVE FALSE
    <3>1. registry # <<>> /\ threadMutex[registry[1]] = t
      BY <2>1, <2>6, WriterOwnsOldest
    <3>2. registry[1] \in Registered /\ registry[1] \in Guarded
      BY <2>1, <3>1 DEF Registered, Guarded, TypeOK
    <3>3. Locked(r) = Registered \ {r}
      BY <2>1, <2>3, WalkEnds DEF Locked
    <3>4. threadMutex[registry[1]] = r
      BY <2>1, <2>3, <3>2, <3>3, Parts DEF LockedBy
    <3>5. QED
      BY <2>3, <2>6, <3>1, <3>4
  <2>7. QED
    BY <2>5, <2>6
<1>2. QED
  BY <1>1, RegistryTypeCorrect, RegistryCorrect, PTL DEF Spec, RegistryFrozenByCommit

(* Behind the barrier every registered mutex is guarded.                    *)
LEMMA AllGuarded ==
  ASSUME barrier, RegistryInv, NEW t \in Thread, NEW m \in Locked(t) \intersect Registered
  PROVE  threadMutex[m] = t
<1>1. m \in Guarded
  BY DEF Registered, Guarded
<1>2. QED
  BY <1>1, Parts DEF LockedBy

(* When the program commits only after every thread has registered, no      *)
(* thread ever unlocks a mutex it does not hold.                            *)
THEOREM UnlocksOwnMutexesCorrect == Spec => []UnlocksOwnBehindBarrier
<1>1. ASSUME TypeOK, RegistryInv
      PROVE  UnlocksOwnBehindBarrier
  <2>1. SUFFICES ASSUME barrier, NEW t \in Thread, NEW m \in Unlocking(t)
                 PROVE  threadMutex[m] = t
    BY DEF UnlocksOwnBehindBarrier, UnlocksOwnMutexes
  <2>2. m \in Locked(t) /\ m \in Registered
    <3>1. CASE pc[t] \in {"locked", "aborting"}
      BY <1>1, <2>1, <3>1 DEF Unlocking, Locked, TypeOK
    <3>2. CASE pc[t] \in {"unlockAll", "registered", "denied"}
      <4>1. /\ Walking(t) /\ m = Here(t)
            /\ pc[t] \in {"registered", "denied"} => m # t
        BY <2>1, <3>2 DEF Unlocking
      <4>2. cursor[t] \in DOMAIN registry /\ cursor[t] \in Nat
        BY <1>1, <4>1, WalkingHere DEF TypeOK
      <4>3. m \in From(t) /\ m \in Registered
        BY <4>1, <4>2 DEF From, Here, Registered
      <4>4. QED
        BY <3>2, <4>1, <4>3 DEF Locked
    <3>3. CASE pc[t] \notin {"locked", "aborting", "unlockAll", "registered", "denied"}
      BY <2>1, <3>3 DEF Unlocking
    <3>4. QED
      BY <3>1, <3>2, <3>3
  <2>3. QED
    BY <1>1, <2>1, <2>2, AllGuarded
<1>2. QED
  BY <1>1, RegistryTypeCorrect, RegistryCorrect, PTL

(* Under the same condition nobody works under a write-back.                *)
THEOREM NoAccessUnderWriteBackCorrect == Spec => []NoAccessUnderWriteBack
<1>1. ASSUME TypeOK, RegistryInv
      PROVE  NoAccessUnderWriteBack
  <2>1. SUFFICES ASSUME barrier, NEW t \in Thread, NEW u \in Thread,
                        pc[t] = "writeBack", u # t, pc[u] \in {"locked", "aborting"}
                 PROVE  FALSE
    BY DEF NoAccessUnderWriteBack
  <2>2. u \in Registered
    BY <1>1, <2>1 DEF TypeOK
  <2>3. u \in Locked(t) /\ u \in Locked(u)
    BY <2>1, <2>2 DEF Locked
  <2>4. threadMutex[u] = t /\ threadMutex[u] = u
    BY <1>1, <2>1, <2>2, <2>3, AllGuarded
  <2>5. QED
    BY <2>1, <2>4
<1>2. QED
  BY <1>1, RegistryTypeCorrect, RegistryCorrect, PTL

-----------------------------------------------------------------------------
(* Deadlock.  The invariant above says what a thread holds of the mutexes   *)
(* it cannot lose; here is the converse, for all mutexes, barrier or not.   *)

(* The owner of transactionMutex_ is in one of the sections it protects.    *)
GeneralOwner ==
  \A t \in Thread : transactionMutex = t =>
    pc[t] \in {"registering", "registered", "lockAll", "denied"}

(* A thread owns no mutex it does not count as locked.  (It may count one   *)
(* that another thread's walk has unlocked.)                                *)
OwnsOnly(t) == \A m \in Thread : threadMutex[m] = t => m \in Locked(t)

HeldInv == GeneralOwner /\ \A t \in Thread : OwnsOnly(t)

LEMMA HeldInit == Init => HeldInv
BY RegistryAssumption DEF Init, HeldInv, GeneralOwner, OwnsOnly

LEMMA GeneralOwnerStep ==
  ASSUME TypeOK, GeneralOwner, [Next]_vars
  PROVE  GeneralOwner'
<1> USE RegistryAssumption DEF GeneralOwner, TypeOK, Goto
<1>1. CASE UNCHANGED vars
  BY <1>1 DEF vars, walkVars
<1>2. ASSUME NEW t \in Thread, Step(t)
      PROVE  GeneralOwner'
  BY <1>2 DEF Step, InitializeThread, RegisterLock, RegisterInsert,
     RegisterUnlock, RegisterDone, TerminateThread, LockTx, UnlockTx,
     EndTransaction, LockMutex, Commit, CommitDenied, DeniedUnlock, DeniedDone,
     WriteBackDone, UnlockMutex, Committed, LockHere, UnlockHere
<1>3. QED
  BY <1>1, <1>2 DEF Next

(* The registry only grows, and no walk gives a mutex to another thread.    *)
LEMMA OthersOwn ==
  ASSUME TypeOK, \A u \in Thread : OwnsOnly(u),
         NEW t \in Thread,
         \A i \in DOMAIN registry :
           i \in DOMAIN registry' /\ registry'[i] = registry[i],
         \A u \in Thread : u # t => pc'[u] = pc[u] /\ cursor'[u] = cursor[u],
         \A m \in Thread : threadMutex'[m] \in {threadMutex[m], t, NoThread}
  PROVE  \A u \in Thread : u # t => OwnsOnly(u)'
<1>1. SUFFICES ASSUME NEW u \in Thread, u # t
               PROVE  OwnsOnly(u)'
  OBVIOUS
<1>2. /\ Before(u) \subseteq Before(u)'
      /\ From(u) \subseteq From(u)'
      /\ Registered \subseteq Registered'
  BY <1>1 DEF Before, From, Registered
<1>3. Locked(u) \subseteq Locked(u)'
  BY <1>1, <1>2 DEF Locked
<1>4. \A m \in Thread : threadMutex'[m] = u => threadMutex[m] = u
  BY <1>1, RegistryAssumption
<1>5. QED
  BY <1>3, <1>4 DEF OwnsOnly

(* A round that locks adds the mutex it takes to those counted.             *)
LEMMA LockRoundOwns ==
  ASSUME TypeOK, \A u \in Thread : OwnsOnly(u),
         NEW t \in Thread, NEW skip, LockHere(t, skip),
         \/ pc[t] = "registering" /\ skip = {t}
         \/ pc[t] = "lockAll" /\ skip = {}
  PROVE  \A u \in Thread : OwnsOnly(u)'
<1>1. /\ Walking(t) /\ Advance(t)
      /\ registry' = registry /\ pc' = pc
      /\ Here(t) \in Thread
      /\ \A u \in Thread : u # t => cursor'[u] = cursor[u]
  BY WalkingHere DEF LockHere, Advance, TypeOK
<1>2. \A m \in Thread :
        \/ threadMutex'[m] = threadMutex[m]
        \/ m = Here(t) /\ m \notin skip /\ threadMutex'[m] = t
  BY <1>1 DEF LockHere, TypeOK
<1>3. \A u \in Thread : u # t => OwnsOnly(u)'
  BY <1>1, <1>2, OthersOwn
<1>4. Before(t)' = Before(t) \union {Here(t)}
  BY <1>1, WalkRound
<1>5. Locked(t)' = Locked(t) \union ({Here(t)} \ skip)
  BY <1>1, <1>4 DEF Locked
<1>6. OwnsOnly(t)'
  BY <1>2, <1>5 DEF OwnsOnly
<1>7. QED
  BY <1>3, <1>6

(* A round that unlocks takes the mutex away from its owner, whoever that   *)
(* is.                                                                      *)
LEMMA UnlockRoundOwns ==
  ASSUME TypeOK, \A u \in Thread : OwnsOnly(u),
         NEW t \in Thread, NEW skip, UnlockHere(t, skip),
         \/ pc[t] \in {"registered", "denied"} /\ skip = {t}
         \/ pc[t] = "unlockAll" /\ skip = {}
  PROVE  \A u \in Thread : OwnsOnly(u)'
<1>1. /\ Walking(t) /\ Advance(t)
      /\ registry' = registry /\ pc' = pc
      /\ Here(t) \in Thread
      /\ \A u \in Thread : u # t => cursor'[u] = cursor[u]
  BY WalkingHere DEF UnlockHere, Advance, TypeOK
<1>2. threadMutex' = [threadMutex EXCEPT ![Here(t)] =
                         IF Here(t) \in skip THEN threadMutex[Here(t)]
                                             ELSE NoThread]
  BY DEF UnlockHere
<1>3. threadMutex \in [Thread -> Thread \union {NoThread}]
  BY DEF TypeOK
<1>4. \A m \in Thread :
        IF m = Here(t) /\ m \notin skip THEN threadMutex'[m] = NoThread
                                       ELSE threadMutex'[m] = threadMutex[m]
  BY <1>1, <1>2, <1>3
<1>5. \A u \in Thread : u # t => OwnsOnly(u)'
  BY <1>1, <1>4, OthersOwn
<1>6. From(t)' = From(t) \ {Here(t)}
  BY <1>1, WalkRound
<1>7. Locked(t) \ ({Here(t)} \ skip) \subseteq Locked(t)'
  BY <1>1, <1>6 DEF Locked
<1>8. \A m \in Thread : threadMutex'[m] = t => m \in Locked(t)'
  BY <1>4, <1>7, RegistryAssumption DEF OwnsOnly
<1>9. QED
  BY <1>5, <1>8 DEF OwnsOnly

(* A walk that is at its end has nothing in front of it; one that is rewound*)
(* has everything.                                                          *)
LEMMA WalkTurns ==
  ASSUME TypeOK, NEW t \in Thread
  PROVE  /\ ~Walking(t) => From(t) = {}
         /\ cursor'[t] = 1 /\ registry' = registry =>
              From(t)' = Registered /\ Before(t)' = {}
<1>1. /\ cursor[t] \in Nat \ {0}
      /\ DOMAIN registry = 1 .. Len(registry)
      /\ Len(registry) \in Nat
  BY DEF TypeOK
<1>2. ~Walking(t) => From(t) = {}
  BY <1>1 DEF From, Walking
<1>3. cursor'[t] = 1 /\ registry' = registry =>
        From(t)' = Registered /\ Before(t)' = {}
  BY <1>1 DEF From, Before, Registered
<1>4. QED
  BY <1>2, <1>3

LEMMA OwnsOnlyStep ==
  ASSUME TypeOK, \A u \in Thread : OwnsOnly(u), [Next]_vars
  PROVE  \A u \in Thread : OwnsOnly(u)'
<1> USE TypeOK DEF Goto, Rewind
<1>1. CASE UNCHANGED vars
  BY <1>1 DEF vars, walkVars, OwnsOnly, Locked, Before, From, Registered
<1>2. ASSUME NEW t \in Thread, RegisterLock(t) \/ LockMutex(t)
      PROVE  \A u \in Thread : OwnsOnly(u)'
  BY <1>2, LockRoundOwns DEF RegisterLock, LockMutex
<1>3. ASSUME NEW t \in Thread,
             RegisterUnlock(t) \/ DeniedUnlock(t) \/ UnlockMutex(t)
      PROVE  \A u \in Thread : OwnsOnly(u)'
  BY <1>3, UnlockRoundOwns DEF RegisterUnlock, DeniedUnlock, UnlockMutex
<1>4. ASSUME NEW t \in Thread, RegisterInsert(t)
      PROVE  \A u \in Thread : OwnsOnly(u)'
  <2>1. /\ pc[t] = "registering" /\ ~Walking(t)
        /\ threadMutex' = threadMutex
        /\ pc'[t] = "registered" /\ cursor'[t] = 1
        /\ \A u \in Thread : u # t => pc'[u] = pc[u] /\ cursor'[u] = cursor[u]
    BY <1>4 DEF RegisterInsert, TypeOK
  <2>2. \A i \in DOMAIN registry :
          i \in DOMAIN registry' /\ registry'[i] = registry[i]
    BY <1>4, Insertion
  <2>3. \A u \in Thread : u # t => OwnsOnly(u)'
    BY <2>1, <2>2, OthersOwn
  <2>4. Locked(t) = Registered \ {t}
    BY <2>1, WalkEnds DEF Locked
  <2>5. Registered \subseteq From(t)'
    BY <2>1, <2>2 DEF Registered, From, TypeOK
  <2>6. Locked(t) \subseteq Locked(t)'
    BY <2>1, <2>4, <2>5 DEF Locked
  <2>7. QED
    BY <2>1, <2>3, <2>6 DEF OwnsOnly
<1>5. ASSUME NEW t \in Thread, LockTx(t) \/ UnlockTx(t)
      PROVE  \A u \in Thread : OwnsOnly(u)'
  <2>1. /\ registry' = registry /\ cursor' = cursor
        /\ \A u \in Thread : u # t => pc'[u] = pc[u]
        /\ \A m \in Thread : m # t => threadMutex'[m] = threadMutex[m]
        /\ threadMutex'[t] \in {t, NoThread}
    BY <1>5 DEF LockTx, UnlockTx, TypeOK
  <2>2. \A u \in Thread : u # t => OwnsOnly(u)'
    BY <2>1, OthersOwn
  <2>3. CASE LockTx(t)
    <3>1. Locked(t) = {} /\ Locked(t)' = {t}
      BY <2>3 DEF LockTx, Locked, TypeOK
    <3>2. OwnsOnly(t)'
      BY <2>1, <3>1 DEF OwnsOnly
    <3>3. QED
      BY <2>2, <3>2
  <2>4. CASE UnlockTx(t)
    <3>1. Locked(t) = {t} /\ threadMutex'[t] = NoThread
      BY <2>4 DEF UnlockTx, Locked, TypeOK
    <3>2. OwnsOnly(t)'
      BY <2>1, <3>1, RegistryAssumption DEF OwnsOnly
    <3>3. QED
      BY <2>2, <3>2
  <2>5. QED
    BY <1>5, <2>3, <2>4
<1>6. ASSUME NEW t \in Thread,
             \/ InitializeThread(t) \/ RegisterDone(t) \/ TerminateThread(t)
             \/ EndTransaction(t) \/ Commit(t) \/ CommitDenied(t)
             \/ DeniedDone(t) \/ WriteBackDone(t) \/ Committed(t)
      PROVE  \A u \in Thread : OwnsOnly(u)'
  <2>1. /\ registry' = registry /\ threadMutex' = threadMutex
        /\ \A u \in Thread : u # t => pc'[u] = pc[u] /\ cursor'[u] = cursor[u]
    BY <1>6 DEF InitializeThread, RegisterDone, TerminateThread,
       EndTransaction, Commit, CommitDenied, DeniedDone, WriteBackDone,
       Committed, TypeOK
  <2>2. \A u \in Thread : u # t => OwnsOnly(u)'
    BY <2>1, OthersOwn
  <2>3. Locked(t) \subseteq Locked(t)'
    <3>1. CASE InitializeThread(t) \/ TerminateThread(t) \/ EndTransaction(t)
      BY <3>1 DEF InitializeThread, TerminateThread, EndTransaction, Locked
    <3>2. CASE RegisterDone(t) \/ Committed(t)
      BY <3>2, WalkTurns DEF RegisterDone, Committed, Locked
    <3>3. CASE Commit(t)
      BY <2>1, <3>3, WalkEnds DEF Commit, Locked, Registered, TypeOK
    <3>4. CASE CommitDenied(t)
      <4>1. Locked(t) = Registered
        BY <3>4, WalkEnds DEF CommitDenied, Locked
      <4>2. pc'[t] = "denied" /\ From(t)' = Registered
        BY <2>1, <3>4, WalkTurns DEF CommitDenied, TypeOK
      <4>3. QED
        BY <4>1, <4>2 DEF Locked
    <3>5. CASE WriteBackDone(t)
      <4>1. Locked(t) = Registered
        BY <3>5 DEF WriteBackDone, Locked
      <4>2. pc'[t] = "unlockAll" /\ From(t)' = Registered
        BY <2>1, <3>5, WalkTurns DEF WriteBackDone, TypeOK
      <4>3. QED
        BY <4>1, <4>2 DEF Locked
    <3>6. CASE DeniedDone(t)
      BY <3>6, WalkTurns DEF DeniedDone, Locked, TypeOK
    <3>7. QED
      BY <1>6, <3>1, <3>2, <3>3, <3>4, <3>5, <3>6
  <2>4. QED
    BY <2>1, <2>2, <2>3 DEF OwnsOnly
<1>7. QED
  BY <1>1, <1>2, <1>3, <1>4, <1>5, <1>6 DEF Next, Step

(* Who waits, by what for: a walk that locks, with transactionMutex_ held,  *)
(* and the threads outside.                                                 *)
Walks(t) == pc[t] \in {"registering", "lockAll"}
Queues(t) == pc[t] \in {"outside", "idle"}

(* A walk never comes to a mutex it has locked, so the owner of the one it  *)
(* stands on is another thread, and one that has transactionMutex_ no more. *)
LEMMA WalkWaits ==
  ASSUME TypeOK, RegistryInv, HeldInv, NEW t \in Thread, NEW u \in Thread,
         Walks(t), WaitsFor(t, u)
  PROVE  ~Walks(u) /\ ~Queues(u)
<1>1. /\ Walking(t) /\ threadMutex[Here(t)] = u
      /\ pc[t] = "lockAll" \/ Here(t) # t
  BY DEF Walks, WaitsFor
<1>2. /\ cursor[t] \in DOMAIN registry /\ cursor[t] \in Nat
      /\ DOMAIN registry \subseteq Nat
      /\ Here(t) \in Thread
      /\ \A i, j \in DOMAIN registry : registry[i] = registry[j] => i = j
  BY <1>1, WalkingHere DEF TypeOK
<1>3. Here(t) \notin Before(t)
  BY <1>2 DEF Before, Here
<1>4. Here(t) \in Locked(u)
  BY <1>1, <1>2 DEF HeldInv, OwnsOnly
<1>5. u # t
  BY <1>3, <1>4 DEF Walks, Locked
<1>6. ~Walks(u)
  BY <1>5, Parts DEF GeneralInv, Walks
<1>7. ~Queues(u)
  BY <1>4 DEF Queues, Locked
<1>8. QED
  BY <1>6, <1>7

(* A thread outside every section waits only for threads in one.            *)
LEMMA QueueWaits ==
  ASSUME TypeOK, HeldInv, NEW t \in Thread, NEW u \in Thread,
         Queues(t), WaitsFor(t, u)
  PROVE  ~Queues(u)
<1>1. transactionMutex = u \/ threadMutex[t] = u
  BY DEF Queues, WaitsFor
<1>2. CASE transactionMutex = u
  BY <1>2 DEF HeldInv, GeneralOwner, Queues
<1>3. CASE threadMutex[t] = u
  BY <1>3 DEF HeldInv, OwnsOnly, Locked, Queues
<1>4. QED
  BY <1>1, <1>2, <1>3

(* In any group of threads one can be picked that waits for nobody in it:   *)
(* one that does not wait at all, else the one that walks, else any.        *)
LEMMA LocksOrdered ==
  ASSUME TypeOK, RegistryInv, HeldInv
  PROVE  NoWaitingCycle
<1> SUFFICES ASSUME NEW S \in (SUBSET Thread) \ {{}}
             PROVE  \E t \in S : \A u \in S : ~WaitsFor(t, u)
  BY DEF NoWaitingCycle
<1>1. CASE \E t \in S : ~Walks(t) /\ ~Queues(t)
  BY <1>1 DEF Walks, Queues, WaitsFor
<1>2. CASE /\ \E t \in S : Walks(t)
           /\ \A t \in S : Walks(t) \/ Queues(t)
  BY <1>2, WalkWaits
<1>3. CASE \A t \in S : Queues(t)
  BY <1>3, QueueWaits
<1>4. QED
  BY <1>1, <1>2, <1>3

(* However many threads register, commit and leave, with or without a       *)
(* barrier, no group of them ever waits for one another in a cycle.         *)
THEOREM RegistryNoWaitingCycle == Spec => []NoWaitingCycle
<1>1. TypeOK /\ HeldInv /\ [Next]_vars => HeldInv'
  BY GeneralOwnerStep, OwnsOnlyStep DEF HeldInv
<1>2. TypeOK /\ RegistryInv /\ HeldInv => NoWaitingCycle
  BY LocksOrdered
<1>3. QED
  BY HeldInit, <1>1, <1>2, RegistryTypeCorrect, RegistryCorrect, PTL DEF Spec
=============================================================================
