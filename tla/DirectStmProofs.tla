-------------------------- MODULE DirectStmProofs --------------------------
(* Theorems about DirectStm, for any threads, objects and values, with both *)
(* kinds of conflict detection and any contention manager.                  *)
EXTENDS DirectStm, TLAPS

LEMMA NothingType == Nothing \in [Obj -> Val \cup {NoVal}]
  BY DEF Nothing

LEMMA TypeInit == Init => TypeOK
  BY DirectAssumption, NothingType DEF Init, TypeOK, Location

LEMMA SeesTypes ==
  ASSUME TypeOK, NEW t \in Thread, NEW x \in Obj, Sees(t, x)
  PROVE  /\ robbed' \subseteq Obj
         /\ seen' \in [Thread -> [Obj -> Val \cup {NoVal}]]
<1>1. PICK v \in Val \cup {NoVal} : seen' = [seen EXCEPT ![t][x] = v]
  <2>1. mem[x] \in Val /\ seen[t][x] \in Val \cup {NoVal}
    BY DEF TypeOK
  <2>2. CASE owner[x] = NoThread /\ seen[t][x] = NoVal
    BY <2>1, <2>2 DEF Sees
  <2>3. CASE ~(owner[x] = NoThread /\ seen[t][x] = NoVal)
    BY <2>1, <2>3 DEF Sees
  <2> QED
    BY <2>2, <2>3
<1> QED
  BY <1>1 DEF Sees, TypeOK

(* Where the thread is, and the object it works on.                         *)
TargetTypes ==
  /\ target \in [Thread -> Obj \cup {NoObj}]
  /\ \A t \in Thread : pc[t] \in {"read", "insert", "write", "delete"}
                       => target[t] \in Obj
  /\ pc \in [Thread -> Location]

LEMMA FinishTypes ==
  ASSUME TypeOK, NEW t \in Thread, Finish(t)
  PROVE  TargetTypes'
  BY DEF Finish, Goto, TypeOK, TargetTypes, Location

LEMMA DropTypes ==
  ASSUME TypeOK, NEW t \in Thread, Goto(t, "abortWait"),
         target' = [target EXCEPT ![t] = NoObj]
  PROVE  TargetTypes'
  BY DEF Goto, TypeOK, TargetTypes, Location

LEMMA TypeStep == TypeOK /\ [Next]_vars => TypeOK'
<1> SUFFICES ASSUME TypeOK, [Next]_vars
             PROVE  TypeOK'
  OBVIOUS
<1> USE DirectAssumption DEF TypeOK, Location, txVars, history, Goto, Finish,
        Forgets
<1>1. ASSUME NEW t \in Thread, Begin(t)
      PROVE  TypeOK'
  BY <1>1 DEF Begin
<1>2. ASSUME NEW t \in Thread, Doomed(t)
      PROVE  TypeOK'
  BY <1>2 DEF Doomed
<1>3. ASSUME NEW t \in Thread, NEW x \in Obj, Start(t, x)
      PROVE  TypeOK'
  BY <1>3 DEF Start
<1>4. ASSUME NEW t \in Thread, NEW x \in Obj, ReadAgain(t, x)
      PROVE  TypeOK'
  <2>1. /\ robbed' \subseteq Obj
        /\ seen' \in [Thread -> [Obj -> Val \cup {NoVal}]]
    BY <1>4, SeesTypes DEF ReadAgain
  <2> QED
    BY <1>4, <2>1 DEF ReadAgain
<1>5. ASSUME NEW t \in Thread, NEW x \in Obj, DeleteOwn(t, x)
      PROVE  TypeOK'
  BY <1>5 DEF DeleteOwn
<1>6. ASSUME NEW t \in Thread, EarlyTest(t)
      PROVE  TypeOK'
  <2>1. TargetTypes'
    <3>1. CASE owner[target[t]] = NoThread
      <4>1. target' = target /\ pc' = [pc EXCEPT ![t] = "insert"]
        BY <1>6, <3>1 DEF EarlyTest
      <4> QED
        BY <1>6, <4>1 DEF EarlyTest, TargetTypes
    <3>2. CASE owner[target[t]] # NoThread
      BY <1>6, <3>2, DropTypes DEF EarlyTest
    <3> QED
      BY <3>1, <3>2
  <2> QED
    BY <1>6, <2>1 DEF EarlyTest, TargetTypes
<1>7. ASSUME NEW t \in Thread, EarlyInsert(t)
      PROVE  TypeOK'
  <2>1. target[t] \in Obj
    BY <1>7 DEF EarlyInsert
  <2>2. /\ robbed' \subseteq Obj
        /\ seen' \in [Thread -> [Obj -> Val \cup {NoVal}]]
    BY <1>7, <2>1, SeesTypes DEF EarlyInsert
  <2>3. bloom' \in [Thread -> SUBSET Obj]
    BY <1>7, <2>1 DEF EarlyInsert
  <2>4. TargetTypes'
    BY <1>7, FinishTypes DEF EarlyInsert
  <2> QED
    BY <1>7, <2>2, <2>3, <2>4 DEF EarlyInsert, TargetTypes
<1>8. ASSUME NEW t \in Thread, LateRead(t)
      PROVE  TypeOK'
  <2>1. target[t] \in Obj
    BY <1>8 DEF LateRead
  <2>2. /\ robbed' \subseteq Obj
        /\ seen' \in [Thread -> [Obj -> Val \cup {NoVal}]]
    BY <1>8, <2>1, SeesTypes DEF LateRead
  <2>3. bloom' \in [Thread -> SUBSET Obj]
    BY <1>8, <2>1 DEF LateRead
  <2>4. TargetTypes'
    BY <1>8, FinishTypes DEF LateRead
  <2> QED
    BY <1>8, <2>2, <2>3, <2>4 DEF LateRead, TargetTypes
<1>9. ASSUME NEW t \in Thread, LateReadOfCopy(t)
      PROVE  TypeOK'
  BY <1>9 DEF LateReadOfCopy
<1>10. ASSUME NEW t \in Thread, NEW x \in Obj, NEW v \in Val, WriteOwn(t, x, v)
       PROVE  TypeOK'
  BY <1>10 DEF WriteOwn
<1>11. ASSUME NEW t \in Thread, NEW v \in Val, TakeOwnership(t, v)
       PROVE  TypeOK'
  BY <1>11 DEF TakeOwnership
<1>12. ASSUME NEW t \in Thread, Beaten(t)
       PROVE  TypeOK'
  BY <1>12 DEF Beaten
<1>13. ASSUME NEW t \in Thread, Delete(t)
       PROVE  TypeOK'
  <2>1. target[t] \in Obj
    BY <1>13 DEF Delete
  <2>2. CASE owner[target[t]] = NoThread
    <3>1. TargetTypes'
      BY <1>13, <2>2, FinishTypes DEF Delete
    <3>2. /\ owner' = [owner EXCEPT ![target[t]] = t]
          /\ deletedMemoryList' =
               [deletedMemoryList EXCEPT ![t] = @ \cup {target[t]}]
      BY <1>13, <2>2 DEF Delete
    <3>3. owner' \in [Obj -> Thread \cup {NoThread}]
      BY <3>2
    <3>4. deletedMemoryList' \in [Thread -> SUBSET Obj]
      BY <2>1, <3>2
    <3> QED
      BY <1>13, <3>1, <3>3, <3>4 DEF Delete, TargetTypes
  <2>3. CASE owner[target[t]] # NoThread
    <3>1. TargetTypes'
      BY <1>13, <2>3, DropTypes DEF Delete
    <3>2. UNCHANGED <<owner, deletedMemoryList>>
      BY <1>13, <2>3 DEF Delete
    <3> QED
      BY <1>13, <3>1, <3>2 DEF Delete, TargetTypes
  <2> QED
    BY <2>2, <2>3
<1>14. ASSUME NEW t \in Thread, LockAndAbort(t)
       PROVE  TypeOK'
  BY <1>14 DEF LockAndAbort
<1>15. ASSUME NEW t \in Thread, Destructor(t)
       PROVE  TypeOK'
  BY <1>15 DEF Destructor
<1>16. ASSUME NEW t \in Thread, AbortDone(t)
       PROVE  TypeOK'
  BY <1>16, NothingType DEF AbortDone
<1>17. ASSUME NEW t \in Thread, NEW x \in Obj, Restore(t, x)
       PROVE  TypeOK'
  <2>1. writeList[t][x] \in Val
    BY <1>17 DEF Restore, Written
  <2>2. writeList' \in [Thread -> [Obj -> Val \cup {NoVal}]]
    BY <1>17 DEF Restore
  <2> QED
    BY <1>17, <2>1, <2>2 DEF Restore
<1>18. ASSUME NEW t \in Thread, End(t)
       PROVE  TypeOK'
  BY <1>18 DEF End
<1>19. ASSUME NEW t \in Thread, DoomedEnd(t)
       PROVE  TypeOK'
  BY <1>19 DEF DoomedEnd
<1>20. ASSUME NEW t \in Thread, Decide(t)
       PROVE  TypeOK'
  BY <1>20 DEF Decide
<1>21. ASSUME NEW t \in Thread, Refused(t)
       PROVE  TypeOK'
  BY <1>21 DEF Refused
<1>22. ASSUME NEW t \in Thread, Publish(t)
       PROVE  TypeOK'
  BY <1>22, NothingType DEF Publish
<1>23. CASE UNCHANGED vars
  BY <1>23 DEF vars
<1> QED
  BY <1>1, <1>2, <1>3, <1>4, <1>5, <1>6, <1>7, <1>8, <1>9, <1>10, <1>11, <1>12, <1>13, <1>14, <1>15, <1>16, <1>17, <1>18, <1>19, <1>20, <1>21, <1>22, <1>23 DEF Next

(* Every variable of DirectStm keeps its type, and an operation in progress *)
(* has its object, whatever the threads, objects and values.                *)
THEOREM TypeCorrect == Spec => []TypeOK
<1>1. Init => TypeOK
  BY TypeInit
<1>2. TypeOK /\ [Next]_vars => TypeOK'
  BY TypeStep
<1> QED
  BY <1>1, <1>2, PTL DEF Spec

-----------------------------------------------------------------------------
(* Owners and lists.                                                        *)

listVars == <<owner, writeList, deletedMemoryList, deletionBuffer, robbed>>

(* The steps that touch owners or lists.                                    *)
LEMMA ListSteps ==
  ASSUME [Next]_vars
  PROVE  \/ UNCHANGED listVars
         \/ \E t \in Thread :
              \/ \E v \in Val : TakeOwnership(t, v)
              \/ Delete(t) \/ AbortDone(t) \/ Publish(t)
              \/ \E x \in Obj : DeleteOwn(t, x) \/ Restore(t, x)
<1> USE DEF listVars, history
<1>1. CASE UNCHANGED vars
  BY <1>1 DEF vars
<1>2. ASSUME NEW t \in Thread,
             \/ Begin(t) \/ Doomed(t) \/ EarlyTest(t) \/ LateReadOfCopy(t)
             \/ \E x \in Obj : Start(t, x)
             \/ Beaten(t) \/ LockAndAbort(t) \/ Destructor(t)
             \/ End(t) \/ DoomedEnd(t) \/ Refused(t)
      PROVE  UNCHANGED listVars
  BY <1>2 DEF Begin, Doomed, EarlyTest, LateReadOfCopy, Start, Beaten,
         LockAndAbort, Destructor, End, DoomedEnd, Refused
<1>3. ASSUME NEW t \in Thread,
             \/ EarlyInsert(t) \/ LateRead(t) \/ Decide(t)
             \/ \E x \in Obj : ReadAgain(t, x)
             \/ \E x \in Obj, v \in Val : WriteOwn(t, x, v)
      PROVE  UNCHANGED listVars
  BY <1>3 DEF EarlyInsert, LateRead, Decide, ReadAgain, WriteOwn, Sees
<1> QED
  BY <1>1, <1>2, <1>3 DEF Next

(* OwnersAreListed, for one object.                                         *)
HasOneWriter(x) == \A u \in Thread : writeList[u][x] # NoVal => owner[x] = u
OwnerHasIt(x) ==
  owner[x] # NoThread => \/ writeList[owner[x]][x] # NoVal
                         \/ x \in deletedMemoryList[owner[x]]
                         \/ x \in deletionBuffer
Listed(x) == HasOneWriter(x) /\ OwnerHasIt(x)

LEMMA ListedObjects ==
  /\ OwnersAreListed <=> \A x \in Obj \ robbed : Listed(x)
  /\ OwnersAreListed' <=> \A x \in Obj \ robbed' : Listed(x)'
BY DEF OwnersAreListed, Listed, HasOneWriter, OwnerHasIt, Owns, Written

LEMMA OwnersStep == TypeOK /\ OwnersAreListed /\ [Next]_vars => OwnersAreListed'
<1> SUFFICES ASSUME TypeOK, OwnersAreListed, [Next]_vars,
                    NEW x \in Obj, x \notin robbed'
             PROVE  Listed(x)'
  BY ListedObjects
<1>1. x \notin robbed
  <2>1. \A t \in Thread : AbortDone(t) => robbed \subseteq robbed'
    BY DEF AbortDone
  <2>2. \A t \in Thread :
          (\E v \in Val : TakeOwnership(t, v)) \/ Delete(t) \/ Publish(t)
          \/ (\E y \in Obj : DeleteOwn(t, y) \/ Restore(t, y))
          => robbed' = robbed
    BY DEF TakeOwnership, Delete, Publish, DeleteOwn, Restore, history
  <2> QED
    BY <2>1, <2>2, ListSteps DEF listVars
<1>2. HasOneWriter(x) /\ OwnerHasIt(x)
  BY <1>1, ListedObjects DEF Listed
<1> USE <1>2, DirectAssumption DEF TypeOK, Listed, HasOneWriter, OwnerHasIt
<1>3. CASE UNCHANGED listVars
  BY <1>3 DEF listVars
<1>4. ASSUME NEW t \in Thread, NEW v \in Val, TakeOwnership(t, v)
      PROVE  Listed(x)'
  <2>1. /\ owner' = [owner EXCEPT ![target[t]] = t]
        /\ writeList' = [writeList EXCEPT ![t][target[t]] = mem[target[t]]]
        /\ UNCHANGED <<deletedMemoryList, deletionBuffer>>
        /\ owner[target[t]] = NoThread /\ target[t] \in Obj
    BY <1>4 DEF TakeOwnership
  <2>2. \A u \in Thread : writeList'[u][x] =
          IF u = t /\ x = target[t] THEN mem[x] ELSE writeList[u][x]
    BY <2>1
  <2>3. CASE x = target[t]
    <3>1. owner'[x] = t /\ owner[x] = NoThread
      BY <2>1, <2>3
    <3>2. writeList'[t][x] # NoVal
      BY <2>2, <2>3
    <3>3. \A u \in Thread : writeList'[u][x] # NoVal => u = t
      BY <2>2, <3>1
    <3> QED
      BY <3>1, <3>2, <3>3
  <2>4. CASE x # target[t]
    <3>1. owner'[x] = owner[x] /\ \A u \in Thread : writeList'[u][x] = writeList[u][x]
      BY <2>1, <2>2, <2>4
    <3> QED
      BY <2>1, <3>1
  <2> QED
    BY <2>3, <2>4
<1>5. ASSUME NEW t \in Thread, Delete(t)
      PROVE  Listed(x)'
  <2>1. /\ UNCHANGED <<writeList, deletionBuffer>>
        /\ target[t] \in Obj
        /\ \/ /\ owner[target[t]] = NoThread
              /\ owner' = [owner EXCEPT ![target[t]] = t]
              /\ deletedMemoryList' = [deletedMemoryList EXCEPT ![t] = @ \cup {target[t]}]
           \/ UNCHANGED <<owner, deletedMemoryList>>
    BY <1>5 DEF Delete
  <2>2. CASE UNCHANGED <<owner, deletedMemoryList>>
    BY <2>1, <2>2
  <2>3. CASE /\ owner[target[t]] = NoThread
             /\ owner' = [owner EXCEPT ![target[t]] = t]
             /\ deletedMemoryList' = [deletedMemoryList EXCEPT ![t] = @ \cup {target[t]}]
    <3>1. CASE x = target[t]
      BY <2>1, <2>3, <3>1
    <3>2. CASE x # target[t]
      BY <2>1, <2>3, <3>2
    <3> QED
      BY <3>1, <3>2
  <2> QED
    BY <2>1, <2>2, <2>3
<1>6. ASSUME NEW t \in Thread, AbortDone(t)
      PROVE  Listed(x)'
  <2>1. /\ UNCHANGED <<writeList, deletionBuffer>>
        /\ owner'[x] = IF x \in deletedMemoryList[t] THEN NoThread ELSE owner[x]
        /\ deletedMemoryList' = [deletedMemoryList EXCEPT ![t] = {}]
    BY <1>6 DEF AbortDone
  <2>2. writeList[t][x] = NoVal
    BY <1>6 DEF AbortDone, Written
  <2>3. x \in deletedMemoryList[t] => owner[x] \in {t, NoThread}
    BY <1>6 DEF AbortDone
  <2>4. HasOneWriter(x)'
    BY <2>1, <2>2, <2>3
  <2>5. OwnerHasIt(x)'
    BY <2>1, <2>2, <2>3
  <2> QED
    BY <2>4, <2>5
<1>7. ASSUME NEW t \in Thread, Publish(t)
      PROVE  Listed(x)'
  <2>1. /\ owner'[x] = IF writeList[t][x] # NoVal THEN NoThread ELSE owner[x]
        /\ writeList' = [writeList EXCEPT ![t] = Nothing]
        /\ deletionBuffer' = deletionBuffer \cup deletedMemoryList[t]
        /\ deletedMemoryList' = [deletedMemoryList EXCEPT ![t] = {}]
    BY <1>7 DEF Publish, Written
  <2>2. \A u \in Thread : writeList'[u][x] =
          IF u = t THEN NoVal ELSE writeList[u][x]
    BY <2>1 DEF Nothing
  <2>3. HasOneWriter(x)'
    BY <2>1, <2>2
  <2>4. OwnerHasIt(x)'
    BY <2>1, <2>2
  <2> QED
    BY <2>3, <2>4
<1>8. ASSUME NEW t \in Thread, NEW y \in Obj, DeleteOwn(t, y)
      PROVE  Listed(x)'
  <2>1. /\ UNCHANGED <<owner, writeList, deletionBuffer>>
        /\ \A u \in Thread : deletedMemoryList[u] \subseteq deletedMemoryList'[u]
    BY <1>8 DEF DeleteOwn
  <2> QED
    BY <2>1
<1>9. ASSUME NEW t \in Thread, NEW y \in Obj, Restore(t, y)
      PROVE  Listed(x)'
  <2>1. /\ owner' = [owner EXCEPT ![y] = NoThread]
        /\ writeList' = [writeList EXCEPT ![t][y] = NoVal]
        /\ UNCHANGED <<deletedMemoryList, deletionBuffer>>
        /\ writeList[t][y] # NoVal
    BY <1>9 DEF Restore, Written
  <2>2. \A u \in Thread : writeList'[u][x] =
          IF u = t /\ x = y THEN NoVal ELSE writeList[u][x]
    BY <2>1
  <2>3. CASE x = y
    BY <2>1, <2>2, <2>3
  <2>4. CASE x # y
    BY <2>1, <2>2, <2>4
  <2> QED
    BY <2>3, <2>4
<1> QED
  BY <1>3, <1>4, <1>5, <1>6, <1>7, <1>8, <1>9, ListSteps

(* Whatever gets in between the steps of an abort or of a commit, an object  *)
(* has the owner whose list it is in and no other; robbed objects, see       *)
(* direct_stolen, are left out.                                              *)
THEOREM OwnersCorrect == Spec => []OwnersAreListed
<1>1. Init => OwnersAreListed
  BY DirectAssumption DEF Init, OwnersAreListed, Written, Owns, Nothing
<1>2. TypeOK /\ OwnersAreListed /\ [Next]_vars => OwnersAreListed'
  BY OwnersStep
<1> QED
  BY <1>1, <1>2, TypeCorrect, PTL DEF Spec

-----------------------------------------------------------------------------
(* What is stored.                                                          *)

Saved(x) == owner[x] # NoThread /\ writeList[owner[x]][x] # NoVal
StoredAt(x) == IF Saved(x) THEN writeList[owner[x]][x] ELSE mem[x]

LEMMA StoredIs ==
  ASSUME NEW x \in Obj
  PROVE  stored[x] = StoredAt(x) /\ stored'[x] = StoredAt(x)'
BY DEF stored, StoredAt, Saved

(* The commit that gives the object its new value.                          *)
PublishedBy(t, x) ==
  /\ pc[t] = "publish" /\ pc'[t] = "out"
  /\ x \in Written(t) /\ StoredAt(x)' = mem[x]

(* The steps that touch owners, lists or objects.                           *)
LEMMA StoreSteps ==
  ASSUME [Next]_vars
  PROVE  \/ UNCHANGED <<listVars, mem>>
         \/ \E t \in Thread :
              \/ \E v \in Val : TakeOwnership(t, v)
              \/ Delete(t) \/ AbortDone(t) \/ Publish(t)
              \/ \E x \in Obj : DeleteOwn(t, x) \/ Restore(t, x)
              \/ \E x \in Obj, v \in Val : WriteOwn(t, x, v)
<1> USE DEF listVars, history
<1>1. CASE UNCHANGED vars
  BY <1>1 DEF vars
<1>2. ASSUME NEW t \in Thread,
             \/ Begin(t) \/ Doomed(t) \/ EarlyTest(t) \/ LateReadOfCopy(t)
             \/ \E x \in Obj : Start(t, x)
             \/ Beaten(t) \/ LockAndAbort(t) \/ Destructor(t)
             \/ End(t) \/ DoomedEnd(t) \/ Refused(t)
      PROVE  UNCHANGED <<listVars, mem>>
  BY <1>2 DEF Begin, Doomed, EarlyTest, LateReadOfCopy, Start, Beaten,
         LockAndAbort, Destructor, End, DoomedEnd, Refused
<1>3. ASSUME NEW t \in Thread,
             \/ EarlyInsert(t) \/ LateRead(t) \/ Decide(t)
             \/ \E x \in Obj : ReadAgain(t, x)
      PROVE  UNCHANGED <<listVars, mem>>
  BY <1>3 DEF EarlyInsert, LateRead, Decide, ReadAgain, Sees
<1> QED
  BY <1>1, <1>2, <1>3 DEF Next

(* What an object is worth changes by a commit of it, and by nothing else.   *)
LEMMA StoredStep ==
  ASSUME TypeOK, OwnersAreListed, [Next]_vars, NEW x \in Obj, x \notin robbed'
  PROVE  \/ StoredAt(x)' = StoredAt(x)
         \/ \E t \in Thread : PublishedBy(t, x)
<1>1. HasOneWriter(x) /\ OwnerHasIt(x)
  <2>1. x \notin robbed
    BY StoreSteps DEF listVars, AbortDone, TakeOwnership, Delete, Publish,
       DeleteOwn, Restore, WriteOwn, history
  <2> QED
    BY <2>1, ListedObjects DEF Listed
<1> USE <1>1, DirectAssumption DEF TypeOK, HasOneWriter, OwnerHasIt, StoredAt, Saved
<1>2. CASE UNCHANGED <<listVars, mem>>
  BY <1>2 DEF listVars
<1>3. ASSUME NEW t \in Thread, NEW v \in Val, TakeOwnership(t, v)
      PROVE  StoredAt(x)' = StoredAt(x)
  <2>1. /\ owner' = [owner EXCEPT ![target[t]] = t]
        /\ writeList' = [writeList EXCEPT ![t][target[t]] = mem[target[t]]]
        /\ mem' = [mem EXCEPT ![target[t]] = v]
        /\ owner[target[t]] = NoThread /\ target[t] \in Obj
    BY <1>3 DEF TakeOwnership
  <2>2. CASE x = target[t]
    <3>1. owner'[x] = t /\ writeList'[t][x] = mem[x] /\ owner[x] = NoThread
      BY <2>1, <2>2
    <3>2. mem[x] # NoVal /\ t # NoThread
      OBVIOUS
    <3> QED
      BY <3>1, <3>2
  <2>3. CASE x # target[t]
    <3>1. /\ owner'[x] = owner[x] /\ mem'[x] = mem[x]
          /\ \A u \in Thread : writeList'[u][x] = writeList[u][x]
      BY <2>1, <2>3
    <3> QED
      BY <3>1
  <2> QED
    BY <2>2, <2>3
<1>4. ASSUME NEW t \in Thread, Delete(t)
      PROVE  StoredAt(x)' = StoredAt(x)
  <2>1. /\ UNCHANGED <<writeList, mem>>
        /\ target[t] \in Obj
        /\ \/ /\ owner[target[t]] = NoThread
              /\ owner' = [owner EXCEPT ![target[t]] = t]
           \/ UNCHANGED owner
    BY <1>4 DEF Delete
  <2>2. owner'[x] # owner[x] =>
          owner[x] = NoThread /\ owner'[x] = t /\ writeList[t][x] = NoVal
    BY <2>1
  <2> QED
    BY <2>1, <2>2
<1>5. ASSUME NEW t \in Thread, AbortDone(t)
      PROVE  StoredAt(x)' = StoredAt(x)
  <2>1. /\ UNCHANGED <<writeList, mem>>
        /\ owner'[x] = IF x \in deletedMemoryList[t] THEN NoThread ELSE owner[x]
    BY <1>5 DEF AbortDone
  <2>2. writeList[t][x] = NoVal
    BY <1>5 DEF AbortDone, Written
  <2>3. x \in deletedMemoryList[t] => owner[x] \in {t, NoThread}
    BY <1>5 DEF AbortDone
  <2> QED
    BY <2>1, <2>2, <2>3
<1>6. ASSUME NEW t \in Thread, Publish(t)
      PROVE  StoredAt(x)' = StoredAt(x) \/ PublishedBy(t, x)
  <2>1. /\ owner'[x] = IF writeList[t][x] # NoVal THEN NoThread ELSE owner[x]
        /\ writeList' = [writeList EXCEPT ![t] = Nothing]
        /\ mem' = mem
        /\ pc[t] = "publish" /\ pc'[t] = "out"
    BY <1>6 DEF Publish, Written, Forgets, Goto
  <2>2. \A u \in Thread : writeList'[u][x] =
          IF u = t THEN NoVal ELSE writeList[u][x]
    BY <2>1 DEF Nothing
  <2>3. CASE writeList[t][x] # NoVal
    BY <2>1, <2>3 DEF PublishedBy, Written
  <2>4. CASE writeList[t][x] = NoVal
    BY <2>1, <2>2, <2>4
  <2> QED
    BY <2>3, <2>4
<1>7. ASSUME NEW t \in Thread, NEW y \in Obj, DeleteOwn(t, y)
      PROVE  StoredAt(x)' = StoredAt(x)
  BY <1>7 DEF DeleteOwn
<1>8. ASSUME NEW t \in Thread, NEW y \in Obj, Restore(t, y)
      PROVE  StoredAt(x)' = StoredAt(x)
  <2>1. /\ owner' = [owner EXCEPT ![y] = NoThread]
        /\ writeList' = [writeList EXCEPT ![t][y] = NoVal]
        /\ mem' = [mem EXCEPT ![y] = writeList[t][y]]
        /\ writeList[t][y] # NoVal
    BY <1>8 DEF Restore, Written
  <2>2. CASE x = y
    <3>1. owner'[x] = NoThread /\ mem'[x] = writeList[t][x] /\ owner[x] = t
      BY <2>1, <2>2
    <3> QED
      BY <2>1, <2>2, <3>1
  <2>3. CASE x # y
    <3>1. /\ owner'[x] = owner[x] /\ mem'[x] = mem[x]
          /\ \A u \in Thread : writeList'[u][x] = writeList[u][x]
      BY <2>1, <2>3
    <3> QED
      BY <3>1
  <2> QED
    BY <2>2, <2>3
<1>9. ASSUME NEW t \in Thread, NEW y \in Obj, NEW v \in Val, WriteOwn(t, y, v)
      PROVE  StoredAt(x)' = StoredAt(x)
  <2>1. /\ UNCHANGED <<owner, writeList>>
        /\ mem' = [mem EXCEPT ![y] = v]
        /\ owner[y] = t /\ y \notin deletedMemoryList[t] \cup deletionBuffer
    BY <1>9 DEF WriteOwn, Usable, Owns
  <2>2. x = y => Saved(x)
    BY <2>1
  <2> QED
    BY <2>1, <2>2
<1> QED
  BY <1>2, <1>3, <1>4, <1>5, <1>6, <1>7, <1>8, <1>9, StoreSteps

(* Only the commit of a writer changes what objects are worth, and it gives  *)
(* them what the writer left in them: in-place updates, aborts and the steps *)
(* that others make in between are not seen from outside.                    *)
THEOREM OnlyCommitsPublishCorrect == Spec => OnlyCommitsPublish
<1>1. TypeOK /\ OwnersAreListed /\ [Next]_vars =>
        [\A x \in Obj \ robbed' : stored'[x] # stored[x] =>
           \E t \in Thread : /\ pc[t] = "publish" /\ pc'[t] = "out"
                             /\ x \in Written(t) /\ stored'[x] = mem[x]]_vars
  BY StoredStep, StoredIs DEF PublishedBy
<1> QED
  BY <1>1, TypeCorrect, OwnersCorrect, PTL DEF Spec, OnlyCommitsPublish

-----------------------------------------------------------------------------
(* What a transaction has read.                                             *)

(* A filter answers for all that was seen, and who runs no transaction has  *)
(* seen nothing.                                                            *)
SeenIsFiltered ==
  \A t \in Thread, x \in Obj :
    seen[t][x] # NoVal => x \in bloom[t] /\ pc[t] # "out"

(* A transaction that counts: in flight and not doomed.                     *)
Clean(t) == t \in transactionsInFlight /\ ~forcedToAbort[t]

(* Nobody clean has seen what a commit is publishing.                       *)
PublishSpares ==
  \A t, u \in Thread, x \in Obj \ robbed :
    Clean(t) /\ t # u /\ pc[u] = "publish" /\ writeList[u][x] # NoVal
    => seen[t][x] = NoVal

(* Only Decide makes a publisher, and nobody touches a publisher's list.    *)
LEMMA Publishers ==
  ASSUME TypeOK, [Next]_vars, NEW u \in Thread, pc'[u] = "publish"
  PROVE  Decide(u) \/ (pc[u] = "publish" /\ writeList'[u] = writeList[u])
<1> USE DEF TypeOK, Goto, Finish, Forgets
<1>1. CASE UNCHANGED vars
  BY <1>1 DEF vars
<1>2. ASSUME NEW t \in Thread,
             \/ Begin(t) \/ Doomed(t) \/ EarlyTest(t) \/ EarlyInsert(t)
             \/ LateRead(t) \/ LateReadOfCopy(t)
             \/ \E x \in Obj : Start(t, x) \/ ReadAgain(t, x)
             \/ Beaten(t) \/ LockAndAbort(t) \/ Destructor(t)
             \/ End(t) \/ DoomedEnd(t) \/ Refused(t) \/ Delete(t) \/ AbortDone(t)
             \/ \E x \in Obj : DeleteOwn(t, x)
             \/ \E x \in Obj, v \in Val : WriteOwn(t, x, v)
      PROVE  pc[u] = "publish" /\ writeList'[u] = writeList[u]
  BY <1>2 DEF Begin, Doomed, EarlyTest, EarlyInsert, LateRead, LateReadOfCopy,
     Start, ReadAgain, Beaten, LockAndAbort, Destructor, End, DoomedEnd, Refused,
     Delete, AbortDone, DeleteOwn, WriteOwn
<1>3. ASSUME NEW t \in Thread, Decide(t)
      PROVE  Decide(u) \/ (pc[u] = "publish" /\ writeList'[u] = writeList[u])
  BY <1>3 DEF Decide
<1>4. ASSUME NEW t \in Thread,
             \/ \E v \in Val : TakeOwnership(t, v)
             \/ \E x \in Obj : Restore(t, x)
             \/ Publish(t)
      PROVE  pc[u] = "publish" /\ writeList'[u] = writeList[u]
  <2>1. t # u /\ pc[u] = "publish"
    BY <1>4 DEF TakeOwnership, Restore, Publish
  <2> QED
    BY <1>4, <2>1 DEF TakeOwnership, Restore, Publish
<1> QED
  BY <1>1, <1>2, <1>3, <1>4 DEF Next

(* What a step does to what a thread has seen of an object: it keeps it, or  *)
(* it is a first look at an object that nobody owns, or it is forgotten.     *)
KeepsSeen(t, x) ==
  /\ seen'[t][x] = seen[t][x]
  /\ bloom[t] \subseteq bloom'[t]
  /\ Clean(t)' => Clean(t)
  /\ pc[t] # "out" => pc'[t] # "out"
FirstLook(t, x) ==
  /\ owner[x] = NoThread /\ seen'[t][x] = mem[x]
  /\ x \in bloom'[t] /\ pc'[t] # "out"
  /\ UNCHANGED <<listVars, mem>>
SeenEffect(t, x) == KeepsSeen(t, x) \/ FirstLook(t, x) \/ seen'[t][x] = NoVal

LEMMA SeesEffect ==
  ASSUME TypeOK, NEW t \in Thread, NEW y \in Obj, Sees(t, y), NEW x \in Obj
  PROVE  /\ \A u \in Thread \ {t} : seen'[u] = seen[u]
         /\ \/ seen'[t][x] = seen[t][x]
            \/ x = y /\ owner[x] = NoThread /\ seen'[t][x] = mem[x]
<1>1. CASE owner[y] = NoThread /\ seen[t][y] = NoVal
  <2>1. seen' = [seen EXCEPT ![t][y] = mem[y]]
    BY <1>1 DEF Sees, TypeOK
  <2> QED
    BY <1>1, <2>1 DEF TypeOK
<1>2. CASE ~(owner[y] = NoThread /\ seen[t][y] = NoVal)
  <2>1. seen' = [seen EXCEPT ![t][y] = seen[t][y]]
    BY <1>2 DEF Sees, TypeOK
  <2> QED
    BY <2>1 DEF TypeOK
<1> QED
  BY <1>1, <1>2

LEMMA SeenStep ==
  ASSUME TypeOK, SeenIsFiltered, [Next]_vars, NEW u \in Thread, NEW x \in Obj
  PROVE  SeenEffect(u, x)
<1> USE DEF TypeOK, Goto, Finish, history, txVars, listVars
<1>1. CASE UNCHANGED vars
  BY <1>1 DEF vars, SeenEffect, KeepsSeen, Clean
<1>2. ASSUME NEW t \in Thread,
             \/ Doomed(t) \/ EarlyTest(t) \/ LateReadOfCopy(t)
             \/ \E y \in Obj : Start(t, y)
             \/ Beaten(t) \/ LockAndAbort(t) \/ Destructor(t)
             \/ End(t) \/ DoomedEnd(t) \/ Delete(t)
             \/ \E v \in Val : TakeOwnership(t, v)
             \/ \E y \in Obj : DeleteOwn(t, y) \/ Restore(t, y)
             \/ \E y \in Obj, v \in Val : WriteOwn(t, y, v)
      PROVE  SeenEffect(u, x)
  <2>1. UNCHANGED <<seen, transactionsInFlight, forcedToAbort>>
    BY <1>2 DEF Doomed, EarlyTest, LateReadOfCopy, Start, Beaten, LockAndAbort,
       Destructor, End, DoomedEnd, Delete, TakeOwnership, DeleteOwn, Restore,
       WriteOwn
  <2>2. bloom[u] \subseteq bloom'[u]
    <3>1. CASE \E v \in Val : TakeOwnership(t, v)
      <4>1. bloom' = [bloom EXCEPT ![t] = bloom[t] \cup {target[t]}]
        BY <3>1 DEF TakeOwnership
      <4> QED
        BY <4>1
    <3>2. CASE ~\E v \in Val : TakeOwnership(t, v)
      <4>1. bloom' = bloom
        BY <1>2, <3>2 DEF Doomed, EarlyTest, LateReadOfCopy, Start, Beaten,
           LockAndAbort, Destructor, End, DoomedEnd, Delete, DeleteOwn, Restore,
           WriteOwn
      <4> QED
        BY <4>1
    <3> QED
      BY <3>1, <3>2
  <2>3. pc[u] # "out" => pc'[u] # "out"
    BY <1>2 DEF Doomed, EarlyTest, LateReadOfCopy, Start, Beaten, LockAndAbort,
       Destructor, End, DoomedEnd, Delete, TakeOwnership, DeleteOwn, Restore,
       WriteOwn
  <2> QED
    BY <2>1, <2>2, <2>3 DEF SeenEffect, KeepsSeen, Clean
<1>3. ASSUME NEW t \in Thread, NEW y \in Obj, Sees(t, y),
             UNCHANGED <<mem, owner, writeList, deletedMemoryList,
                         deletionBuffer, transactionsInFlight, forcedToAbort>>,
             bloom' = [bloom EXCEPT ![t] = bloom[t] \cup {y}],
             pc[t] # "out", \/ pc' = pc
                            \/ pc' = [pc EXCEPT ![t] = "run"]
      PROVE  SeenEffect(u, x)
  <2>1. /\ \A w \in Thread \ {t} : seen'[w] = seen[w]
        /\ \/ seen'[t][x] = seen[t][x]
           \/ x = y /\ owner[x] = NoThread /\ seen'[t][x] = mem[x]
    BY <1>3, SeesEffect
  <2>2. bloom[u] \subseteq bloom'[u] /\ (pc[u] # "out" => pc'[u] # "out")
    BY <1>3
  <2>3. CASE u # t
    BY <1>3, <2>1, <2>2, <2>3 DEF SeenEffect, KeepsSeen, Clean
  <2>4. CASE u = t
    <3>1. CASE seen'[t][x] = seen[t][x]
      BY <1>3, <2>2, <2>4, <3>1 DEF SeenEffect, KeepsSeen, Clean
    <3>2. CASE x = y /\ owner[x] = NoThread /\ seen'[t][x] = mem[x]
      <4>1. x \in bloom'[t] /\ pc'[t] # "out" /\ robbed' = robbed
        BY <1>3, <3>2 DEF Sees
      <4> QED
        BY <1>3, <2>4, <3>2, <4>1 DEF SeenEffect, FirstLook
    <3> QED
      BY <2>1, <3>1, <3>2
  <2> QED
    BY <2>3, <2>4
<1>4. ASSUME NEW t \in Thread, NEW y \in Obj, ReadAgain(t, y)
      PROVE  SeenEffect(u, x)
  <2>1. bloom' = [bloom EXCEPT ![t] = bloom[t] \cup {y}]
    <3>1. y \in bloom[t] /\ bloom' = bloom
      BY <1>4 DEF ReadAgain
    <3> QED
      BY <3>1
  <2> QED
    BY <1>3, <1>4, <2>1 DEF ReadAgain
<1>5. ASSUME NEW t \in Thread, EarlyInsert(t) \/ LateRead(t)
      PROVE  SeenEffect(u, x)
  <2>1. target[t] \in Obj
    BY <1>5 DEF EarlyInsert, LateRead
  <2> QED
    BY <1>3, <1>5, <2>1 DEF EarlyInsert, LateRead
<1>6. ASSUME NEW t \in Thread, Begin(t)
      PROVE  SeenEffect(u, x)
  <2>1. CASE u = t
    <3>1. seen'[u][x] = NoVal
      BY <1>6, <2>1 DEF Begin, SeenIsFiltered
    <3> QED
      BY <3>1 DEF SeenEffect
  <2>2. CASE u # t
    BY <1>6, <2>2 DEF Begin, SeenEffect, KeepsSeen, Clean
  <2> QED
    BY <2>1, <2>2
<1>7. ASSUME NEW t \in Thread, AbortDone(t) \/ Publish(t)
      PROVE  SeenEffect(u, x)
  <2>1. CASE u = t
    <3>1. seen'[u][x] = NoVal
      BY <1>7, <2>1 DEF AbortDone, Publish, Forgets, Nothing
    <3> QED
      BY <3>1 DEF SeenEffect
  <2>2. CASE u # t
    <3>1. /\ seen'[u] = seen[u]
          /\ forcedToAbort'[u] = forcedToAbort[u] /\ bloom'[u] = bloom[u]
          /\ pc'[u] = pc[u]
          /\ transactionsInFlight' \subseteq transactionsInFlight
      BY <1>7, <2>2 DEF AbortDone, Publish, Forgets
    <3> QED
      BY <3>1 DEF SeenEffect, KeepsSeen, Clean
  <2> QED
    BY <2>1, <2>2
<1>8. ASSUME NEW t \in Thread, Refused(t)
      PROVE  SeenEffect(u, x)
  BY <1>8 DEF Refused, SeenEffect, KeepsSeen, Clean
<1>9. ASSUME NEW t \in Thread, Decide(t)
      PROVE  SeenEffect(u, x)
  <2>1. /\ seen' = seen /\ bloom' = bloom
        /\ forcedToAbort[u] => forcedToAbort'[u]
        /\ pc[u] # "out" => pc'[u] # "out"
        /\ transactionsInFlight' \subseteq transactionsInFlight
    BY <1>9 DEF Decide
  <2> QED
    BY <2>1 DEF SeenEffect, KeepsSeen, Clean
<1> HIDE DEF TypeOK, Goto, Finish, history, txVars, listVars
<1> QED
  BY <1>1, <1>2, <1>4, <1>5, <1>6, <1>7, <1>8, <1>9 DEF Next

LEMMA FilterStep ==
  ASSUME TypeOK, SeenIsFiltered, [Next]_vars
  PROVE  SeenIsFiltered'
<1> SUFFICES ASSUME NEW t \in Thread, NEW x \in Obj, seen'[t][x] # NoVal
             PROVE  x \in bloom'[t] /\ pc'[t] # "out"
  BY DEF SeenIsFiltered
<1>1. KeepsSeen(t, x) \/ FirstLook(t, x)
  BY SeenStep DEF SeenEffect
<1> QED
  BY <1>1 DEF KeepsSeen, FirstLook, SeenIsFiltered

LEMMA RobbedGrows ==
  ASSUME [Next]_vars
  PROVE  robbed \subseteq robbed'
  BY StoreSteps DEF listVars, AbortDone, TakeOwnership, Delete, Publish,
     DeleteOwn, Restore, WriteOwn, history

(* What a commit decides to publish, the clean ones have not seen, since it  *)
(* dooms those whose filter answers for it; from then on nobody can look at  *)
(* it without finding its owner.                                             *)
LEMMA SparedStep ==
  ASSUME TypeOK, OwnersAreListed, SeenIsFiltered, PublishSpares, [Next]_vars
  PROVE  PublishSpares'
<1> SUFFICES ASSUME NEW t \in Thread, NEW u \in Thread, NEW x \in Obj,
                    x \notin robbed', Clean(t)', t # u, pc'[u] = "publish",
                    writeList'[u][x] # NoVal, seen'[t][x] # NoVal
             PROVE  FALSE
  BY DEF PublishSpares
<1>1. x \notin robbed
  BY RobbedGrows
<1>2. KeepsSeen(t, x) \/ FirstLook(t, x)
  BY SeenStep DEF SeenEffect
<1>3. CASE Decide(u)
  <2>1. /\ seen' = seen
        /\ writeList' = writeList
        /\ transactionsInFlight' = transactionsInFlight \ {u}
        /\ forcedToAbort'[t] = (forcedToAbort[t] \/ t \in Conflicts(u))
    BY <1>3 DEF Decide, history
  <2>2. t \notin Conflicts(u) /\ t \in transactionsInFlight /\ ~forcedToAbort[t]
    BY <2>1 DEF Clean
  <2>3. x \notin bloom[t]
    BY <2>1, <2>2 DEF Conflicts, Written
  <2>4. seen[t][x] # NoVal
    BY <2>1, <2>2
  <2> QED
    BY <2>3, <2>4 DEF SeenIsFiltered
<1>4. CASE pc[u] = "publish" /\ writeList'[u] = writeList[u]
  <2>1. owner[x] = u
    BY <1>1, <1>4, ListedObjects DEF Listed, HasOneWriter
  <2>2. ~FirstLook(t, x)
    BY <2>1, DirectAssumption DEF FirstLook
  <2>3. Clean(t) /\ seen[t][x] # NoVal
    BY <1>2, <2>2 DEF KeepsSeen
  <2> QED
    BY <1>1, <1>4, <2>3 DEF PublishSpares
<1> QED
  BY <1>3, <1>4, Publishers

(* So what a clean transaction has seen stays what is stored.                *)
LEMMA CurrentStep ==
  ASSUME TypeOK, OwnersAreListed, SeenIsFiltered, PublishSpares,
         DoomedOrCurrent, [Next]_vars
  PROVE  DoomedOrCurrent'
<1> SUFFICES ASSUME NEW t \in Thread, NEW x \in Obj, x \notin robbed',
                    Clean(t)', seen'[t][x] # NoVal
             PROVE  seen'[t][x] = StoredAt(x)'
  BY StoredIs, TypeStep DEF DoomedOrCurrent, Clean, TypeOK
<1>1. x \notin robbed
  BY RobbedGrows
<1>2. SeenIsFiltered'
  BY FilterStep
<1>3. KeepsSeen(t, x) \/ FirstLook(t, x)
  BY SeenStep DEF SeenEffect
<1>4. CASE FirstLook(t, x)
  BY <1>4 DEF FirstLook, listVars, StoredAt, Saved
<1>5. CASE KeepsSeen(t, x)
  <2>1. Clean(t) /\ seen[t][x] = seen'[t][x]
    BY <1>5 DEF KeepsSeen
  <2>2. seen[t][x] = StoredAt(x)
    BY <1>1, <2>1, StoredIs DEF DoomedOrCurrent, Clean
  <2>3. ASSUME NEW u \in Thread, PublishedBy(u, x)
        PROVE  FALSE
    <3>1. u = t \/ seen[t][x] = NoVal
      BY <1>1, <2>1, <2>3 DEF PublishSpares, PublishedBy, Written
    <3>2. pc'[t] # "out"
      BY <1>2 DEF SeenIsFiltered
    <3> QED
      BY <2>1, <2>3, <3>1, <3>2 DEF PublishedBy
  <2> QED
    BY <2>1, <2>2, <2>3, StoredStep
<1> QED
  BY <1>3, <1>4, <1>5

(* What a transaction in flight that is not doomed has seen of objects that  *)
(* nobody owned is what is stored: every commit that overwrites something    *)
(* dooms those that have read it.                                            *)
THEOREM DoomedOrCurrentCorrect == Spec => []DoomedOrCurrent
<1> DEFINE Inv == SeenIsFiltered /\ PublishSpares /\ DoomedOrCurrent
<1>1. Init => Inv
  <2> SUFFICES ASSUME Init PROVE Inv
    OBVIOUS
  <2>1. SeenIsFiltered
    BY DEF Init, SeenIsFiltered, Nothing
  <2>2. PublishSpares
    BY DEF Init, PublishSpares, Clean
  <2>3. DoomedOrCurrent
    BY DEF Init, DoomedOrCurrent
  <2> QED
    BY <2>1, <2>2, <2>3
<1>2. TypeOK /\ OwnersAreListed /\ Inv /\ [Next]_vars => Inv'
  BY FilterStep, SparedStep, CurrentStep
<1>3. Inv => DoomedOrCurrent
  OBVIOUS
<1> HIDE DEF Inv
<1> QED
  BY <1>1, <1>2, <1>3, TypeCorrect, OwnersCorrect, PTL DEF Spec

-----------------------------------------------------------------------------
(* Refinement of AtomicStore.                                               *)

(* Who is about to end is in flight, who publishes holds the general mutex, *)
(* and all that a publisher has seen is what is stored.                     *)
EndsInFlight ==
  \A t \in Thread :
    pc[t] \notin {"out", "abort", "publish"} => t \in transactionsInFlight
OnePublisher == \A t \in Thread : pc[t] = "publish" => transactionMutex = t
PublisherCurrent ==
  \A t \in Thread, x \in Obj \ robbed :
    pc[t] = "publish" /\ seen[t][x] # NoVal => seen[t][x] = StoredAt(x)

LEMMA EndsInFlightStep ==
  ASSUME TypeOK, EndsInFlight, [Next]_vars
  PROVE  EndsInFlight'
<1> USE DEF TypeOK, EndsInFlight, Goto, Finish, Forgets, txVars
<1>1. CASE UNCHANGED vars
  BY <1>1 DEF vars
<1>2. ASSUME NEW t \in Thread,
             \/ Doomed(t) \/ EarlyTest(t) \/ EarlyInsert(t)
             \/ LateRead(t) \/ LateReadOfCopy(t)
             \/ \E x \in Obj : Start(t, x) \/ ReadAgain(t, x) \/ DeleteOwn(t, x)
             \/ \E x \in Obj, v \in Val : WriteOwn(t, x, v)
             \/ \E v \in Val : TakeOwnership(t, v)
             \/ Beaten(t) \/ Delete(t) \/ LockAndAbort(t) \/ Destructor(t)
             \/ \E x \in Obj : Restore(t, x)
             \/ End(t) \/ DoomedEnd(t)
      PROVE  EndsInFlight'
  <2>1. /\ transactionsInFlight' = transactionsInFlight
        /\ \A u \in Thread \ {t} : pc'[u] = pc[u]
    BY <1>2 DEF Doomed, EarlyTest, EarlyInsert, LateRead, LateReadOfCopy, Start,
       ReadAgain, DeleteOwn, WriteOwn, TakeOwnership, Beaten, Delete,
       LockAndAbort, Destructor, Restore, End, DoomedEnd
  <2>2. \/ pc[t] \notin {"out", "abort", "publish"}
        \/ pc'[t] \in {"out", "abort", "publish"}
    BY <1>2 DEF Doomed, EarlyTest, EarlyInsert, LateRead, LateReadOfCopy, Start,
       ReadAgain, DeleteOwn, WriteOwn, TakeOwnership, Beaten, Delete,
       LockAndAbort, Destructor, Restore, End, DoomedEnd
  <2> QED
    BY <2>1, <2>2
<1>3. ASSUME NEW t \in Thread,
             \/ Begin(t) \/ AbortDone(t) \/ Decide(t) \/ Refused(t) \/ Publish(t)
      PROVE  EndsInFlight'
  BY <1>3 DEF Begin, AbortDone, Decide, Refused, Publish
<1> QED
  BY <1>1, <1>2, <1>3 DEF Next

LEMMA OnePublisherStep ==
  ASSUME TypeOK, OnePublisher, [Next]_vars
  PROVE  OnePublisher'
<1> USE DirectAssumption
    DEF TypeOK, OnePublisher, Goto, Finish, Forgets, GeneralFree
<1>1. CASE UNCHANGED vars
  BY <1>1 DEF vars
<1>2. ASSUME NEW t \in Thread,
             \/ Begin(t) \/ Doomed(t) \/ EarlyTest(t) \/ EarlyInsert(t)
             \/ LateRead(t) \/ LateReadOfCopy(t)
             \/ \E x \in Obj : Start(t, x) \/ ReadAgain(t, x) \/ DeleteOwn(t, x)
             \/ \E x \in Obj, v \in Val : WriteOwn(t, x, v)
             \/ \E v \in Val : TakeOwnership(t, v)
             \/ Beaten(t) \/ Delete(t) \/ Destructor(t)
             \/ \E x \in Obj : Restore(t, x)
             \/ End(t) \/ Refused(t)
      PROVE  OnePublisher'
  <2>1. transactionMutex' = transactionMutex
    BY <1>2 DEF Begin, Doomed, EarlyTest, EarlyInsert, LateRead, LateReadOfCopy,
       Start, ReadAgain, DeleteOwn, WriteOwn, TakeOwnership, Beaten, Delete,
       Destructor, Restore, End, Refused
  <2> HIDE DEF OnePublisher, GeneralFree
  <2>2. \/ pc' = pc /\ pc[t] # "publish"
        \/ \E l \in Location \ {"publish"} : Goto(t, l)
    <3> USE DEF Location
    <3>1. CASE \/ \E x \in Obj : ReadAgain(t, x) \/ DeleteOwn(t, x)
               \/ \E x \in Obj, v \in Val : WriteOwn(t, x, v)
               \/ \E x \in Obj : Restore(t, x)
      BY <3>1 DEF ReadAgain, DeleteOwn, WriteOwn, Restore
    <3>2. CASE \/ Begin(t) \/ Doomed(t) \/ EarlyInsert(t)
               \/ LateRead(t) \/ LateReadOfCopy(t)
               \/ \E v \in Val : TakeOwnership(t, v)
      BY <3>2 DEF Begin, Doomed, EarlyInsert, LateRead, LateReadOfCopy,
         TakeOwnership
    <3>3. CASE Beaten(t) \/ Destructor(t) \/ End(t) \/ Refused(t)
      BY <3>3 DEF Beaten, Destructor, End, Refused
    <3>4. CASE EarlyTest(t)
      BY <3>4 DEF EarlyTest
    <3>5. CASE \E x \in Obj : Start(t, x)
      BY <3>5 DEF Start
    <3>6. CASE Delete(t)
      BY <3>6 DEF Delete
    <3> QED
      BY <1>2, <3>1, <3>2, <3>3, <3>4, <3>5, <3>6
  <2>3. \A u \in Thread : pc'[u] = "publish" => pc[u] = "publish"
    BY <2>2
  <2> QED
    BY <2>1, <2>3 DEF OnePublisher
<1>3. ASSUME NEW t \in Thread, LockAndAbort(t)
      PROVE  OnePublisher'
  BY <1>3 DEF LockAndAbort
<1>4. ASSUME NEW t \in Thread, AbortDone(t) \/ DoomedEnd(t)
      PROVE  OnePublisher'
  BY <1>4 DEF AbortDone, DoomedEnd
<1>5. ASSUME NEW t \in Thread, Decide(t)
      PROVE  OnePublisher'
  <2>1. /\ transactionMutex = NoThread /\ transactionMutex' = t
        /\ \A u \in Thread \ {t} : pc'[u] = pc[u]
    BY <1>5 DEF Decide
  <2>2. \A u \in Thread \ {t} : pc[u] # "publish"
    BY <2>1
  <2> QED
    BY <2>1, <2>2
<1>6. ASSUME NEW t \in Thread, Publish(t)
      PROVE  OnePublisher'
  <2>1. /\ pc[t] = "publish" /\ pc'[t] = "out"
        /\ \A u \in Thread \ {t} : pc'[u] = pc[u]
    BY <1>6 DEF Publish
  <2>2. \A u \in Thread \ {t} : pc[u] # "publish"
    BY <2>1
  <2> QED
    BY <2>1, <2>2
<1> QED
  BY <1>1, <1>2, <1>3, <1>4, <1>5, <1>6 DEF Next

(* A commit is decided by a transaction that is not doomed, and until it is  *)
(* done no other commit can change what it has seen.                         *)
LEMMA PublisherStep ==
  ASSUME TypeOK, OwnersAreListed, DoomedOrCurrent, SeenIsFiltered,
         EndsInFlight, OnePublisher, PublisherCurrent, [Next]_vars
  PROVE  PublisherCurrent'
<1> SUFFICES ASSUME NEW t \in Thread, NEW x \in Obj, x \notin robbed',
                    pc'[t] = "publish", seen'[t][x] # NoVal
             PROVE  seen'[t][x] = StoredAt(x)'
  BY DEF PublisherCurrent
<1>1. x \notin robbed
  BY RobbedGrows
<1>2. CASE Decide(t)
  <2>1. UNCHANGED <<seen, mem, owner, writeList>>
    BY <1>2 DEF Decide, history
  <2>2. pc[t] = "end" /\ ~forcedToAbort[t]
    BY <1>2 DEF Decide
  <2>3. t \in transactionsInFlight
    BY <2>2 DEF EndsInFlight
  <2>4. seen[t][x] = StoredAt(x)
    BY <1>1, <2>1, <2>2, <2>3, StoredIs DEF DoomedOrCurrent
  <2> QED
    BY <2>1, <2>4 DEF StoredAt, Saved
<1>3. CASE pc[t] = "publish"
  <2>1. KeepsSeen(t, x) \/ FirstLook(t, x)
    BY SeenStep DEF SeenEffect
  <2>2. CASE FirstLook(t, x)
    BY <2>2 DEF FirstLook, listVars, StoredAt, Saved
  <2>3. CASE KeepsSeen(t, x)
    <3>1. seen'[t][x] = seen[t][x] /\ seen[t][x] = StoredAt(x)
      BY <1>1, <1>3, <2>3 DEF KeepsSeen, PublisherCurrent
    <3>2. ASSUME NEW u \in Thread, PublishedBy(u, x)
          PROVE  FALSE
      <4>1. u = t
        BY <1>3, <3>2 DEF OnePublisher, PublishedBy
      <4> QED
        BY <3>2, <4>1 DEF PublishedBy
    <3> QED
      BY <3>1, <3>2, StoredStep
  <2> QED
    BY <2>1, <2>2, <2>3
<1> QED
  BY <1>2, <1>3, Publishers

(* Two tables that differ in one entry.                                     *)
LEMMA OneEntry ==
  ASSUME NEW f, f = [u \in Thread |-> [x \in Obj |-> f[u][x]]],
         NEW g, g = [u \in Thread |-> [x \in Obj |-> g[u][x]]],
         NEW t \in Thread, NEW y \in Obj,
         \A u \in Thread, x \in Obj : u # t \/ x # y => g[u][x] = f[u][x]
  PROVE  g = [f EXCEPT ![t][y] = g[t][y]]
<1>1. g[t] = [f[t] EXCEPT ![y] = g[t][y]]
  OBVIOUS
<1>2. \A u \in Thread \ {t} : g[u] = f[u]
  OBVIOUS
<1> QED
  BY <1>1, <1>2

(* How the mapped state moves.                                              *)
LEMMA MappedAt ==
  ASSUME NEW t \in Thread, NEW x \in Obj
  PROVE  /\ observed[t][x] = {seen[t][x]} \ {NoVal}
         /\ observed'[t][x] = {seen'[t][x]} \ {NoVal}
         /\ inPlace[t][x] = IF writeList[t][x] # NoVal THEN mem[x] ELSE NoVal
         /\ inPlace'[t][x] = IF writeList'[t][x] # NoVal THEN mem'[x] ELSE NoVal
BY DEF observed, inPlace, Written

(* Nothing is published.                                                    *)
LEMMA StoredKept ==
  ASSUME TypeOK, OwnersAreListed, [Next]_vars, robbed' = {},
         \A t \in Thread : pc[t] = "publish" => pc'[t] # "out"
  PROVE  stored' = stored
<1>1. \A x \in Obj : StoredAt(x)' = StoredAt(x)
  BY StoredStep DEF PublishedBy
<1>2. \A x \in Obj : stored'[x] = stored[x]
  BY <1>1, StoredIs
<1> QED
  BY <1>2 DEF stored

LEMMA MapsToStutter ==
  ASSUME UNCHANGED <<mem, writeList, seen>>, stored' = stored, inside' = inside
  PROVE  UNCHANGED InPlace!avars
<1>1. inPlace' = inPlace /\ observed' = observed
  BY DEF inPlace, observed, Written
<1> QED
  BY <1>1 DEF InPlace!avars

(* A step of t that concerns the object y.                                  *)
LEMMA MapsToWork ==
  ASSUME NEW t \in Thread, NEW y \in Obj, pc[t] # "out",
         stored' = stored, inside' = inside,
         \A u \in Thread, x \in Obj : u # t \/ x # y =>
           /\ seen'[u][x] = seen[u][x]
           /\ inPlace'[u][x] = inPlace[u][x],
         \/ seen'[t][y] = seen[t][y]
         \/ seen[t][y] = NoVal /\ seen'[t][y] \in Val,
         inPlace'[t][y] \in Val \cup {NoVal}
  PROVE  InPlace!Act
<1> DEFINE r == IF seen[t][y] = seen'[t][y] THEN {} ELSE {seen'[t][y]}
<1>1. r \in SUBSET Val
  OBVIOUS
<1>2. observed' = [observed EXCEPT ![t][y] = @ \cup r]
  <2>1. observed'[t][y] = observed[t][y] \cup r
    BY MappedAt, DirectAssumption
  <2>2. ASSUME NEW u \in Thread, NEW x \in Obj, u # t \/ x # y
        PROVE  observed'[u][x] = observed[u][x]
    <3>1. seen'[u][x] = seen[u][x]
      BY <2>2
    <3> QED
      BY <3>1 DEF observed
  <2>3. /\ observed = [u \in Thread |-> [x \in Obj |-> observed[u][x]]]
        /\ observed' = [u \in Thread |-> [x \in Obj |-> observed'[u][x]]]
    BY DEF observed
  <2>4. observed' = [observed EXCEPT ![t][y] = observed'[t][y]]
    BY <2>2, <2>3, OneEntry
  <2> HIDE DEF r
  <2> QED
    BY <2>1, <2>4
<1>3. inPlace' = [inPlace EXCEPT ![t][y] = inPlace'[t][y]]
  <2>1. /\ inPlace = [u \in Thread |-> [x \in Obj |-> inPlace[u][x]]]
        /\ inPlace' = [u \in Thread |-> [x \in Obj |-> inPlace'[u][x]]]
    BY DEF inPlace
  <2> QED
    BY <2>1, OneEntry
<1> HIDE DEF r
<1>4. t \in inside
  BY DEF inside
<1>5. InPlace!Work(t)
  BY <1>1, <1>2, <1>3, <1>4 DEF InPlace!Work
<1> QED
  BY <1>5 DEF InPlace!Act

(* An owner's list grows with what it takes and its values are those of its  *)
(* objects.                                                                  *)
LEMMA OwnersEntries ==
  ASSUME TypeOK, OwnersAreListed, robbed = {},
         NEW t \in Thread, NEW u \in Thread, NEW x \in Obj
  PROVE  /\ writeList[u][x] # NoVal => owner[x] = u
         /\ owner[x] = t /\ x \in Usable(t) => writeList[t][x] # NoVal
BY ListedObjects, DirectAssumption
   DEF Listed, HasOneWriter, OwnerHasIt, Usable, TypeOK

LEMMA ReadRefines ==
  ASSUME TypeOK, NEW t \in Thread, NEW y \in Obj, Sees(t, y), pc[t] # "out",
         stored' = stored, inside' = inside, UNCHANGED <<mem, writeList>>
  PROVE  InPlace!Act
<1>1. \A u \in Thread \ {t} : seen'[u] = seen[u]
  BY SeesEffect
<1>2. inPlace' = inPlace
  BY DEF inPlace, Written
<1>3. \A u \in Thread, x \in Obj : u # t \/ x # y =>
        /\ seen'[u][x] = seen[u][x] /\ inPlace'[u][x] = inPlace[u][x]
  BY <1>2, SeesEffect
<1>4. \/ seen'[t][y] = seen[t][y]
      \/ seen[t][y] = NoVal /\ seen'[t][y] \in Val
  BY DEF Sees, TypeOK
<1>5. inPlace'[t][y] \in Val \cup {NoVal}
  BY <1>2, MappedAt DEF TypeOK
<1> QED
  BY <1>3, <1>4, <1>5, MapsToWork

LEMMA WriteRefines ==
  ASSUME TypeOK, NEW t \in Thread, NEW y \in Obj, pc[t] # "out",
         stored' = stored, inside' = inside, seen' = seen,
         NEW v \in Val, mem' = [mem EXCEPT ![y] = v],
         \A u \in Thread \ {t} : writeList[u][y] = NoVal,
         \A u \in Thread, x \in Obj :
           u # t \/ x # y => writeList'[u][x] = writeList[u][x]
  PROVE  InPlace!Act
<1>1. ASSUME NEW u \in Thread, NEW x \in Obj, u # t \/ x # y
      PROVE  inPlace'[u][x] = inPlace[u][x]
  <2>1. writeList'[u][x] = writeList[u][x]
    BY <1>1
  <2>2. x = y => writeList[u][x] = NoVal
    BY <1>1
  <2>3. x # y => mem'[x] = mem[x]
    BY DEF TypeOK
  <2> QED
    BY <2>1, <2>2, <2>3, MappedAt
<1>2. inPlace'[t][y] \in Val \cup {NoVal}
  BY MappedAt DEF TypeOK
<1> QED
  BY <1>1, <1>2, MapsToWork

LEMMA EndRefines ==
  ASSUME TypeOK, NEW t \in Thread, Forgets(t), pc[t] # "out", mem' = mem,
         \A u \in Thread \ {t} : writeList'[u] = writeList[u],
         \A x \in Obj : writeList'[t][x] = NoVal
  PROVE  InPlace!Stop(t)
<1>1. t \in inside /\ inside' = inside \ {t}
  BY DEF inside, Forgets, Goto, TypeOK
<1>2. observed' = [observed EXCEPT ![t] = InPlace!Unread]
  <2>1. seen' = [seen EXCEPT ![t] = Nothing]
    BY DEF Forgets
  <2>2. \A u \in Thread, x \in Obj :
          seen'[u][x] = IF u = t THEN NoVal ELSE seen[u][x]
    BY <2>1 DEF Nothing, TypeOK
  <2> QED
    BY <2>2 DEF observed, InPlace!Unread
<1>3. inPlace' = [inPlace EXCEPT ![t] = InPlace!Nothing]
  BY DEF inPlace, Written, InPlace!Nothing
<1> QED
  BY <1>1, <1>2, <1>3 DEF InPlace!Stop

(* Each step maps to one of AtomicStore or to a stutter.                     *)
LEMMA RefinementStep ==
  ASSUME TypeOK, OwnersAreListed, PublisherCurrent, [Next]_vars, robbed' = {}
  PROVE  [InPlace!Act]_(InPlace!avars)
<1>1. robbed = {}
  BY RobbedGrows
<1> DEFINE Quiet == \A t \in Thread : pc[t] = "publish" => pc'[t] # "out"
<1>2. Quiet => stored' = stored
  BY StoredKept
<1> HIDE DEF Quiet
<1>3. CASE UNCHANGED vars
  <2>1. UNCHANGED <<mem, writeList, seen>> /\ stored' = stored
        /\ inside' = inside
    BY <1>3 DEF vars, history, stored, inside
  <2> QED
    BY <2>1, MapsToStutter
<1>4. ASSUME NEW t \in Thread,
             \/ Doomed(t) \/ EarlyTest(t) \/ LateReadOfCopy(t)
             \/ \E x \in Obj : Start(t, x) \/ DeleteOwn(t, x)
             \/ Beaten(t) \/ Delete(t) \/ LockAndAbort(t) \/ Destructor(t)
             \/ End(t) \/ DoomedEnd(t) \/ Decide(t) \/ Refused(t)
      PROVE  UNCHANGED InPlace!avars
  <2>1. UNCHANGED <<mem, writeList, seen>>
    BY <1>4 DEF Doomed, EarlyTest, LateReadOfCopy, Start, DeleteOwn, Beaten,
       Delete, LockAndAbort, Destructor, End, DoomedEnd, Decide, Refused, history
  <2>2. \A u \in Thread : pc[u] # "out" <=> pc'[u] # "out"
    <3>1. CASE \/ Doomed(t) \/ EarlyTest(t) \/ LateReadOfCopy(t)
               \/ \E x \in Obj : Start(t, x) \/ DeleteOwn(t, x)
      BY <3>1 DEF Doomed, EarlyTest, LateReadOfCopy, Start, DeleteOwn, Goto,
         Finish, TypeOK
    <3>2. CASE Beaten(t) \/ Delete(t) \/ LockAndAbort(t) \/ Destructor(t)
      BY <3>2 DEF Beaten, Delete, LockAndAbort, Destructor, Goto, Finish, TypeOK
    <3>3. CASE End(t) \/ DoomedEnd(t) \/ Decide(t) \/ Refused(t)
      BY <3>3 DEF End, DoomedEnd, Decide, Refused, Goto, TypeOK
    <3> QED
      BY <1>4, <3>1, <3>2, <3>3
  <2>3. Quiet /\ inside' = inside
    BY <2>2 DEF inside, Quiet
  <2> QED
    BY <1>2, <2>1, <2>3, MapsToStutter
<1>5. ASSUME NEW t \in Thread, Begin(t)
      PROVE  InPlace!Act
  <2>1. UNCHANGED <<mem, writeList, seen>> /\ pc[t] = "out"
        /\ pc' = [pc EXCEPT ![t] = "run"]
    BY <1>5 DEF Begin, history, Goto
  <2>2. Quiet /\ t \notin inside /\ inside' = inside \cup {t}
    BY <2>1 DEF inside, Quiet, TypeOK
  <2>3. observed' = observed /\ inPlace' = inPlace
    BY <2>1 DEF observed, inPlace, Written
  <2>4. InPlace!Begin(t)
    BY <1>2, <2>2, <2>3 DEF InPlace!Begin
  <2> QED
    BY <2>4 DEF InPlace!Act
<1>6. ASSUME NEW t \in Thread, NEW x \in Obj, ReadAgain(t, x)
      PROVE  InPlace!Act
  <2>1. Sees(t, x) /\ pc[t] = "run" /\ UNCHANGED <<mem, writeList, pc>>
    BY <1>6 DEF ReadAgain
  <2>2. Quiet /\ inside' = inside
    BY <2>1 DEF Quiet, inside
  <2> QED
    BY <1>2, <2>1, <2>2, ReadRefines
<1>7. ASSUME NEW t \in Thread, EarlyInsert(t) \/ LateRead(t)
      PROVE  InPlace!Act
  <2>1. /\ Sees(t, target[t]) /\ UNCHANGED <<mem, writeList>>
        /\ pc[t] \in {"insert", "read"} /\ pc' = [pc EXCEPT ![t] = "run"]
    BY <1>7 DEF EarlyInsert, LateRead, Finish, Goto
  <2>2. Quiet /\ inside' = inside
    BY <2>1 DEF Quiet, inside, TypeOK
  <2>3. target[t] \in Obj /\ pc[t] # "out"
    BY <2>1 DEF TypeOK
  <2> QED
    BY <1>2, <2>1, <2>2, <2>3, ReadRefines
<1>8. ASSUME NEW t \in Thread, NEW x \in Obj, NEW v \in Val, WriteOwn(t, x, v)
      PROVE  InPlace!Act
  <2>1. /\ mem' = [mem EXCEPT ![x] = v] /\ UNCHANGED <<writeList, seen, pc>>
        /\ pc[t] = "run" /\ owner[x] = t
    BY <1>8 DEF WriteOwn, history, Owns
  <2>2. Quiet /\ inside' = inside
    BY <2>1 DEF Quiet, inside
  <2>3. \A u \in Thread \ {t} : writeList[u][x] = NoVal
    BY <1>1, <2>1, OwnersEntries
  <2> QED
    BY <1>2, <2>1, <2>2, <2>3, WriteRefines
<1>9. ASSUME NEW t \in Thread, NEW v \in Val, TakeOwnership(t, v)
      PROVE  InPlace!Act
  <2> DEFINE x == target[t]
  <2>1. /\ mem' = [mem EXCEPT ![x] = v] /\ seen' = seen
        /\ writeList' = [writeList EXCEPT ![t][x] = mem[x]]
        /\ pc[t] = "write" /\ pc' = [pc EXCEPT ![t] = "run"]
        /\ owner[x] = NoThread
    BY <1>9 DEF TakeOwnership, history, Finish, Goto
  <2>2. x \in Obj
    BY <2>1 DEF TypeOK
  <2>3. Quiet /\ inside' = inside
    BY <2>1 DEF Quiet, inside, TypeOK
  <2>4. \A u \in Thread \ {t} : writeList[u][x] = NoVal
    BY <1>1, <2>1, <2>2, OwnersEntries, DirectAssumption
  <2>5. \A u \in Thread, y \in Obj :
          u # t \/ y # x => writeList'[u][y] = writeList[u][y]
    BY <2>1 DEF TypeOK
  <2> HIDE DEF x
  <2> QED
    BY <1>2, <2>1, <2>2, <2>3, <2>4, <2>5, WriteRefines
<1>10. ASSUME NEW t \in Thread, NEW x \in Obj, Restore(t, x)
       PROVE  InPlace!Act
  <2>1. /\ writeList[t][x] # NoVal
        /\ mem' = [mem EXCEPT ![x] = writeList[t][x]]
        /\ writeList' = [writeList EXCEPT ![t][x] = NoVal]
        /\ UNCHANGED <<seen, pc>> /\ pc[t] = "abort"
    BY <1>10 DEF Restore, Written, history
  <2>2. Quiet /\ inside' = inside
    BY <2>1 DEF Quiet, inside
  <2>3. writeList[t][x] \in Val
    BY <2>1 DEF TypeOK
  <2>4. \A u \in Thread \ {t} : writeList[u][x] = NoVal
    <3>1. owner[x] = t
      BY <1>1, <2>1, OwnersEntries
    <3> QED
      BY <1>1, <3>1, OwnersEntries
  <2>5. \A u \in Thread, y \in Obj :
          u # t \/ y # x => writeList'[u][y] = writeList[u][y]
    BY <2>1 DEF TypeOK
  <2> QED
    BY <1>2, <2>1, <2>2, <2>3, <2>4, <2>5, WriteRefines
<1>11. ASSUME NEW t \in Thread, AbortDone(t)
       PROVE  InPlace!Act
  <2>1. /\ Forgets(t) /\ UNCHANGED <<mem, writeList>> /\ pc[t] = "abort"
        /\ \A x \in Obj : writeList[t][x] = NoVal
    BY <1>11 DEF AbortDone, Written
  <2>2. Quiet
    BY <2>1 DEF Quiet, Forgets, Goto, TypeOK
  <2>3. InPlace!Stop(t)
    BY <2>1, EndRefines
  <2>4. InPlace!AbortTx(t)
    BY <1>2, <2>2, <2>3 DEF InPlace!AbortTx
  <2> QED
    BY <2>4 DEF InPlace!Act
<1>12. ASSUME NEW t \in Thread, Publish(t)
       PROVE  InPlace!Act
  <2>1. /\ Forgets(t) /\ mem' = mem /\ pc[t] = "publish"
        /\ writeList' = [writeList EXCEPT ![t] = Nothing]
        /\ owner' = [x \in Obj |-> IF writeList[t][x] # NoVal THEN NoThread
                                   ELSE owner[x]]
    BY <1>12 DEF Publish, Written
  <2>2. \A u \in Thread, x \in Obj :
          writeList'[u][x] = IF u = t THEN NoVal ELSE writeList[u][x]
    BY <2>1 DEF Nothing, TypeOK
  <2>3. InPlace!Stop(t)
    <3>1. \A u \in Thread \ {t} : writeList'[u] = writeList[u]
      BY <2>1 DEF TypeOK
    <3>2. \A x \in Obj : writeList'[t][x] = NoVal
      BY <2>2
    <3> QED
      BY <2>1, <3>1, <3>2, EndRefines
  <2>4. \A x \in Obj : observed[t][x] \subseteq {stored[x]}
    BY <1>1, <2>1, StoredIs, MappedAt DEF PublisherCurrent
  <2>5. ASSUME NEW x \in Obj
        PROVE  stored'[x] = IF inPlace[t][x] = NoVal THEN stored[x]
                            ELSE inPlace[t][x]
    <3>1. mem[x] # NoVal
      BY DirectAssumption DEF TypeOK
    <3>2. CASE writeList[t][x] # NoVal
      <4>1. owner'[x] = NoThread
        BY <2>1, <3>2
      <4>2. stored'[x] = mem[x]
        BY <2>1, <4>1, StoredIs DEF StoredAt, Saved
      <4> QED
        BY <3>1, <3>2, <4>2, MappedAt
    <3>3. CASE writeList[t][x] = NoVal
      <4>1. owner'[x] = owner[x] /\ owner[x] \in Thread \cup {NoThread}
        BY <2>1, <3>3 DEF TypeOK
      <4>2. StoredAt(x)' = StoredAt(x)
        BY <2>1, <2>2, <3>3, <4>1 DEF StoredAt, Saved
      <4> QED
        BY <3>3, <4>2, StoredIs, MappedAt
    <3> QED
      BY <3>2, <3>3
  <2>6. stored' = [x \in Obj |-> IF inPlace[t][x] = NoVal THEN stored[x]
                                 ELSE inPlace[t][x]]
    <3>1. stored' = [x \in Obj |-> stored'[x]]
      BY DEF stored
    <3> QED
      BY <2>5, <3>1
  <2>7. InPlace!CommitTx(t)
    BY <2>3, <2>4, <2>6 DEF InPlace!CommitTx
  <2> QED
    BY <2>7 DEF InPlace!Act
<1> QED
  BY <1>3, <1>4, <1>5, <1>6, <1>7, <1>8, <1>9, <1>10, <1>11, <1>12 DEF Next

(* Until an object is stolen, see direct_stolen, transactions with direct    *)
(* update are atomic: every commit publishes all it wrote in place at one    *)
(* instant, at which all it has read from objects without an owner is        *)
(* current, and an abort, undone object by object, is as if the transaction  *)
(* had never run.                                                            *)
THEOREM CommitsAtOnceCorrect == Spec => CommitsAtOnce
<1> DEFINE Inv == /\ SeenIsFiltered /\ PublishSpares
                  /\ EndsInFlight /\ OnePublisher /\ PublisherCurrent
<1>1. Init => Inv
  <2> SUFFICES ASSUME Init PROVE Inv
    OBVIOUS
  <2>1. SeenIsFiltered
    BY DEF Init, SeenIsFiltered, Nothing
  <2>2. PublishSpares
    BY DEF Init, PublishSpares, Clean
  <2>3. EndsInFlight /\ OnePublisher /\ PublisherCurrent
    BY DEF Init, EndsInFlight, OnePublisher, PublisherCurrent
  <2> QED
    BY <2>1, <2>2, <2>3
<1>2. TypeOK /\ OwnersAreListed /\ DoomedOrCurrent /\ Inv /\ [Next]_vars
        => Inv'
  BY FilterStep, SparedStep, EndsInFlightStep, OnePublisherStep, PublisherStep
<1>3. TypeOK /\ OwnersAreListed /\ Inv /\ [Next]_vars
        => [robbed' = {} => [InPlace!Act]_(InPlace!avars)]_vars
  BY RefinementStep
<1>4. Init => InPlace!Start
  <2> SUFFICES ASSUME Init PROVE InPlace!Start
    OBVIOUS
  <2>1. stored \in [Obj -> Val]
    BY DEF Init, stored
  <2>2. inside = {}
    BY DEF Init, inside
  <2>3. observed = [t \in Thread |-> InPlace!Unread]
    BY DEF Init, observed, Nothing, InPlace!Unread
  <2>4. inPlace = [t \in Thread |-> InPlace!Nothing]
    BY DEF Init, inPlace, Written, Nothing, InPlace!Nothing
  <2> QED
    BY <2>1, <2>2, <2>3, <2>4 DEF InPlace!Start
<1> HIDE DEF Inv
<1> QED
  BY <1>1, <1>2, <1>3, <1>4, TypeCorrect, OwnersCorrect, DoomedOrCurrentCorrect,
     PTL DEF Spec, CommitsAtOnce
=============================================================================
