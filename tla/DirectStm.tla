------------------------------- MODULE DirectStm -------------------------------
(***************************************************************************)
(* Transactions with direct update (do_direct_updating()): a write goes to *)
(* the object itself, which is then owned by the writer's thread, and the  *)
(* writer's list keeps a copy of the old value for an abort (direct_read,  *)
(* direct_write and direct_delete_memory in transaction.hpp; direct_abort, *)
(* invalidating_direct_end_transaction and invalidating_direct_commit in   *)
(* transaction_impl.hpp).                                                  *)
(*                                                                         *)
(* A thread runs one transaction at a time (nesting is in NestedTx, the    *)
(* gate in front of the in-flight list and irrevocable transactions are in *)
(* Latm).  Filters are exact: one that answers for too much only takes the *)
(* paths of this module more often.  The mutex of a thread is held while   *)
(* it aborts, and all of them are from "publish" on.                       *)
(*                                                                         *)
(* A definition introduced as "Fault:" is not part of the specification.   *)
(***************************************************************************)
EXTENDS FiniteSets

CONSTANTS
  Thread, Obj, Val,
  Late,       \* the values of directLateWriteReadConflict_ considered
  CmAnswer,   \* what permission_to_abort() returns
  NoThread, NoObj, NoVal

ASSUME DirectAssumption ==
  /\ Late \subseteq BOOLEAN
  /\ CmAnswer \subseteq BOOLEAN
  /\ NoThread \notin Thread
  /\ NoObj \notin Obj
  /\ NoVal \notin Val

VARIABLES
  late,                 \* directLateWriteReadConflict_
  mem,                  \* the objects themselves
  owner,                \* transaction_thread() of each object
  writeList,            \* the copies each thread keeps, NoVal where it has none
  deletedMemoryList,
  deletionBuffer,       \* what commits have deleted
  bloom,
  transactionsInFlight,
  forcedToAbort,
  transactionMutex,     \* who holds the general mutex
  target,               \* the object of the operation in progress
  seen,                 \* history: what the transaction read, see Sees
  robbed,               \* history: objects taken from their owner, see AbortDone
  pc

txVars == <<transactionsInFlight, forcedToAbort>>
history == <<seen, robbed>>
vars == <<late, mem, owner, writeList, deletedMemoryList, deletionBuffer, bloom,
          txVars, transactionMutex, target, history, pc>>

Nothing == [x \in Obj |-> NoVal]

Init ==
  /\ late \in Late
  /\ mem \in [Obj -> Val]
  /\ owner = [x \in Obj |-> NoThread]
  /\ writeList = [t \in Thread |-> Nothing]
  /\ deletedMemoryList = [t \in Thread |-> {}]
  /\ deletionBuffer = {}
  /\ bloom = [t \in Thread |-> {}]
  /\ transactionsInFlight = {}
  /\ forcedToAbort = [t \in Thread |-> FALSE]
  /\ transactionMutex = NoThread
  /\ target = [t \in Thread |-> NoObj]
  /\ seen = [t \in Thread |-> Nothing]
  /\ robbed = {}
  /\ pc = [t \in Thread |-> "out"]

-----------------------------------------------------------------------------
Goto(t, l) == pc' = [pc EXCEPT ![t] = l]
GeneralFree == transactionMutex = NoThread
Owns(t, x) == owner[x] = t
Written(t) == {x \in Obj : writeList[t][x] # NoVal}
IsWriting(t) == Written(t) # {} \/ deletedMemoryList[t] # {}

(* A program does not touch what it has deleted.                           *)
Usable(t) == Obj \ (deletionBuffer \cup deletedMemoryList[t])

(* The mutexes of all threads can be taken, and that of one.               *)
AllTxUnlocked(t) == \A u \in Thread \ {t} : pc[u] # "abort"
TxUnlocked == \A u \in Thread : pc[u] # "publish"

(* What the objects are worth without the transactions that own them.      *)
stored == [x \in Obj |->
  IF owner[x] # NoThread /\ writeList[owner[x]][x] # NoVal
  THEN writeList[owner[x]][x] ELSE mem[x]]

(* The caller of read() looks at the object.  The first value of an object *)
(* that nobody owned is kept; what a reader finds in an object that        *)
(* another transaction owns is that transaction's business.                *)
Sees(t, x) ==
  /\ seen' = [seen EXCEPT ![t][x] =
       IF owner[x] = NoThread /\ @ = NoVal THEN mem[x] ELSE @]
  /\ UNCHANGED robbed

(* The transaction is over.                                                *)
Forgets(t) ==
  /\ seen' = [seen EXCEPT ![t] = Nothing]
  /\ Goto(t, "out")

(* The operation on its target is over.                                    *)
Finish(t) == Goto(t, "run") /\ target' = [target EXCEPT ![t] = NoObj]

(* A new transaction.  use_atomic and try_atomic begin with restart(),     *)
(* which clears the filter; a commit does not.                             *)
Begin(t) ==
  /\ pc[t] = "out"
  /\ transactionsInFlight' = transactionsInFlight \cup {t}
  /\ \E kept \in {{}, bloom[t]} : bloom' = [bloom EXCEPT ![t] = kept]
  /\ Goto(t, "run")
  /\ UNCHANGED <<late, mem, owner, writeList, deletedMemoryList, deletionBuffer,
                 forcedToAbort, transactionMutex, target, history>>

-----------------------------------------------------------------------------
(* direct_read().                                                          *)

(* An object that the filter answers for is returned as it is, whoever     *)
(* owns it by now.                                                         *)
ReadAgain(t, x) ==
  /\ pc[t] = "run" /\ ~forcedToAbort[t]
  /\ x \in Usable(t) \cap bloom[t] /\ ~Owns(t, x)
  /\ Sees(t, x)
  /\ UNCHANGED <<late, mem, owner, writeList, deletedMemoryList, deletionBuffer,
                 bloom, txVars, transactionMutex, target, pc>>

(* Reads, writes and deletions of objects that are not the thread's own    *)
(* start here; deletions do not test the flag.                             *)
Start(t, x) ==
  /\ pc[t] = "run" /\ x \in Usable(t) /\ ~Owns(t, x)
  /\ \/ ~forcedToAbort[t] /\ x \notin bloom[t] /\ Goto(t, "read")
     \/ ~forcedToAbort[t] /\ Goto(t, "write")
     \/ Goto(t, "delete")
  /\ target' = [target EXCEPT ![t] = x]
  /\ UNCHANGED <<late, mem, owner, writeList, deletedMemoryList, deletionBuffer,
                 bloom, txVars, transactionMutex, history>>

(* An operation or end() finds the flag set: lock_and_abort().             *)
Doomed(t) ==
  /\ pc[t] \in {"run", "beaten"} /\ forcedToAbort[t]
  /\ Goto(t, "abortWait")
  /\ UNCHANGED <<late, mem, owner, writeList, deletedMemoryList, deletionBuffer,
                 bloom, txVars, transactionMutex, target, history>>

(* Early detection: the owner is read without a mutex, abort_on_write()    *)
(* ends a transaction that meets one.                                      *)
EarlyTest(t) ==
  /\ ~late /\ pc[t] = "read"
  /\ IF owner[target[t]] = NoThread
     THEN Goto(t, "insert") /\ UNCHANGED target
     ELSE Goto(t, "abortWait") /\ target' = [target EXCEPT ![t] = NoObj]
  /\ UNCHANGED <<late, mem, owner, writeList, deletedMemoryList, deletionBuffer,
                 bloom, txVars, transactionMutex, history>>

EarlyInsert(t) ==
  /\ pc[t] = "insert" /\ TxUnlocked
  /\ bloom' = [bloom EXCEPT ![t] = @ \cup {target[t]}]
  /\ Sees(t, target[t])
  /\ Finish(t)
  /\ UNCHANGED <<late, mem, owner, writeList, deletedMemoryList, deletionBuffer,
                 txVars, transactionMutex>>

(* Late detection, under the general mutex.                                *)
LateRead(t) ==
  /\ late /\ pc[t] = "read" /\ GeneralFree
  /\ owner[target[t]] = NoThread
  /\ bloom' = [bloom EXCEPT ![t] = @ \cup {target[t]}]
  /\ Sees(t, target[t])
  /\ Finish(t)
  /\ UNCHANGED <<late, mem, owner, writeList, deletedMemoryList, deletionBuffer,
                 txVars, transactionMutex>>

(* The reader is given the owner's copy of the old value, and it is the    *)
(* copy that its filter then answers for: the owner's commit does not see  *)
(* this reader.  An owner that only deleted the object has no copy: the    *)
(* code says so on the console and goes on with what end() of its list     *)
(* holds.  That is undefined; here the reader goes on with an address that *)
(* is no object's, and nothing is said of the value it gets.               *)
LateReadOfCopy(t) ==
  LET u == owner[target[t]] IN
  /\ late /\ pc[t] = "read" /\ GeneralFree
  /\ u # NoThread /\ pc[u] # "abort"
  /\ Finish(t)
  /\ UNCHANGED <<late, mem, owner, writeList, deletedMemoryList, deletionBuffer,
                 bloom, txVars, transactionMutex, history>>

-----------------------------------------------------------------------------
(* direct_write() and direct_delete_memory().                              *)

WriteOwn(t, x, v) ==
  /\ pc[t] = "run" /\ x \in Usable(t) /\ Owns(t, x)
  /\ mem' = [mem EXCEPT ![x] = v]
  /\ UNCHANGED <<late, owner, writeList, deletedMemoryList, deletionBuffer,
                 bloom, txVars, transactionMutex, target, history, pc>>

(* Fault: the copy is taken from what the list holds.                      *)
TakeOwnershipUncopied(t, v) ==
  LET x == target[t] IN
  /\ pc[t] = "write" /\ GeneralFree /\ owner[x] = NoThread
  /\ owner' = [owner EXCEPT ![x] = t]
  /\ mem' = [mem EXCEPT ![x] = writeList[t][x]]
  /\ writeList' = [writeList EXCEPT ![t][x] = mem[x]]
  /\ bloom' = [bloom EXCEPT ![t] = @ \cup {x}]
  /\ Finish(t)
  /\ UNCHANGED <<late, deletedMemoryList, deletionBuffer, txVars,
                 transactionMutex, history>>

TakeOwnership(t, v) ==
  LET x == target[t] IN
  /\ pc[t] = "write" /\ GeneralFree /\ owner[x] = NoThread
  /\ owner' = [owner EXCEPT ![x] = t]
  /\ writeList' = [writeList EXCEPT ![t][x] = mem[x]]
  /\ bloom' = [bloom EXCEPT ![t] = @ \cup {x}]
  /\ mem' = [mem EXCEPT ![x] = v]
  /\ Finish(t)
  /\ UNCHANGED <<late, deletedMemoryList, deletionBuffer, txVars,
                 transactionMutex, history>>

(* "direct writer already exists": thrown without an abort, the            *)
(* transaction stays in flight.                                            *)
Beaten(t) ==
  /\ pc[t] = "write" /\ GeneralFree /\ owner[target[t]] # NoThread
  /\ Goto(t, "beaten")
  /\ target' = [target EXCEPT ![t] = NoObj]
  /\ UNCHANGED <<late, mem, owner, writeList, deletedMemoryList, deletionBuffer,
                 bloom, txVars, transactionMutex, history>>

DeleteOwn(t, x) ==
  /\ pc[t] = "run" /\ x \in Usable(t) /\ Owns(t, x)
  /\ deletedMemoryList' = [deletedMemoryList EXCEPT ![t] = @ \cup {x}]
  /\ UNCHANGED <<late, mem, owner, writeList, deletionBuffer, bloom, txVars,
                 transactionMutex, target, history, pc>>

(* An object that was only deleted has no entry in the write list, and the *)
(* filter does not hear of it.                                             *)
Delete(t) ==
  LET x == target[t] IN
  /\ pc[t] = "delete" /\ GeneralFree
  /\ IF owner[x] = NoThread
     THEN /\ owner' = [owner EXCEPT ![x] = t]
          /\ deletedMemoryList' = [deletedMemoryList EXCEPT ![t] = @ \cup {x}]
          /\ Finish(t)
     ELSE /\ UNCHANGED <<owner, deletedMemoryList>>
          /\ Goto(t, "abortWait")
          /\ target' = [target EXCEPT ![t] = NoObj]
  /\ UNCHANGED <<late, mem, writeList, deletionBuffer, bloom, txVars,
                 transactionMutex, history>>

-----------------------------------------------------------------------------
(* direct_abort().                                                         *)

(* lock_and_abort(): a writer takes the general mutex first.               *)
LockAndAbort(t) ==
  /\ pc[t] = "abortWait" /\ TxUnlocked
  /\ IF IsWriting(t) THEN GeneralFree /\ transactionMutex' = t
     ELSE UNCHANGED transactionMutex
  /\ Goto(t, "abort")
  /\ UNCHANGED <<late, mem, owner, writeList, deletedMemoryList, deletionBuffer,
                 bloom, txVars, target, history>>

(* ~transaction(), after an exception of the user or a write that was      *)
(* beaten: aborts without the general mutex.                               *)
Destructor(t) ==
  /\ pc[t] \in {"run", "beaten"} /\ TxUnlocked
  /\ Goto(t, "abort")
  /\ UNCHANGED <<late, mem, owner, writeList, deletedMemoryList, deletionBuffer,
                 bloom, txVars, transactionMutex, target, history>>

(* Fault: gives the object up before it has its old value back.            *)
RestoreOwnerOnly(t, x) ==
  /\ pc[t] = "abort" /\ x \in Written(t)
  /\ owner' = [owner EXCEPT ![x] = NoThread]
  /\ writeList' = [writeList EXCEPT ![t][x] = NoVal]
  /\ UNCHANGED <<late, mem, deletedMemoryList, deletionBuffer, bloom, txVars,
                 transactionMutex, target, history, pc>>

(* directAbortWriteList(), for one object.                                 *)
Restore(t, x) ==
  /\ pc[t] = "abort" /\ x \in Written(t)
  /\ mem' = [mem EXCEPT ![x] = writeList[t][x]]
  /\ owner' = [owner EXCEPT ![x] = NoThread]
  /\ writeList' = [writeList EXCEPT ![t][x] = NoVal]
  /\ UNCHANGED <<late, deletedMemoryList, deletionBuffer, bloom, txVars,
                 transactionMutex, target, history, pc>>

(* Fault: deleted objects keep their owner.                                *)
AbortDoneKeeping(t) ==
  /\ pc[t] = "abort" /\ Written(t) = {}
  /\ UNCHANGED <<owner, writeList>>
  /\ deletedMemoryList' = [deletedMemoryList EXCEPT ![t] = {}]
  /\ bloom' = [bloom EXCEPT ![t] = {}]
  /\ transactionsInFlight' = transactionsInFlight \ {t}
  /\ forcedToAbort' = [forcedToAbort EXCEPT ![t] = FALSE]
  /\ transactionMutex' = IF transactionMutex = t THEN NoThread
                         ELSE transactionMutex
  /\ Forgets(t)
  /\ UNCHANGED <<late, mem, deletionBuffer, target, robbed>>

(* The rest: directAbortTransactionDeletedMemory(), the filter, the        *)
(* in-flight list, the flag, and then the mutexes.  An object that was     *)
(* written and then deleted has been given up by Restore already, and may  *)
(* have another owner by now if this abort runs without the general mutex. *)
AbortDone(t) ==
  /\ pc[t] = "abort" /\ Written(t) = {}
  /\ owner' = [x \in Obj |-> IF x \in deletedMemoryList[t] THEN NoThread
                             ELSE owner[x]]
  /\ robbed' = robbed \cup
       {x \in deletedMemoryList[t] : owner[x] \notin {t, NoThread}}
  /\ deletedMemoryList' = [deletedMemoryList EXCEPT ![t] = {}]
  /\ bloom' = [bloom EXCEPT ![t] = {}]
  /\ transactionsInFlight' = transactionsInFlight \ {t}
  /\ forcedToAbort' = [forcedToAbort EXCEPT ![t] = FALSE]
  /\ transactionMutex' = IF transactionMutex = t THEN NoThread
                         ELSE transactionMutex
  /\ Forgets(t)
  /\ UNCHANGED <<late, mem, writeList, deletionBuffer, target>>

-----------------------------------------------------------------------------
(* invalidating_direct_end_transaction() and invalidating_direct_commit(). *)

(* The flag is tested before and after the wait for the mutexes.  atomic   *)
(* and try_atomic call end() for a transaction whose write was beaten.     *)
End(t) ==
  /\ pc[t] \in {"run", "beaten"} /\ ~forcedToAbort[t]
  /\ Goto(t, "end")
  /\ UNCHANGED <<late, mem, owner, writeList, deletedMemoryList, deletionBuffer,
                 bloom, txVars, transactionMutex, target, history>>

DoomedEnd(t) ==
  /\ pc[t] = "end" /\ GeneralFree /\ forcedToAbort[t]
  /\ transactionMutex' = IF IsWriting(t) THEN t ELSE NoThread
  /\ Goto(t, "abort")
  /\ UNCHANGED <<late, mem, owner, writeList, deletedMemoryList, deletionBuffer,
                 bloom, txVars, target, history>>

(* Fault: a transaction that writes is not looked at.                      *)
ConflictsOfReaders(t) ==
  {u \in transactionsInFlight \ {t} :
     ~forcedToAbort[u] /\ ~IsWriting(u) /\ bloom[u] \cap Written(t) # {}}

(* forceOtherInFlightTransactionsReadingThisWriteMemoryToAbort().          *)
Conflicts(t) ==
  {u \in transactionsInFlight \ {t} :
     ~forcedToAbort[u] /\ bloom[u] \cap Written(t) # {}}

(* Fault: the flag is not tested again once the mutexes are held.          *)
DecideUntested(t) ==
  /\ pc[t] = "end" /\ GeneralFree /\ AllTxUnlocked(t)
  /\ Conflicts(t) # {} => TRUE \in CmAnswer
  /\ transactionsInFlight' = transactionsInFlight \ {t}
  /\ forcedToAbort' = [u \in Thread |-> forcedToAbort[u] \/ u \in Conflicts(t)]
  /\ transactionMutex' = t
  /\ Goto(t, "publish")
  /\ UNCHANGED <<late, mem, owner, writeList, deletedMemoryList, deletionBuffer,
                 bloom, target, history>>

(* With the mutexes of all threads and the in-flight mutex.                *)
Decide(t) ==
  /\ pc[t] = "end" /\ ~forcedToAbort[t] /\ GeneralFree /\ AllTxUnlocked(t)
  /\ Conflicts(t) # {} => TRUE \in CmAnswer
  /\ transactionsInFlight' = transactionsInFlight \ {t}
  /\ forcedToAbort' = [u \in Thread |-> forcedToAbort[u] \/ u \in Conflicts(t)]
  /\ transactionMutex' = t
  /\ Goto(t, "publish")
  /\ UNCHANGED <<late, mem, owner, writeList, deletedMemoryList, deletionBuffer,
                 bloom, target, history>>

(* The contention manager refuses: the handler gives the mutexes back and  *)
(* aborts without the general one.                                         *)
Refused(t) ==
  /\ pc[t] = "end" /\ ~forcedToAbort[t] /\ GeneralFree /\ AllTxUnlocked(t)
  /\ Conflicts(t) # {} /\ FALSE \in CmAnswer
  /\ transactionsInFlight' = transactionsInFlight \ {t}
  /\ forcedToAbort' = [forcedToAbort EXCEPT ![t] = TRUE]
  /\ Goto(t, "abort")
  /\ UNCHANGED <<late, mem, owner, writeList, deletedMemoryList, deletionBuffer,
                 bloom, transactionMutex, target, history>>

(* directCommitWriteState() and directCommitTransactionDeletedMemory(); a  *)
(* deleted object keeps its owner for ever.                                *)
Publish(t) ==
  /\ pc[t] = "publish"
  /\ owner' = [x \in Obj |-> IF x \in Written(t) THEN NoThread ELSE owner[x]]
  /\ writeList' = [writeList EXCEPT ![t] = Nothing]
  /\ deletionBuffer' = deletionBuffer \cup deletedMemoryList[t]
  /\ deletedMemoryList' = [deletedMemoryList EXCEPT ![t] = {}]
  /\ transactionMutex' = NoThread
  /\ Forgets(t)
  /\ UNCHANGED <<late, mem, bloom, txVars, target, robbed>>

-----------------------------------------------------------------------------
Next == \E t \in Thread :
  \/ Begin(t) \/ Doomed(t)
  \/ \E x \in Obj : Start(t, x) \/ ReadAgain(t, x) \/ DeleteOwn(t, x)
  \/ EarlyTest(t) \/ EarlyInsert(t) \/ LateRead(t) \/ LateReadOfCopy(t)
  \/ \E x \in Obj, v \in Val : WriteOwn(t, x, v)
  \/ \E v \in Val : TakeOwnership(t, v)
  \/ Beaten(t) \/ Delete(t)
  \/ LockAndAbort(t) \/ Destructor(t) \/ AbortDone(t)
  \/ \E x \in Obj : Restore(t, x)
  \/ End(t) \/ DoomedEnd(t) \/ Decide(t) \/ Refused(t) \/ Publish(t)

Spec == Init /\ [][Next]_vars

-----------------------------------------------------------------------------
(* Properties.                                                             *)

Location == {"out", "run", "read", "insert", "write", "delete", "beaten",
             "abortWait", "abort", "end", "publish"}

(* The types; an operation in progress names its object.                   *)
TypeOK ==
  /\ late \in BOOLEAN
  /\ mem \in [Obj -> Val]
  /\ owner \in [Obj -> Thread \cup {NoThread}]
  /\ writeList \in [Thread -> [Obj -> Val \cup {NoVal}]]
  /\ deletedMemoryList \in [Thread -> SUBSET Obj]
  /\ deletionBuffer \subseteq Obj
  /\ bloom \in [Thread -> SUBSET Obj]
  /\ transactionsInFlight \subseteq Thread
  /\ forcedToAbort \in [Thread -> BOOLEAN]
  /\ transactionMutex \in Thread \cup {NoThread}
  /\ target \in [Thread -> Obj \cup {NoObj}]
  /\ \A t \in Thread : pc[t] \in {"read", "insert", "write", "delete"}
                       => target[t] \in Obj
  /\ seen \in [Thread -> [Obj -> Val \cup {NoVal}]]
  /\ robbed \subseteq Obj
  /\ pc \in [Thread -> Location]

(* An object in a thread's write list is the thread's own; an object with  *)
(* an owner is in that thread's lists, or was deleted for good.  So no     *)
(* object is owned twice, and none stays locked behind a transaction that  *)
(* is over.                                                                *)
OwnersAreListed ==
  \A x \in Obj \ robbed :
    /\ \A t \in Thread : x \in Written(t) => Owns(t, x)
    /\ owner[x] # NoThread =>
         \/ x \in Written(owner[x]) \cup deletedMemoryList[owner[x]]
         \/ x \in deletionBuffer

(* What the objects are worth without their owners changes only when a     *)
(* transaction commits, and then only where it wrote: an abort, whoever    *)
(* gets in between its steps, leaves nothing behind and takes back nothing *)
(* of others.                                                              *)
OnlyCommitsPublish ==
  [][\A x \in Obj \ robbed' : stored'[x] # stored[x] =>
       \E t \in Thread : /\ pc[t] = "publish" /\ pc'[t] = "out"
                         /\ x \in Written(t) /\ stored'[x] = mem[x]]_vars

(* A transaction in flight has been doomed by the commit that overwrote    *)
(* what it read, so what it read is still what is stored; except what it   *)
(* found in objects that another transaction owned, which the reference    *)
(* returned by read() and the filter's answer both allow.                  *)
DoomedOrCurrent ==
  \A t \in transactionsInFlight, x \in Obj \ robbed :
    ~forcedToAbort[t] /\ seen[t][x] # NoVal => seen[t][x] = stored[x]

(* The mapping to AtomicStore: a transaction runs from Begin to the end of *)
(* its abort or of its commit, and will write what it has put in place.    *)
observed == [t \in Thread |-> [x \in Obj |-> {seen[t][x]} \ {NoVal}]]
inPlace == [t \in Thread |-> [x \in Obj |->
  IF x \in Written(t) THEN mem[x] ELSE NoVal]]
inside == {t \in Thread : pc[t] # "out"}

InPlace == INSTANCE AtomicStore WITH
  store <- stored, running <- inside, read <- observed, written <- inPlace

(* Until an object is taken from its owner, transactions with direct       *)
(* update implement AtomicStore: a commit publishes all that it wrote at   *)
(* once, and all that it read from objects without an owner is current     *)
(* then; an abort leaves nothing behind.                                   *)
CommitsAtOnce ==
  /\ InPlace!Start
  /\ [][robbed' = {} => [InPlace!Act]_(InPlace!avars)]_vars

(* "we currently don't allow write stealing in direct update"              *)
(* (direct_write()): an object keeps its owner until the owner ends.       *)
NoWriteStealing == robbed = {}
=============================================================================
