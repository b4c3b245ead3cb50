----------------------------- MODULE DeferredStm -----------------------------
(***************************************************************************)
(* The deferred-update, commit-time-invalidation protocol of TBoost.STM:   *)
(* boost/stm/transaction.hpp and boost/stm/detail/transaction_impl.hpp in  *)
(* the configuration of detail/config.hpp (bloom filters instead of read   *)
(* sets, shared forced-to-abort flag, one context per thread).             *)
(*                                                                         *)
(* Each thread runs one top-level transaction at a time.  A transaction    *)
(* buffers its writes, remembers what it touched in the thread's bloom     *)
(* filter, and at end() takes the global transactionMutex_, the mutex of   *)
(* every thread and transactionsInFlightMutex_, sets the forced-to-abort   *)
(* flag of every other transaction in flight that touched what it wrote,   *)
(* leaves the in-flight list, and only then copies its buffer to memory.   *)
(*                                                                         *)
(* Granularity.  A test of the flag, an acquisition of a mutex, a read of  *)
(* memory through a reference and the write-back of one object are steps   *)
(* of their own.  A critical section that never blocks inside is one step  *)
(* guarded by "the mutex is free": those under transactionsInFlightMutex_, *)
(* and the bloom-filter insertions under the thread's own mutex.           *)
(*                                                                         *)
(* A definition introduced as "Fault:" is not part of the specification.   *)
(* It is the definition after it with a mistake in it, kept to see that    *)
(* the properties notice (README.md lists which).                          *)
(***************************************************************************)
EXTENDS Integers, FiniteSets

CONSTANTS
  Thread,          \* the threads that called initialize_thread()
  Obj,             \* the shared transactional objects
  Val,             \* the values an object can hold
  Bit,             \* the bits of a bloom filter
  Hash,            \* the bits bloom_filter::insert sets for an object
  RestartThread,   \* threads that open transactions with use_atomic/try_atomic
  IrrevocableThread, \* threads whose transactions call make_irrevocable()
  CmAnswer,        \* what the contention manager's permission_to_abort returns
  NoThread, NoVal, NoObj

ASSUME ConstantsAssumption ==
  /\ Hash \in [Obj -> (SUBSET Bit) \ {{}}]
  /\ RestartThread \subseteq Thread
  /\ IrrevocableThread \subseteq Thread
  /\ CmAnswer \subseteq BOOLEAN /\ CmAnswer # {}
  /\ NoThread \notin Thread
  /\ NoVal \notin Val
  /\ NoObj \notin Obj

VARIABLES
  mem,                  \* global memory, object by object
  transactionMutex,     \* owner of transactionMutex_ ("general access")
  threadMutex,          \* owner of each thread's mutex in threadMutexes_
  transactionsInFlight, \* threads whose transaction is in transactionsInFlight_
  forcedToAbort,        \* the shared per-thread forced-to-abort flag
  irrevocable,          \* the per-thread txType_ is eIrrevocableTx
  bloom,                \* the per-thread bloom filter, as the set of its bits
  writeList,            \* the per-thread write buffer, NoVal where absent
  handles,              \* objects the body holds a reference returned by read()
  seen,                 \* values the body observed, object by object
  target,               \* object of the read or write call in progress
  pc                    \* where each thread is

vars == <<mem, transactionMutex, threadMutex, transactionsInFlight,
          forcedToAbort, irrevocable, bloom, writeList, handles, seen,
          target, pc>>

NothingWritten == [x \in Obj |-> NoVal]
NothingSeen    == [x \in Obj |-> {}]

(* Program counters.  In the first group the transaction runs or tries to  *)
(* commit and what it has observed still matters; in the second it is      *)
(* inside deferred_abort(), which the four callers reach differently.      *)
Live     == {"body", "readLock", "writeLock", "general", "recheck", "lockAll"}
Aborting == {"aborting", "restarting", "denied", "unwinding"}
PC == Live \cup Aborting \cup
      {"idle", "ready", "entering", "aborted", "roCommit", "writeBack",
       "unlockAll"}

(* Where control goes when deferred_abort() returns.                       *)
AfterAbort == [aborting   |-> "aborted",   \* an operation or end() throws
               denied     |-> "aborted",   \* the commit was vetoed, rethrow
               restarting |-> "entering",  \* restart() goes on
               unwinding  |-> "idle"]      \* the destructor returns

Init ==
  /\ mem \in [Obj -> Val]
  /\ transactionMutex = NoThread
  /\ threadMutex = [t \in Thread |-> NoThread]
  /\ transactionsInFlight = {}
  /\ forcedToAbort = [t \in Thread |-> FALSE]
  /\ irrevocable = [t \in Thread |-> FALSE]
  /\ bloom = [t \in Thread |-> {}]
  /\ writeList = [t \in Thread |-> NothingWritten]
  /\ handles = [t \in Thread |-> {}]
  /\ seen = [t \in Thread |-> NothingSeen]
  /\ target = [t \in Thread |-> NoObj]
  /\ pc = [t \in Thread |-> "idle"]

-----------------------------------------------------------------------------
(* Helpers.                                                                *)

Exists(t, x)    == Hash[x] \subseteq bloom[t]
Writes(t)       == {x \in Obj : writeList[t][x] # NoVal}
IsOnlyReading(t) == Writes(t) = {}
(* Fault: the committer waits for no mutex but its own.                     *)
HoldsOwn(t)     == threadMutex[t] = t
HoldsAll(t)     == \A u \in Thread : threadMutex[u] = t
TxMutexFree(t)  == threadMutex[t] = NoThread

GoTo(t, from, to) ==
  /\ pc[t] = from
  /\ pc' = [pc EXCEPT ![t] = to]

Forget(t) ==
  /\ handles' = [handles EXCEPT ![t] = {}]
  /\ seen' = [seen EXCEPT ![t] = NothingSeen]

(* Fault: the abort forgets to clear the bloom filter.                      *)
ClearButBloom(t) ==
  /\ writeList' = [writeList EXCEPT ![t] = NothingWritten]
  /\ UNCHANGED bloom
  /\ Forget(t)

(* The first half of deferred_abort(): the context is wiped.  The caller   *)
(* may or may not hold the thread's mutex.                                 *)
ClearContext(t) ==
  /\ writeList' = [writeList EXCEPT ![t] = NothingWritten]
  /\ bloom' = [bloom EXCEPT ![t] = {}]
  /\ Forget(t)

-----------------------------------------------------------------------------
(* Starting a transaction.                                                 *)

(* Fault: the constructor leaves the transaction running, as if use_atomic  *)
(* and try_atomic did not call restart().                                  *)
ConstructRunning(t) ==
  /\ transactionMutex = NoThread
  /\ GoTo(t, "idle", "body")
  /\ transactionsInFlight' = transactionsInFlight \cup {t}
  /\ UNCHANGED <<mem, transactionMutex, threadMutex, forcedToAbort,
                 irrevocable, bloom, writeList, handles, seen, target>>

(* The constructor: it passes through general_lock() and puts the          *)
(* transaction in flight.  It clears neither the flag nor the filter.      *)
Construct(t) ==
  /\ transactionMutex = NoThread
  /\ GoTo(t, "idle", IF t \in RestartThread THEN "ready" ELSE "body")
  /\ transactionsInFlight' = transactionsInFlight \cup {t}
  /\ UNCHANGED <<mem, transactionMutex, threadMutex, forcedToAbort,
                 irrevocable, bloom, writeList, handles, seen, target>>

(* use_atomic and try_atomic call restart() right after construction: the  *)
(* transaction is in flight, so restart() begins with lock_and_abort().    *)
RestartInFlight(t) ==
  /\ TxMutexFree(t)
  /\ GoTo(t, "ready", "restarting")
  /\ threadMutex' = [threadMutex EXCEPT ![t] = t]
  /\ ClearContext(t)
  /\ UNCHANGED <<mem, transactionMutex, transactionsInFlight, forcedToAbort,
                 irrevocable, target>>

(* The rest of restart(), also reached by retrying an aborted transaction: *)
(* unforce_to_abort() and put_tx_inflight().                               *)
Restart(t) ==
  /\ pc[t] \in {"entering", "aborted"}
  /\ pc' = [pc EXCEPT ![t] = "body"]
  /\ forcedToAbort' = [forcedToAbort EXCEPT ![t] = FALSE]
  /\ transactionsInFlight' = transactionsInFlight \cup {t}
  /\ UNCHANGED <<mem, transactionMutex, threadMutex, irrevocable, bloom,
                 writeList, handles, seen, target>>

(* The exception leaves the atomic block and the transaction object dies.  *)
GiveUp(t) ==
  /\ GoTo(t, "aborted", "idle")
  /\ UNCHANGED <<mem, transactionMutex, threadMutex, transactionsInFlight,
                 forcedToAbort, irrevocable, bloom, writeList, handles, seen,
                 target>>

-----------------------------------------------------------------------------
(* Operations of the body.                                                 *)

(* deferred_read of an object that is not in the write list (otherwise the *)
(* call returns the private copy and changes nothing).  An object the      *)
(* filter already holds is returned without taking the mutex.              *)
ReadCovered(t, x) ==
  /\ pc[t] = "body" /\ ~forcedToAbort[t]
  /\ x \notin Writes(t)
  /\ Exists(t, x)
  /\ handles' = [handles EXCEPT ![t] = @ \cup {x}]
  /\ UNCHANGED <<mem, transactionMutex, threadMutex, transactionsInFlight,
                 forcedToAbort, irrevocable, bloom, writeList, seen, target,
                 pc>>

ReadCall(t, x) ==
  /\ ~forcedToAbort[t]
  /\ x \notin Writes(t)
  /\ ~Exists(t, x)
  /\ GoTo(t, "body", "readLock")
  /\ target' = [target EXCEPT ![t] = x]
  /\ UNCHANGED <<mem, transactionMutex, threadMutex, transactionsInFlight,
                 forcedToAbort, irrevocable, bloom, writeList, handles, seen>>

(* Fault: the filter is written without the thread's mutex.                 *)
ReadInsertUnlocked(t) ==
  /\ GoTo(t, "readLock", "body")
  /\ bloom' = [bloom EXCEPT ![t] = @ \cup Hash[target[t]]]
  /\ handles' = [handles EXCEPT ![t] = @ \cup {target[t]}]
  /\ target' = [target EXCEPT ![t] = NoObj]
  /\ UNCHANGED <<mem, transactionMutex, threadMutex, transactionsInFlight,
                 forcedToAbort, irrevocable, writeList, seen>>

(* lock_tx(), bloom insertion, unlock_tx(), return the reference.          *)
ReadInsert(t) ==
  /\ TxMutexFree(t)
  /\ GoTo(t, "readLock", "body")
  /\ bloom' = [bloom EXCEPT ![t] = @ \cup Hash[target[t]]]
  /\ handles' = [handles EXCEPT ![t] = @ \cup {target[t]}]
  /\ target' = [target EXCEPT ![t] = NoObj]
  /\ UNCHANGED <<mem, transactionMutex, threadMutex, transactionsInFlight,
                 forcedToAbort, irrevocable, writeList, seen>>

(* The body looks through a reference read() returned, at any later time   *)
(* and with no test of the flag.                                           *)
Dereference(t, x) ==
  /\ pc[t] = "body"
  /\ x \in handles[t]
  /\ seen' = [seen EXCEPT ![t][x] = @ \cup {mem[x]}]
  /\ UNCHANGED <<mem, transactionMutex, threadMutex, transactionsInFlight,
                 forcedToAbort, irrevocable, bloom, writeList, handles, target,
                 pc>>

(* The body assigns through a reference write() returned, at any later     *)
(* time and with no test of the flag.                                      *)
Assign(t, x, v) ==
  /\ pc[t] = "body"
  /\ x \in Writes(t)
  /\ writeList' = [writeList EXCEPT ![t][x] = v]
  /\ UNCHANGED <<mem, transactionMutex, threadMutex, transactionsInFlight,
                 forcedToAbort, irrevocable, bloom, handles, seen, target, pc>>

(* deferred_write of an object that is not in the write list yet.          *)
WriteCall(t, x) ==
  /\ ~forcedToAbort[t]
  /\ x \notin Writes(t)
  /\ GoTo(t, "body", "writeLock")
  /\ target' = [target EXCEPT ![t] = x]
  /\ UNCHANGED <<mem, transactionMutex, threadMutex, transactionsInFlight,
                 forcedToAbort, irrevocable, bloom, writeList, handles, seen>>

(* lock_tx(), bloom insertion, copy of the object (which the body then     *)
(* sees, as in "++t.write(x)"), unlock_tx(), and the body's new value.     *)
WriteInsert(t, v) ==
  LET x == target[t] IN
  /\ TxMutexFree(t)
  /\ GoTo(t, "writeLock", "body")
  /\ bloom' = [bloom EXCEPT ![t] = @ \cup Hash[x]]
  /\ writeList' = [writeList EXCEPT ![t][x] = v]
  /\ seen' = [seen EXCEPT ![t][x] = @ \cup {mem[x]}]
  /\ target' = [target EXCEPT ![t] = NoObj]
  /\ UNCHANGED <<mem, transactionMutex, threadMutex, transactionsInFlight,
                 forcedToAbort, irrevocable, handles>>

(* make_irrevocable(): waits until no transaction in flight is             *)
(* irrevocable.  It does not look at the forced-to-abort flag.             *)
MakeIrrevocable(t) ==
  /\ pc[t] = "body"
  /\ t \in IrrevocableThread /\ ~irrevocable[t]
  /\ \A u \in transactionsInFlight : ~irrevocable[u]
  /\ irrevocable' = [irrevocable EXCEPT ![t] = TRUE]
  /\ UNCHANGED <<mem, transactionMutex, threadMutex, transactionsInFlight,
                 forcedToAbort, bloom, writeList, handles, seen, target, pc>>

-----------------------------------------------------------------------------
(* Aborting.                                                               *)

(* A read, a write or end() finds the flag set: deferred_abort(true)       *)
(* without the thread's mutex, then throw.                                 *)
AbortOnFlag(t) ==
  /\ forcedToAbort[t]
  /\ GoTo(t, "body", "aborting")
  /\ ClearContext(t)
  /\ UNCHANGED <<mem, transactionMutex, threadMutex, transactionsInFlight,
                 forcedToAbort, irrevocable, target>>

(* A user exception destroys a transaction in flight: lock_tx(), abort().  *)
Unwind(t) ==
  /\ TxMutexFree(t)
  /\ GoTo(t, "body", "unwinding")
  /\ threadMutex' = [threadMutex EXCEPT ![t] = t]
  /\ ClearContext(t)
  /\ UNCHANGED <<mem, transactionMutex, transactionsInFlight, forcedToAbort,
                 irrevocable, target>>

(* The second half of deferred_abort(): leave the in-flight list, reset    *)
(* the flag; then unlock_tx() where the caller had locked it.  txType_     *)
(* keeps its value.                                                        *)
AbortErase(t) ==
  /\ pc[t] \in Aborting
  /\ pc' = [pc EXCEPT ![t] = AfterAbort[@]]
  /\ transactionsInFlight' = transactionsInFlight \ {t}
  /\ forcedToAbort' = [forcedToAbort EXCEPT ![t] = FALSE]
  /\ threadMutex' = IF pc[t] = "aborting" THEN threadMutex
                    ELSE [threadMutex EXCEPT ![t] = NoThread]
  /\ UNCHANGED <<mem, transactionMutex, irrevocable, bloom, writeList, handles,
                 seen, target>>

-----------------------------------------------------------------------------
(* end().                                                                  *)

(* Fault: a read-only transaction leaves without testing the flag.          *)
EndReadOnlyUntested(t) ==
  /\ IsOnlyReading(t)
  /\ GoTo(t, "body", "roCommit")
  /\ Forget(t)
  /\ UNCHANGED <<mem, transactionMutex, threadMutex, transactionsInFlight,
                 forcedToAbort, irrevocable, bloom, writeList, target>>

(* The flag is clear and the transaction only read: it will just leave the *)
(* in-flight list.  Nothing tests the flag again.                          *)
EndReadOnly(t) ==
  /\ ~forcedToAbort[t]
  /\ IsOnlyReading(t)
  /\ GoTo(t, "body", "roCommit")
  /\ Forget(t)
  /\ UNCHANGED <<mem, transactionMutex, threadMutex, transactionsInFlight,
                 forcedToAbort, irrevocable, bloom, writeList, target>>

LeaveReadOnly(t) ==
  /\ GoTo(t, "roCommit", "idle")
  /\ transactionsInFlight' = transactionsInFlight \ {t}
  /\ irrevocable' = [irrevocable EXCEPT ![t] = FALSE]
  /\ UNCHANGED <<mem, transactionMutex, threadMutex, forcedToAbort, bloom,
                 writeList, handles, seen, target>>

(* Fault: the committer takes its own mutex before transactionMutex_.       *)
EndWriterLocked(t) ==
  /\ ~forcedToAbort[t]
  /\ ~IsOnlyReading(t)
  /\ TxMutexFree(t)
  /\ GoTo(t, "body", "general")
  /\ threadMutex' = [threadMutex EXCEPT ![t] = t]
  /\ UNCHANGED <<mem, transactionMutex, transactionsInFlight, forcedToAbort,
                 irrevocable, bloom, writeList, handles, seen, target>>

EndWriter(t) ==
  /\ ~forcedToAbort[t]
  /\ ~IsOnlyReading(t)
  /\ GoTo(t, "body", "general")
  /\ UNCHANGED <<mem, transactionMutex, threadMutex, transactionsInFlight,
                 forcedToAbort, irrevocable, bloom, writeList, handles, seen,
                 target>>

LockGeneral(t) ==
  /\ transactionMutex = NoThread
  /\ GoTo(t, "general", "recheck")
  /\ transactionMutex' = t
  /\ UNCHANGED <<mem, threadMutex, transactionsInFlight, forcedToAbort,
                 irrevocable, bloom, writeList, handles, seen, target>>

(* The second test of the flag, under transactionMutex_.                   *)
RecheckFails(t) ==
  /\ forcedToAbort[t]
  /\ GoTo(t, "recheck", "aborting")
  /\ transactionMutex' = NoThread
  /\ ClearContext(t)
  /\ UNCHANGED <<mem, threadMutex, transactionsInFlight, forcedToAbort,
                 irrevocable, target>>

(* Fault: the flag is not tested again once transactionMutex_ is held.      *)
RecheckSkipped(t) ==
  /\ GoTo(t, "recheck", "lockAll")
  /\ UNCHANGED <<mem, transactionMutex, threadMutex, transactionsInFlight,
                 forcedToAbort, irrevocable, bloom, writeList, handles, seen,
                 target>>

RecheckPasses(t) ==
  /\ ~forcedToAbort[t]
  /\ GoTo(t, "recheck", "lockAll")
  /\ UNCHANGED <<mem, transactionMutex, threadMutex, transactionsInFlight,
                 forcedToAbort, irrevocable, bloom, writeList, handles, seen,
                 target>>

(* lock_all_mutexes(), one mutex at a time.  The container's order is left *)
(* open: only the owner of transactionMutex_ ever takes more than one.     *)
LockMutex(t, u) ==
  /\ pc[t] = "lockAll"
  /\ TxMutexFree(u)
  /\ threadMutex' = [threadMutex EXCEPT ![u] = t]
  /\ UNCHANGED <<mem, transactionMutex, transactionsInFlight, forcedToAbort,
                 irrevocable, bloom, writeList, handles, seen, target, pc>>

(* Fault: only what the others write is compared with the write list.       *)
WriteConflicts(t) ==
  {u \in transactionsInFlight \ {t} :
     ~forcedToAbort[u] /\ Writes(u) \cap Writes(t) # {}}

(* The transactions in flight, not yet doomed, whose filter holds an       *)
(* object of t's write list.                                               *)
Conflicts(t) ==
  {u \in transactionsInFlight \ {t} :
     ~forcedToAbort[u] /\ \E x \in Writes(t) : Exists(u, x)}

(* Fault: irrevocable victims are not looked for.                           *)
YieldsNever(t) == FALSE

(* An irrevocable victim stops a committer that is not itself irrevocable. *)
Yields(t) == ~irrevocable[t] /\ \E u \in Conflicts(t) : irrevocable[u]

(* invalidating_deferred_commit() up to unlock_general_access(): force the *)
(* conflicting transactions to abort (a no-op on an irrevocable one) and   *)
(* leave the in-flight list.                                               *)
Commit(t) ==
  /\ HoldsAll(t)
  /\ GoTo(t, "lockAll", "writeBack")
  /\ ~Yields(t)
  /\ Conflicts(t) # {} => TRUE \in CmAnswer
  /\ forcedToAbort' = [u \in Thread |->
       forcedToAbort[u] \/ (u \in Conflicts(t) /\ ~irrevocable[u])]
  /\ transactionsInFlight' = transactionsInFlight \ {t}
  /\ transactionMutex' = NoThread
  /\ Forget(t)
  /\ UNCHANGED <<mem, threadMutex, irrevocable, bloom, writeList, target>>

(* Fault: the committer gives way to any transaction it conflicts with.     *)
CommitGivesWay(t) ==
  /\ HoldsAll(t)
  /\ GoTo(t, "lockAll", "denied")
  /\ Conflicts(t) # {}
  /\ forcedToAbort' = [forcedToAbort EXCEPT ![t] = ~irrevocable[t]]
  /\ threadMutex' = [u \in Thread |-> IF u = t THEN t ELSE NoThread]
  /\ transactionMutex' = NoThread
  /\ ClearContext(t)
  /\ UNCHANGED <<mem, transactionsInFlight, irrevocable, target>>

(* The contention manager or an irrevocable victim refuses: the committer  *)
(* forces itself to abort, throws, and the handler unlocks everything but  *)
(* its own mutex before deferred_abort().                                  *)
CommitDenied(t) ==
  /\ HoldsAll(t)
  /\ GoTo(t, "lockAll", "denied")
  /\ Yields(t) \/ (Conflicts(t) # {} /\ FALSE \in CmAnswer)
  /\ forcedToAbort' = [forcedToAbort EXCEPT ![t] = ~irrevocable[t]]
  /\ threadMutex' = [u \in Thread |-> IF u = t THEN t ELSE NoThread]
  /\ transactionMutex' = NoThread
  /\ ClearContext(t)
  /\ UNCHANGED <<mem, transactionsInFlight, irrevocable, target>>

(* Fault: an entry without a copy is copied.                                *)
WriteBackAnything(t, x) ==
  /\ pc[t] = "writeBack"
  /\ mem' = [mem EXCEPT ![x] = writeList[t][x]]
  /\ writeList' = [writeList EXCEPT ![t][x] = NoVal]
  /\ UNCHANGED <<transactionMutex, threadMutex, transactionsInFlight,
                 forcedToAbort, irrevocable, bloom, handles, seen, target, pc>>

(* deferredCommitWriteState(), one object at a time, under the thread      *)
(* mutexes only.                                                           *)
WriteBack(t, x) ==
  /\ pc[t] = "writeBack"
  /\ x \in Writes(t)
  /\ mem' = [mem EXCEPT ![x] = writeList[t][x]]
  /\ writeList' = [writeList EXCEPT ![t][x] = NoVal]
  /\ UNCHANGED <<transactionMutex, threadMutex, transactionsInFlight,
                 forcedToAbort, irrevocable, bloom, handles, seen, target, pc>>

WriteBackDone(t) ==
  /\ IsOnlyReading(t)
  /\ GoTo(t, "writeBack", "unlockAll")
  /\ UNCHANGED <<mem, transactionMutex, threadMutex, transactionsInFlight,
                 forcedToAbort, irrevocable, bloom, writeList, handles, seen,
                 target>>

(* unlock_all_mutexes(), one mutex at a time.                              *)
UnlockMutex(t, u) ==
  /\ pc[t] = "unlockAll"
  /\ threadMutex[u] = t
  /\ threadMutex' = [threadMutex EXCEPT ![u] = NoThread]
  /\ UNCHANGED <<mem, transactionMutex, transactionsInFlight, forcedToAbort,
                 irrevocable, bloom, writeList, handles, seen, target, pc>>

(* The rest of the commit: txType_ becomes normal, the state committed.    *)
(* The bloom filter keeps its bits.                                        *)
Committed(t) ==
  /\ \A u \in Thread : threadMutex[u] # t
  /\ GoTo(t, "unlockAll", "idle")
  /\ irrevocable' = [irrevocable EXCEPT ![t] = FALSE]
  /\ UNCHANGED <<mem, transactionMutex, threadMutex, transactionsInFlight,
                 forcedToAbort, bloom, writeList, handles, seen, target>>

-----------------------------------------------------------------------------
StartStep(t) == Construct(t) \/ RestartInFlight(t) \/ Restart(t) \/ GiveUp(t)

BodyStep(t) ==
  \/ \E x \in Obj : ReadCovered(t, x) \/ ReadCall(t, x) \/ Dereference(t, x)
                    \/ WriteCall(t, x)
  \/ \E x \in Obj, v \in Val : Assign(t, x, v)
  \/ ReadInsert(t)
  \/ \E v \in Val : WriteInsert(t, v)
  \/ MakeIrrevocable(t)

AbortStep(t) == AbortOnFlag(t) \/ Unwind(t) \/ AbortErase(t)

EndStep(t) ==
  \/ EndReadOnly(t) \/ LeaveReadOnly(t) \/ EndWriter(t)
  \/ LockGeneral(t) \/ RecheckFails(t) \/ RecheckPasses(t)
  \/ \E u \in Thread : LockMutex(t, u) \/ UnlockMutex(t, u)
  \/ Commit(t) \/ CommitDenied(t)
  \/ \E x \in Obj : WriteBack(t, x)
  \/ WriteBackDone(t) \/ Committed(t)

Next == \E t \in Thread :
  StartStep(t) \/ BodyStep(t) \/ AbortStep(t) \/ EndStep(t)

Spec == Init /\ [][Next]_vars

(* The scheduler keeps running a thread that is past end() or inside       *)
(* deferred_abort().  lock() on a thread mutex blocks while its rivals use *)
(* trylock and SLEEP(1), so a mutex that is free again and again is        *)
(* eventually granted; the spin on transactionMutex_ gets no such promise. *)
(* Nothing is assumed of the body of a transaction.                        *)
LibraryStep(t) ==
  \/ AbortErase(t) \/ LeaveReadOnly(t)
  \/ RecheckFails(t) \/ RecheckPasses(t)
  \/ \E u \in Thread : UnlockMutex(t, u)
  \/ Commit(t) \/ CommitDenied(t)
  \/ \E x \in Obj : WriteBack(t, x)
  \/ WriteBackDone(t) \/ Committed(t)

Fairness == \A t \in Thread :
  /\ WF_vars(LibraryStep(t))
  /\ WF_vars(LockGeneral(t))
  /\ \A u \in Thread : SF_vars(LockMutex(t, u))

FairSpec == Spec /\ Fairness
-----------------------------------------------------------------------------
(* Properties.                                                             *)

(* The thread that decided to commit x and has not yet copied it.          *)
Copying(x) == {t \in Thread : pc[t] = "writeBack" /\ x \in Writes(t)}

(* The committed state: memory as it will be once the write-back in        *)
(* progress, if any, is over.                                              *)
Store == [x \in Obj |->
  IF Copying(x) = {} THEN mem[x]
  ELSE LET t == CHOOSE t \in Copying(x) : TRUE IN writeList[t][x]]

(* The threads whose transactions can be relied on: use_atomic or           *)
(* try_atomic opens them, and no other thread can be irrevocable beside    *)
(* them when they are.                                                     *)
Protected == {t \in RestartThread :
  t \in IrrevocableThread => IrrevocableThread = {t}}

SeesStore(t) == \A x \in Obj : seen[t][x] \subseteq {Store[x]}

TypeOK ==
  /\ mem \in [Obj -> Val]
  /\ transactionMutex \in Thread \cup {NoThread}
  /\ threadMutex \in [Thread -> Thread \cup {NoThread}]
  /\ transactionsInFlight \subseteq Thread
  /\ forcedToAbort \in [Thread -> BOOLEAN]
  /\ irrevocable \in [Thread -> BOOLEAN]
  /\ bloom \in [Thread -> SUBSET Bit]
  /\ writeList \in [Thread -> [Obj -> Val \cup {NoVal}]]
  /\ handles \in [Thread -> SUBSET Obj]
  /\ seen \in [Thread -> [Obj -> SUBSET Val]]
  /\ target \in [Thread -> Obj \cup {NoObj}]
  /\ pc \in [Thread -> PC]
  /\ \A t \in Thread : pc[t] \in {"readLock", "writeLock"} => target[t] \in Obj

(* Two committers never copy their buffers at the same time, although      *)
(* transactionMutex_ is released before the copy starts: the second one is *)
(* held up in lock_all_mutexes().                                          *)
OneWriteBack == \A t, u \in Thread :
  pc[t] = "writeBack" /\ pc[u] = "writeBack" => t = u

(* A protected transaction that is not forced to abort never holds a       *)
(* reference to an object another thread is copying to memory, so what it  *)
(* can look at is never half a commit, however many irrevocable            *)
(* transactions the other threads run.                                     *)
NoHandleUnderWriteBack == \A t \in Protected, u \in Thread, x \in Obj :
  /\ t # u /\ pc[t] \in Live /\ ~forcedToAbort[t]
  /\ u \in Copying(x)
  => x \notin handles[t]

(* Every protected transaction in flight is either doomed or has seen one  *)
(* value of each object, the committed one: commits invalidate exactly     *)
(* what they must, though the filter answers for the read set and readers  *)
(* skip the mutex.                                                         *)
DoomedOrConsistent == \A t \in Protected :
  pc[t] \in Live /\ ~forcedToAbort[t] => SeesStore(t)

(* The decision points of end(): the read-only test and the force step.    *)
Decides(t) == \/ pc[t] = "body" /\ pc'[t] = "roCommit"
              \/ pc[t] = "lockAll" /\ pc'[t] = "writeBack"

(* A protected transaction commits only if all it observed, at whatever    *)
(* times, is the committed state of that moment; its writes then become the          *)
(* committed state as one.  In between nothing changes that state.         *)
CommitsAtomically == [][
  /\ \A t \in Protected : Decides(t) => SeesStore(t)
  /\ \A x \in Obj : Store'[x] # Store[x] =>
       \E t \in Thread : Decides(t) /\ Store'[x] = writeList[t][x]]_vars

(* The flag of a running transaction goes up only when another one commits *)
(* that writes what its filter answers for.                                *)
DoomIsDeserved(t) ==
  pc'[t] \in Live /\ forcedToAbort'[t] =>
    \/ pc[t] \in Live /\ forcedToAbort[t]
    \/ \E u \in Thread \ {t} :
         Decides(u) /\ \E x \in Writes(u) : Exists(t, x)

(* A transaction opened by use_atomic or try_atomic is doomed only by such *)
(* a commit: it never starts with a flag meant for the thread's previous   *)
(* transaction, although a read-only commit leaves flag and filter as they *)
(* are.                                                                    *)
DoomedOnlyByCommits == [][\A t \in RestartThread : DoomIsDeserved(t)]_vars

(* However the thread opens its transactions, one that commits has not     *)
(* seen two values of the same object.                                     *)
RepeatableReads == [][
  \A t \in Thread : Decides(t) =>
    \A x \in Obj : \A v, w \in seen[t][x] : v = w]_vars

(* What a thread may be blocked on in its place: transactionMutex_, its    *)
(* own mutex, a mutex that lock_all_mutexes() still misses, or the other   *)
(* irrevocable transaction that make_irrevocable() spins on.               *)
WaitsFor(t, u) ==
  \/ pc[t] \in {"idle", "general"} /\ transactionMutex = u
  \/ pc[t] \in {"ready", "body", "readLock", "writeLock"} /\ threadMutex[t] = u
  \/ /\ pc[t] = "lockAll" /\ u # t
     /\ \E m \in Thread : threadMutex[m] = u
  \/ /\ pc[t] = "body" /\ t \in IrrevocableThread /\ ~irrevocable[t]
     /\ u \in transactionsInFlight /\ irrevocable[u]

(* No group of threads is blocked for good: in each of them one waits for  *)
(* none of the others, nor for itself, although committers take every      *)
(* mutex one by one with transactionMutex_ held, aborts keep the thread's  *)
(* own, and write-backs go on after transactionMutex_ is released.         *)
NoWaitingCycle ==
  \A S \in (SUBSET Thread) \ {{}} :
    \E t \in S : \A u \in S : ~WaitsFor(t, u)

(* The mapping to AtomicStore: a transaction runs while control is in Live *)
(* and takes effect when end() decides, before its first word is copied.   *)
Undecided == {t \in Thread : pc[t] \in Live}
Buffered  == [t \in Thread |->
  IF t \in Undecided THEN writeList[t] ELSE NothingWritten]

Atomic == INSTANCE AtomicStore WITH
  store <- Store, running <- Undecided, read <- seen, written <- Buffered

(* Transactions opened by use_atomic and try_atomic are atomic: the        *)
(* protocol implements AtomicStore.                                        *)
ImplementsAtomicStore == Atomic!ASpec

(* As long as writers keep calling end(), transactions keep committing:    *)
(* with a contention manager that always lets the committer win (the       *)
(* default one), conflicting transactions cannot abort each other for ever.*)
CommitsKeepComing ==
  []<>(\E t \in Thread : pc[t] = "general") =>
  []<>(\E t \in Thread : pc[t] = "writeBack")
-----------------------------------------------------------------------------
(* The inductive invariant behind these properties.                        *)

(* Who holds what.                                                         *)
LockInv ==
  /\ \A t \in Thread : transactionMutex = t <=> pc[t] \in {"recheck", "lockAll"}
  /\ \A t, u \in Thread : threadMutex[u] = t =>
       \/ pc[t] \in {"lockAll", "writeBack", "unlockAll"}
       \/ t = u /\ pc[t] \in Aborting \ {"aborting"}
  /\ \A t \in Thread : pc[t] = "writeBack" => HoldsAll(t)
  /\ \A t \in Thread : pc[t] \in Aborting \ {"aborting"} => threadMutex[t] = t

(* What is left of a context that is not running.                          *)
ContextInv == \A t \in Thread :
  /\ pc[t] \notin Live => handles[t] = {} /\ seen[t] = NothingSeen
  /\ pc[t] \notin Live \cup {"writeBack"} => writeList[t] = NothingWritten
  /\ pc[t] \in Aborting \cup {"entering", "aborted"} => bloom[t] = {}
  /\ pc[t] \in Live => t \in transactionsInFlight
  /\ irrevocable[t] => t \in IrrevocableThread

(* The filter answers for all a running transaction has touched.           *)
FilterInv == \A t \in Thread, x \in Obj :
  /\ pc[t] \in Live
  /\ x \in handles[t] \cup Writes(t) \/ seen[t][x] # {}
  => Exists(t, x)

(* The filter of a running transaction that is not doomed does not hold an *)
(* object that another thread is copying to memory.                        *)
DisjointInv == \A t \in Protected, u \in Thread, x \in Obj :
  pc[t] \in Live /\ ~forcedToAbort[t] /\ t # u /\ u \in Copying(x)
  => ~Exists(t, x)

(* Nobody dooms a committer that holds transactionMutex_ and has tested its *)
(* flag for the second time.                                               *)
CommitterInv == \A t \in Thread : pc[t] = "lockAll" => ~forcedToAbort[t]

(* The five together: what every thread may rely on at every step.         *)
ProtocolInv ==
  LockInv /\ ContextInv /\ FilterInv /\ CommitterInv /\ DisjointInv
=============================================================================
