--------------------------- MODULE ThreadRegistry ---------------------------
(***************************************************************************)
(* Threads that register with the library while others commit:             *)
(* initialize_thread() and terminate_thread() of libs/stm/src/             *)
(* transaction.cpp against the walks over threadMutexes_ that a commit     *)
(* makes (transaction_impl.hpp).                                           *)
(*                                                                         *)
(* threadMutexes_ is a vector_map (config.hpp does not define              *)
(* MAP_THREAD_MUTEX_CONTAINER): a thread's mutex is appended once, and     *)
(* with USE_SINGLE_THREAD_CONTEXT_MAP terminate_thread() leaves it there.  *)
(* Every walk compares its iterator with end() as it is at that moment.    *)
(* The vector is reserved for 128 threads, so appending moves nothing.     *)
(*                                                                         *)
(* unlock() gives the mutex back whoever holds it, which is what a         *)
(* pthread mutex of the default kind does in practice.                     *)
(*                                                                         *)
(* What transactions read and write is in DeferredStm; here a transaction  *)
(* is the locks it takes.  transactionsInFlightMutex_ is only held for     *)
(* sections that never wait for another lock, which are not shown.         *)
(***************************************************************************)
EXTENDS Integers, Sequences

CONSTANTS
  Thread,    \* the threads of the program
  NoThread

ASSUME RegistryAssumption == NoThread \notin Thread

VARIABLES
  barrier,          \* do the threads of this program wait for one another
                    \* before they start to commit (the tests do, in
                    \* idleUntilAllThreadsHaveReached)
  registry,         \* threadMutexes_: whose mutex is at each position
  contexts,         \* the keys of tss_context_map_
  transactionMutex, \* owner of transactionMutex_ ("general access")
  threadMutex,      \* owner of each thread's mutex
  cursor,           \* position of the iterator of the walk a thread is in
  pc                \* where each thread is

walkVars == <<registry, contexts, transactionMutex, threadMutex, cursor, pc>>
vars == <<barrier, walkVars>>

Location == {"outside", "registering", "registered", "idle", "locked",
             "lockAll", "writeBack", "unlockAll", "denied", "aborting"}

Init ==
  /\ barrier \in BOOLEAN
  /\ registry = <<>>
  /\ contexts = {}
  /\ transactionMutex = NoThread
  /\ threadMutex = [t \in Thread |-> NoThread]
  /\ cursor = [t \in Thread |-> 1]
  /\ pc = [t \in Thread |-> "outside"]

-----------------------------------------------------------------------------
(* Walks over threadMutexes_.                                              *)

Registered == {registry[i] : i \in DOMAIN registry}

(* i != threadMutexes_.end(), and i->first.                                *)
Walking(t) == cursor[t] <= Len(registry)
Here(t) == registry[cursor[t]]

Goto(t, l) == pc' = [pc EXCEPT ![t] = l]
Rewind(t) == cursor' = [cursor EXCEPT ![t] = 1]
Advance(t) == cursor' = [cursor EXCEPT ![t] = @ + 1]

(* Fault: lock() is a trylock() whose answer is ignored.                   *)
LockHereAnyway(t, skip) ==
  /\ Walking(t)
  /\ Advance(t)
  /\ threadMutex' = [threadMutex EXCEPT ![Here(t)] =
                        IF Here(t) \in skip \/ @ # NoThread THEN @ ELSE t]
  /\ UNCHANGED <<registry, contexts, transactionMutex, pc>>

(* Fault: a mutex that is taken makes the walk start over.                 *)
LockHereAgain(t, skip) ==
  /\ Walking(t)
  /\ IF Here(t) \notin skip /\ threadMutex[Here(t)] # NoThread
     THEN Rewind(t) /\ UNCHANGED threadMutex
     ELSE /\ Advance(t)
          /\ threadMutex' = [threadMutex EXCEPT ![Here(t)] =
                                IF Here(t) \in skip THEN @ ELSE t]
  /\ UNCHANGED <<registry, contexts, transactionMutex, pc>>

(* One round of the loops of lock_all_mutexes() and                        *)
(* lock_all_mutexes_but_this(): skip is {} or {t}.                         *)
LockHere(t, skip) ==
  /\ Walking(t)
  /\ Advance(t)
  /\ \/ Here(t) \in skip /\ UNCHANGED threadMutex
     \/ /\ Here(t) \notin skip
        /\ threadMutex[Here(t)] = NoThread
        /\ threadMutex' = [threadMutex EXCEPT ![Here(t)] = t]
  /\ UNCHANGED <<registry, contexts, transactionMutex, pc>>

(* Fault: the "but this" walk gives back the thread's own mutex too.       *)
UnlockHereToo(t, skip) ==
  /\ Walking(t)
  /\ Advance(t)
  /\ threadMutex' = [threadMutex EXCEPT ![Here(t)] = NoThread]
  /\ UNCHANGED <<registry, contexts, transactionMutex, pc>>

(* One round of unlock_all_mutexes() and unlock_all_mutexes_but_this().    *)
UnlockHere(t, skip) ==
  /\ Walking(t)
  /\ Advance(t)
  /\ threadMutex' = [threadMutex EXCEPT ![Here(t)] =
                        IF Here(t) \in skip THEN @ ELSE NoThread]
  /\ UNCHANGED <<registry, contexts, transactionMutex, pc>>

-----------------------------------------------------------------------------
(* initialize_thread() and terminate_thread().                             *)

InitializeThread(t) ==
  /\ pc[t] = "outside"
  /\ transactionMutex = NoThread
  /\ transactionMutex' = t
  /\ Goto(t, "registering") /\ Rewind(t)
  /\ UNCHANGED <<registry, contexts, threadMutex>>

(* Fault: lock_all_mutexes() instead of lock_all_mutexes_but_this().       *)
RegisterLockAll(t) == pc[t] = "registering" /\ LockHere(t, {})

RegisterLock(t) == pc[t] = "registering" /\ LockHere(t, {t})

(* Fault: a thread that comes back gets a second mutex.                    *)
RegisterInsertTwice(t) ==
  /\ pc[t] = "registering"
  /\ ~Walking(t)
  /\ registry' = Append(registry, t)
  /\ contexts' = contexts \union {t}
  /\ Goto(t, "registered") /\ Rewind(t)
  /\ UNCHANGED <<transactionMutex, threadMutex>>

(* Fault: lock_all_mutexes_but_this() is left out.                         *)
RegisterInsertUnlocked(t) ==
  /\ pc[t] = "registering"
  /\ registry' = IF t \in Registered THEN registry ELSE Append(registry, t)
  /\ contexts' = contexts \union {t}
  /\ Goto(t, "registered") /\ Rewind(t)
  /\ UNCHANGED <<transactionMutex, threadMutex>>

(* Each container gets what is missing: a thread that comes back after     *)
(* terminate_thread() finds its mutex and needs a context only.            *)
RegisterInsert(t) ==
  /\ pc[t] = "registering"
  /\ ~Walking(t)
  /\ registry' = IF t \in Registered THEN registry ELSE Append(registry, t)
  /\ contexts' = contexts \union {t}
  /\ Goto(t, "registered") /\ Rewind(t)
  /\ UNCHANGED <<transactionMutex, threadMutex>>

RegisterUnlock(t) == pc[t] = "registered" /\ UnlockHere(t, {t})

RegisterDone(t) ==
  /\ pc[t] = "registered"
  /\ ~Walking(t)
  /\ transactionMutex' = NoThread
  /\ Goto(t, "idle")
  /\ UNCHANGED <<registry, contexts, threadMutex, cursor>>

TerminateThread(t) ==
  /\ pc[t] = "idle"
  /\ transactionMutex = NoThread
  /\ contexts' = contexts \ {t}
  /\ Goto(t, "outside")
  /\ UNCHANGED <<registry, transactionMutex, threadMutex, cursor>>

-----------------------------------------------------------------------------
(* What transactions do with the mutexes.                                  *)

(* lock_tx() and unlock_tx() around a read, a write or an abort.           *)
LockTx(t) ==
  /\ pc[t] = "idle"
  /\ threadMutex[t] = NoThread
  /\ threadMutex' = [threadMutex EXCEPT ![t] = t]
  /\ Goto(t, "locked")
  /\ UNCHANGED <<registry, contexts, transactionMutex, cursor>>

UnlockTx(t) ==
  /\ pc[t] \in {"locked", "aborting"}
  /\ threadMutex' = [threadMutex EXCEPT ![t] = NoThread]
  /\ Goto(t, "idle")
  /\ UNCHANGED <<registry, contexts, transactionMutex, cursor>>

(* invalidating_deferred_end_transaction() of a writer, up to              *)
(* lock_all_mutexes().                                                     *)
EndTransaction(t) ==
  /\ pc[t] = "idle"
  /\ barrier => Registered = Thread
  /\ transactionMutex = NoThread
  /\ transactionMutex' = t
  /\ Goto(t, "lockAll") /\ Rewind(t)
  /\ UNCHANGED <<registry, contexts, threadMutex>>

LockMutex(t) == pc[t] = "lockAll" /\ LockHere(t, {})

(* Fault: the walk stops one short of the end.                             *)
CommitEarly(t) ==
  /\ pc[t] = "lockAll"
  /\ cursor[t] >= Len(registry)
  /\ transactionMutex' = NoThread
  /\ Goto(t, "writeBack")
  /\ UNCHANGED <<registry, contexts, threadMutex, cursor>>

(* The last mutex is held: invalidating_deferred_commit() dooms the        *)
(* others, releases transactionMutex_ and starts to copy ...               *)
Commit(t) ==
  /\ pc[t] = "lockAll"
  /\ ~Walking(t)
  /\ transactionMutex' = NoThread
  /\ Goto(t, "writeBack")
  /\ UNCHANGED <<registry, contexts, threadMutex, cursor>>

(* ... or the contention manager refuses.                                  *)
CommitDenied(t) ==
  /\ pc[t] = "lockAll"
  /\ ~Walking(t)
  /\ Goto(t, "denied") /\ Rewind(t)
  /\ UNCHANGED <<registry, contexts, transactionMutex, threadMutex>>

(* The handler of invalidating_deferred_commit(): the others' mutexes,     *)
(* then transactionMutex_; UnlockTx follows the abort.                     *)
DeniedUnlock(t) == pc[t] = "denied" /\ UnlockHere(t, {t})

DeniedDone(t) ==
  /\ pc[t] = "denied"
  /\ ~Walking(t)
  /\ transactionMutex' = NoThread
  /\ Goto(t, "aborting")
  /\ UNCHANGED <<registry, contexts, threadMutex, cursor>>

WriteBackDone(t) ==
  /\ pc[t] = "writeBack"
  /\ Goto(t, "unlockAll") /\ Rewind(t)
  /\ UNCHANGED <<registry, contexts, transactionMutex, threadMutex>>

UnlockMutex(t) == pc[t] = "unlockAll" /\ UnlockHere(t, {})

Committed(t) ==
  /\ pc[t] = "unlockAll"
  /\ ~Walking(t)
  /\ Goto(t, "idle")
  /\ UNCHANGED <<registry, contexts, transactionMutex, threadMutex, cursor>>

Step(t) ==
  \/ InitializeThread(t) \/ RegisterLock(t) \/ RegisterInsert(t)
  \/ RegisterUnlock(t) \/ RegisterDone(t) \/ TerminateThread(t)
  \/ LockTx(t) \/ UnlockTx(t)
  \/ EndTransaction(t) \/ LockMutex(t) \/ Commit(t) \/ CommitDenied(t)
  \/ DeniedUnlock(t) \/ DeniedDone(t)
  \/ WriteBackDone(t) \/ UnlockMutex(t) \/ Committed(t)

Next == UNCHANGED barrier /\ \E t \in Thread : Step(t)

Spec == Init /\ [][Next]_vars

(* A thread inside the library keeps running; lock() on a mutex that its   *)
(* owner takes with trylock() and SLEEP(1) gets its turn.                  *)
Fairness ==
  \A t \in Thread :
    /\ SF_walkVars(RegisterLock(t)) /\ SF_walkVars(LockMutex(t))
    /\ WF_walkVars(RegisterInsert(t) \/ RegisterUnlock(t) \/ RegisterDone(t))
    /\ WF_walkVars(UnlockTx(t))
    /\ WF_walkVars(Commit(t) \/ CommitDenied(t))
    /\ WF_walkVars(DeniedUnlock(t) \/ DeniedDone(t))
    /\ WF_walkVars(WriteBackDone(t) \/ UnlockMutex(t) \/ Committed(t))

FairSpec == Spec /\ Fairness

-----------------------------------------------------------------------------
(* Properties.                                                             *)

(* Types; a thread past initialize_thread() has a mutex and a context, and *)
(* no thread has two mutexes.                                              *)
TypeOK ==
  /\ barrier \in BOOLEAN
  /\ registry \in Seq(Thread)
  /\ contexts \subseteq Registered
  /\ transactionMutex \in Thread \union {NoThread}
  /\ threadMutex \in [Thread -> Thread \union {NoThread}]
  /\ cursor \in [Thread -> Nat \ {0}]
  /\ pc \in [Thread -> Location]
  /\ \A i, j \in DOMAIN registry : registry[i] = registry[j] => i = j
  /\ \A t \in Thread : pc[t] \notin {"outside", "registering"} => t \in contexts

(* The mutexes a thread's next unlock() may be called on.                  *)
Unlocking(t) ==
  CASE pc[t] \in {"locked", "aborting"} -> {t}
    [] pc[t] = "unlockAll" /\ Walking(t) -> {Here(t)}
    [] pc[t] \in {"registered", "denied"} /\ Walking(t) -> {Here(t)} \ {t}
    [] OTHER -> {}

(* "end_transaction() cannot unlock mutexes it doesn't own"                *)
(* (transaction.cpp:186), nor can anybody else.                            *)
UnlocksOwnMutexes ==
  \A t \in Thread : \A m \in Unlocking(t) : threadMutex[m] = t

(* So it is where commits wait until every thread has registered.          *)
UnlocksOwnBehindBarrier == barrier => UnlocksOwnMutexes

(* Behind the barrier, while a committer copies its writes to memory, no   *)
(* other thread is between lock_tx() and unlock_tx(): nobody extends a     *)
(* filter, returns a reference to an object or aborts meanwhile.           *)
NoAccessUnderWriteBack ==
  barrier => \A t, u \in Thread :
    pc[t] = "writeBack" /\ u # t => pc[u] \notin {"locked", "aborting"}

(* Two commits never copy at the same time, whoever registers meanwhile.   *)
OneWriteBack ==
  \A t, u \in Thread : pc[t] = "writeBack" /\ pc[u] = "writeBack" => t = u

(* threadMutexes_ does not grow from the moment a commit starts to lock    *)
(* the mutexes in it until the moment it starts to unlock them: a mutex    *)
(* that is added is never left out of a commit in progress.                *)
RegistryFrozenByCommit ==
  [][registry' # registry =>
       \A t \in Thread : pc[t] \notin {"lockAll", "denied", "writeBack"}]_vars

(* What a thread may be blocked on in its place: transactionMutex_, its    *)
(* own mutex, or the mutex its walk stands on.                             *)
WaitsFor(t, u) ==
  \/ pc[t] \in {"outside", "idle"} /\ transactionMutex = u
  \/ pc[t] = "idle" /\ threadMutex[t] = u
  \/ /\ Walking(t) /\ threadMutex[Here(t)] = u
     /\ \/ pc[t] = "lockAll"
        \/ pc[t] = "registering" /\ Here(t) # t

(* No group of threads is blocked for good, barrier or not: in each of     *)
(* them one waits for none of the others, nor for itself, although         *)
(* initialize_thread() waits for mutexes of commits that are already       *)
(* without transactionMutex_, and a walk may unlock a mutex of another     *)
(* thread.                                                                 *)
NoWaitingCycle ==
  \A S \in (SUBSET Thread) \ {{}} :
    \E t \in S : \A u \in S : ~WaitsFor(t, u)

(* initialize_thread() and end() come to an end once they hold             *)
(* transactionMutex_: no cycle of threads waits for one another's mutexes. *)
WalksEnd ==
  \A t \in Thread : pc[t] \in {"registering", "lockAll"} ~> pc[t] = "idle"

-----------------------------------------------------------------------------
(* The inductive invariant.                                                *)

(* The owners in the part of the registry a walk has, or has not, passed.  *)
Before(t) == {registry[i] : i \in {j \in DOMAIN registry : j < cursor[t]}}
From(t) == {registry[i] : i \in {j \in DOMAIN registry : j >= cursor[t]}}

(* The mutexes a thread has locked and not yet unlocked, by its own count. *)
Locked(t) ==
  CASE pc[t] = "registering" -> Before(t) \ {t}
    [] pc[t] = "registered"  -> From(t) \ {t}
    [] pc[t] = "lockAll"     -> Before(t)
    [] pc[t] = "writeBack"   -> Registered
    [] pc[t] = "unlockAll"   -> From(t)
    [] pc[t] = "denied"      -> From(t) \union {t}
    [] pc[t] \in {"locked", "aborting"} -> {t}
    [] OTHER -> {}

(* The mutexes no thread can lose: all of them when commits wait for every *)
(* thread to register, otherwise only the oldest, which no walk finds      *)
(* after having found end().                                               *)
Guarded == {registry[i] : i \in {j \in DOMAIN registry : barrier \/ j = 1}}

(* What a thread counts as locked and cannot lose, it owns; so it does     *)
(* transactionMutex_ where it should; and behind the barrier a commit      *)
(* finds every thread registered.                                          *)
RegistryInv ==
  /\ \A t \in Thread :
       pc[t] \in {"registering", "registered", "lockAll", "denied"} =>
         transactionMutex = t
  /\ \A t \in Thread : \A m \in Locked(t) \intersect Guarded : threadMutex[m] = t
  /\ \A t \in Thread :
       pc[t] \in {"lockAll", "denied", "aborting", "writeBack", "unlockAll"}
         /\ barrier => Registered = Thread
=============================================================================
