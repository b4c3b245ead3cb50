-------------------------------- MODULE Latm --------------------------------
(***************************************************************************)
(* Lock-aware transactions: user locks taken through transaction::lock_(), *)
(* trylock_() and unlock_() (boost/stm/detail/latm_*.hpp) against the      *)
(* transactions they suspend, isolated and irrevocable transactions, and   *)
(* the gate a transaction passes before it goes in flight                  *)
(* (transaction_impl.hpp).                                                 *)
(*                                                                         *)
(* The protection (full, tm or tx) and the kind of update are static       *)
(* members that a program sets before its threads start: here variables    *)
(* that no step changes.                                                   *)
(*                                                                         *)
(* A transaction is what locks can tell of it: in flight or not, doomed or *)
(* not, with or without uncommitted writes.  Which transactions a commit   *)
(* dooms is left open; DeferredStm and DirectStm are about that.           *)
(*                                                                         *)
(* latmMutex_ is held across steps where the code waits with it, and       *)
(* transactionsInFlightMutex_ from the gate's test to the insertion.  With *)
(* deferred update unlock_() of full and tm protection frees the latter,   *)
(* whoever holds it (StrayUnlock): there a section under it is entered in  *)
(* a step of its own, and a thread that lost it gives it back, to whoever  *)
(* holds it by then, in another.  Elsewhere nobody can lose it, and a      *)
(* section is the step that does its work.                                 *)
(*                                                                         *)
(* A definition introduced as "Fault:" is not part of the specification.   *)
(***************************************************************************)
EXTENDS FiniteSets, Integers, Sequences

CONSTANTS
  Thread, Mutex,
  Policy,        \* the protections considered: "full", "tm", "tx"
  Update,        \* the kinds of update considered: TRUE is direct
  NoThread, NoMutex

ASSUME LatmAssumption ==
  /\ Policy \subseteq {"full", "tm", "tx"}
  /\ Update \subseteq BOOLEAN
  /\ NoThread \notin Thread
  /\ NoMutex \notin Mutex

VARIABLES
  policy,               \* eLatmType_
  direct,               \* direct_updating_
  owner,                \* who holds each user mutex
  latmMutex,            \* who holds latmMutex_
  latmLockedLocks,
  locksOfThread,        \* latmLockedLocksOfThreadMap_
  locksAndThreadIds,    \* latmLockedLocksAndThreadIdsMap_, {} where absent
  tmConflictingLocks,
  txConflictingLocks,   \* threadConflictingMutexes_
  obtainedLocks,        \* threadObtainedLocks_
  currentlyLockedLocks, \* threadCurrentlyLockedLocks_
  blocked,              \* threadBlockedLists_
  transactionsInFlight,
  forcedToAbort,
  txType,
  call,                 \* the lock call in progress
  todo,                 \* what is left of that call
  slipped,              \* history: see Slips and SlippedPast
  isolatedNow,          \* history: this transaction made itself isolated
  overtaken,            \* history: see Overtakes
  inflightMutex,        \* who holds transactionsInFlightMutex_
  section,              \* where a thread is in a section under it
  pc

config   == <<policy, direct>>
lockVars == <<owner, latmMutex, latmLockedLocks, locksOfThread,
              locksAndThreadIds>>
declVars == <<tmConflictingLocks, txConflictingLocks>>
heldVars == <<obtainedLocks, currentlyLockedLocks>>
txVars   == <<transactionsInFlight, forcedToAbort, txType, slipped,
              isolatedNow, overtaken>>
control  == <<call, todo, pc>>
sectionVars == <<inflightMutex, section>>

vars == <<config, lockVars, declVars, heldVars, blocked, txVars, control,
          sectionVars>>

NoCall == [mutex |-> NoMutex, try |-> FALSE, had |-> FALSE]

Location == {"out", "entering", "body", "added", "leave", "writeBack"}
CallStep == {"mutex", "core", "drain", "register", "isolate", "irrevocable",
             "list", "current", "publish", "note", "settle", "take", "suspend",
             "look", "unlock"}
Section == {"none", "in", "gate", "over"}

Init ==
  /\ policy \in Policy /\ direct \in Update
  /\ owner = [m \in Mutex |-> NoThread]
  /\ latmMutex = NoThread
  /\ latmLockedLocks = {}
  /\ locksOfThread = [m \in Mutex |-> NoThread]
  /\ locksAndThreadIds = [m \in Mutex |-> {}]
  /\ tmConflictingLocks = {}
  /\ txConflictingLocks = [t \in Thread |-> {}]
  /\ obtainedLocks = [t \in Thread |-> {}]
  /\ currentlyLockedLocks = [t \in Thread |-> {}]
  /\ blocked = [t \in Thread |-> FALSE]
  /\ transactionsInFlight = {}
  /\ forcedToAbort = [t \in Thread |-> FALSE]
  /\ txType = [t \in Thread |-> "normal"]
  /\ call = [t \in Thread |-> NoCall]
  /\ todo = [t \in Thread |-> <<>>]
  /\ slipped = [t \in Thread |-> FALSE]
  /\ isolatedNow = [t \in Thread |-> FALSE]
  /\ overtaken = [t \in Thread |-> FALSE]
  /\ inflightMutex = NoThread
  /\ section = [t \in Thread |-> "none"]
  /\ pc = [t \in Thread |-> "out"]

-----------------------------------------------------------------------------
(* The lock calls.  Each of the functions behind lock_() and trylock_() is *)
(* a sequence of steps for a caller outside of transactions and one for a  *)
(* caller inside; the steps are the actions further down.                  *)

DefFullLock == [outside |-> <<"mutex", "core", "register">>,
                inTx |-> <<"isolate", "list", "publish", "note", "take">>]
DefFullTrylock == DefFullLock
DirFullLock == [outside |-> <<"mutex", "core", "drain", "register">>,
                inTx |-> <<"isolate", "list", "settle", "take">>]
DirFullTrylock == DirFullLock

DefTmLock == [outside |-> <<"mutex", "core", "register">>,
              inTx |-> <<"isolate", "publish", "current", "note", "take">>]
DefTmTrylock == DefTmLock
DirTmLock == [outside |-> <<"mutex", "core", "drain", "register">>,
              inTx |-> <<"isolate", "note", "take">>]
DirTmTrylock == DirTmLock

DefTxLock == [outside |-> <<"mutex", "core", "register">>,
              inTx |-> <<"irrevocable", "take", "list", "publish", "suspend">>]
DirTxLock == [outside |-> <<"mutex", "core", "drain", "register">>,
              inTx |-> <<"irrevocable", "take", "list", "suspend">>]

(* trylock_() in tx protection throws before it does anything.             *)
DefTxTrylock == [outside |-> <<>>, inTx |-> <<>>]
DirTxTrylock == DefTxTrylock

PthreadLock ==
  CASE policy = "full" -> IF direct THEN DirFullLock ELSE DefFullLock
    [] policy = "tm" -> IF direct THEN DirTmLock ELSE DefTmLock
    [] policy = "tx" -> IF direct THEN DirTxLock ELSE DefTxLock

PthreadTrylock ==
  CASE policy = "full" -> IF direct THEN DirFullTrylock ELSE DefFullTrylock
    [] policy = "tm" -> IF direct THEN DirTmTrylock ELSE DefTmTrylock
    [] policy = "tx" -> IF direct THEN DirTxTrylock ELSE DefTxTrylock

LockFunction(try) == IF try THEN PthreadTrylock ELSE PthreadLock

-----------------------------------------------------------------------------
Irrevocable(t) == txType[t] # "normal"
Isolated(t) == txType[t] = "isolated"
InFlight == transactionsInFlight
Others(t) == InFlight \ {t}
LatmFree == latmMutex = NoThread

(* Past the gate and not in the list of transactions in flight yet.        *)
AtGate(t) == section[t] = "gate"

(* Between calls, at a place of the transaction's life.                    *)
At(t, l) == todo[t] = <<>> /\ pc[t] = l
Goto(t, l) == pc' = [pc EXCEPT ![t] = l]

(* In a call, about to make step s.                                        *)
Next1(t, s) == todo[t] # <<>> /\ Head(todo[t]) = s
Arg(t) == call[t].mutex
Proceed(t) ==
  /\ todo' = [todo EXCEPT ![t] = Tail(@)]
  /\ call' = [call EXCEPT ![t] = IF Tail(todo[t]) = <<>> THEN NoCall ELSE @]
Returns(t) ==
  /\ todo' = [todo EXCEPT ![t] = <<>>]
  /\ call' = [call EXCEPT ![t] = NoCall]

IsolatedTxInFlight(t) == \E u \in Others(t) : Isolated(u)
IrrevocableTxInFlight(t) == \E u \in Others(t) : Irrevocable(u)

(* force_to_abort() on each of the threads of ts: irrevocable ones stay.   *)
ForceToAbort(ts) ==
  forcedToAbort' = [u \in Thread |->
    forcedToAbort[u] \/ (u \in ts /\ ~Irrevocable(u))]

MutexIsOnObtainedList(m, obtained) == \E v \in Thread : m \in obtained[v]

(* thread_conflicting_mutexes_set_all_cnd(m): who declared m is unblocked, *)
(* unless it waits for another lock.                                       *)
UnblockAllOn(m, declared, threadIds) ==
  {u \in Thread : m \in declared[u] /\ \A k \in Mutex : u \notin threadIds[k]}

(* unblock_conflicting_threads(m).                                         *)
UnblockConflicting(m, declared, threadIds, obtained) ==
  IF threadIds[m] # {} \/ MutexIsOnObtainedList(m, obtained) THEN {}
  ELSE UnblockAllOn(m, declared, threadIds)

-----------------------------------------------------------------------------
(* Sections under transactionsInFlightMutex_ (lock_inflight_access(),      *)
(* unlock_inflight_access()).                                              *)

(* Where unlock_() frees the mutex of whoever holds it.                    *)
Strays == ~direct /\ policy # "tx"

Inside(t) ==
  IF Strays THEN section[t] = "in"
  ELSE section[t] = "none" /\ inflightMutex = NoThread

(* The section ends with the step; one that has lost the mutex still gives *)
(* it back, in LeaveInflight.                                              *)
Leaves(t) ==
  /\ inflightMutex' = IF inflightMutex = t THEN NoThread ELSE inflightMutex
  /\ section' = [section EXCEPT ![t] =
       IF @ = "none" \/ inflightMutex = t THEN "none" ELSE "over"]

(* A lock or an isolation is granted by a thread inside while a            *)
(* transaction is between the gate and the list: two sections at once.     *)
Overtakes == overtaken' = [u \in Thread |-> overtaken[u] \/ AtGate(u)]

(* transactionMutex_ is taken before the in-flight mutex, and the end of a *)
(* writer gives it back last.                                              *)
HoldsGeneral(t) ==
  \/ section[t] = "in" /\ (Next1(t, "core") \/ Next1(t, "isolate"))
  \/ section[t] = "over" /\ pc[t] = "writeBack"
GeneralFree(t) == \A u \in Thread \ {t} : ~HoldsGeneral(u)

-----------------------------------------------------------------------------
(* Declarations.                                                           *)

(* tm_lock_conflict(), called before the threads that use the locks start. *)
TmLockConflict(m) ==
  /\ policy = "tm" /\ m \notin tmConflictingLocks
  /\ \A t \in Thread : At(t, "out")
  /\ \A k \in Mutex : owner[k] = NoThread
  /\ tmConflictingLocks' = tmConflictingLocks \cup {m}
  /\ UNCHANGED <<config, lockVars, txConflictingLocks, heldVars, blocked,
                 txVars, control>>

(* The declared locks of t that another thread has registered.             *)
TakenByOthers(t, declared) ==
  {k \in declared : locksOfThread[k] \notin {NoThread, t}}

(* block_if_conflict_mutex(): another thread's transaction obtained one.   *)
ConflictMutex(t, declared) ==
  \E u \in Thread \ {t} : obtainedLocks[u] \cap declared # {}

(* see_if_tx_must_block_due_to_tx_latm().  The loop over the declared      *)
(* locks stops at the first one that another thread has registered, and    *)
(* enters t in the map for that one only.                                  *)
SeeIfTxMustBlock(t, declared) ==
  /\ blocked' = [blocked EXCEPT ![t] =
       \/ @
       \/ \E k \in declared : locksAndThreadIds[k] # {}
       \/ ConflictMutex(t, declared)
       \/ TakenByOthers(t, declared) # {}]
  /\ IF TakenByOthers(t, declared) = {} THEN UNCHANGED locksAndThreadIds
     ELSE \E k \in TakenByOthers(t, declared) :
            locksAndThreadIds' = [locksAndThreadIds EXCEPT ![k] = @ \cup {t}]

(* add_tx_conflicting_lock(): for a lock that is declared already, also    *)
(* from an earlier attempt, the call returns at once.                      *)
AddTxConflictingLock(t, m) ==
  LET declared == txConflictingLocks[t] \cup {m} IN
  /\ policy = "tx" /\ At(t, "body") /\ LatmFree
  /\ m \notin txConflictingLocks[t]
  /\ txConflictingLocks' = [txConflictingLocks EXCEPT ![t] = declared]
  /\ IF Irrevocable(t) THEN UNCHANGED <<blocked, locksAndThreadIds, pc>>
     ELSE SeeIfTxMustBlock(t, declared) /\ Goto(t, "added")
  /\ UNCHANGED <<config, owner, latmMutex, latmLockedLocks, locksOfThread,
                 tmConflictingLocks, heldVars, txVars, call, todo>>

(* The declaration did not block the thread.                               *)
Declared(t) ==
  /\ At(t, "added") /\ ~blocked[t]
  /\ Goto(t, "body")
  /\ UNCHANGED <<config, lockVars, declVars, heldVars, blocked, txVars, call,
                 todo>>

-----------------------------------------------------------------------------
(* How a transaction ends.                                                 *)

(* Fault: the lock call that found the flag goes on afterwards.            *)
AbortsMidCall(t) ==
  /\ transactionsInFlight' = InFlight \ {t}
  /\ forcedToAbort' = [forcedToAbort EXCEPT ![t] = FALSE]
  /\ slipped' = [slipped EXCEPT ![t] = FALSE]
  /\ isolatedNow' = [isolatedNow EXCEPT ![t] = FALSE]
  /\ overtaken' = [overtaken EXCEPT ![t] = FALSE]
  /\ call' = [call EXCEPT ![t] = NoCall]
  /\ Goto(t, "out")
  /\ UNCHANGED <<txType, todo>>

(* direct_abort() or deferred_abort(): what the transaction wrote is gone; *)
(* its type, its declared and its obtained locks stay.                     *)
Aborts(t) ==
  /\ transactionsInFlight' = InFlight \ {t}
  /\ forcedToAbort' = [forcedToAbort EXCEPT ![t] = FALSE]
  /\ slipped' = [slipped EXCEPT ![t] = FALSE]
  /\ isolatedNow' = [isolatedNow EXCEPT ![t] = FALSE]
  /\ overtaken' = [overtaken EXCEPT ![t] = FALSE]
  /\ Returns(t)
  /\ Goto(t, "out")
  /\ UNCHANGED txType

(* clear_latm_obtained_locks(): lets go of the threads that the obtained   *)
(* locks kept out, one lock after the other.                               *)
ClearLatmObtainedLocks(t, declared) ==
  LET obtained == [obtainedLocks EXCEPT ![t] = {}] IN
  /\ obtainedLocks' = obtained
  /\ currentlyLockedLocks' = [currentlyLockedLocks EXCEPT ![t] = {}]
  /\ blocked' = [u \in Thread |->
       /\ blocked[u]
       /\ \A m \in obtainedLocks[t] :
            u \notin UnblockConflicting(m, declared, locksAndThreadIds, obtained)]

(* What every commit does last.                                            *)
Commits(t) ==
  LET declared == [txConflictingLocks EXCEPT ![t] = {}] IN
  /\ txType' = [txType EXCEPT ![t] = "normal"]
  /\ txConflictingLocks' = declared
  /\ ClearLatmObtainedLocks(t, declared)
  /\ slipped' = [slipped EXCEPT ![t] = FALSE]
  /\ isolatedNow' = [isolatedNow EXCEPT ![t] = FALSE]
  /\ overtaken' = [overtaken EXCEPT ![t] = FALSE]
  /\ Goto(t, "out")
  /\ UNCHANGED <<config, lockVars, tmConflictingLocks, call, todo>>

-----------------------------------------------------------------------------
(* Transactions.                                                           *)

(* The loop on blocked() in the constructor, in begin() and in restart().  *)
Begin(t) ==
  /\ At(t, "out") /\ ~blocked[t]
  /\ Goto(t, "entering")
  /\ UNCHANGED <<config, lockVars, declVars, heldVars, blocked, txVars, call,
                 todo>>

(* Fault: a lock of another thread is looked for only in tm protection.    *)
CanGoInflightIfFull(t) ==
  policy = "tm" => \A m \in tmConflictingLocks \cap latmLockedLocks :
                     locksOfThread[m] \in {NoThread, t}

(* can_go_inflight(): tx protection has no test of its own.                *)
CanGoInflight(t) ==
  /\ policy = "full" => \A m \in Mutex : locksOfThread[m] \in {NoThread, t}
  /\ policy = "tm" => \A m \in tmConflictingLocks \cap latmLockedLocks :
                        locksOfThread[m] \in {NoThread, t}

(* m is granted to a thread that took it outside of transactions.          *)
TakenOutside(m) ==
  /\ owner[m] # NoThread
  /\ IF Next1(owner[m], "drain") /\ Arg(owner[m]) = m
     THEN policy = "tx" /\ locksOfThread[m] # owner[m]
     ELSE \/ Next1(owner[m], "register") /\ Arg(owner[m]) = m
          \/ IF policy = "tx" THEN locksOfThread[m] = owner[m]
             ELSE m \in latmLockedLocks

(* m keeps the transactions of t out.                                      *)
KeepsOut(m, t) ==
  \/ policy = "full"
  \/ policy = "tm" /\ m \in tmConflictingLocks
  \/ policy = "tx" /\ m \in txConflictingLocks[t]

(* A transaction slips in beside a lock that should keep it out: the lock  *)
(* is granted but not registered yet; or a transaction that waits for it   *)
(* has overwritten the register; or, in tx protection, the transaction     *)
(* declared the lock in an earlier attempt, and the gate does not look at  *)
(* declared locks.  See also Drained.                                      *)
Slips(t) ==
  \E m \in Mutex :
    /\ TakenOutside(m) /\ owner[m] # t /\ KeepsOut(m, t)
    /\ \/ policy = "tx" \/ m \notin latmLockedLocks
       \/ locksOfThread[m] # owner[m]

(* put_tx_inflight() finds the gate open ...                               *)
PassGate(t) ==
  /\ At(t, "entering") /\ Inside(t)
  /\ CanGoInflight(t) /\ ~IsolatedTxInFlight(t)
  /\ inflightMutex' = IF Strays THEN inflightMutex ELSE t
  /\ section' = [section EXCEPT ![t] = "gate"]
  /\ slipped' = [slipped EXCEPT ![t] = Slips(t)]
  /\ UNCHANGED <<config, lockVars, declVars, heldVars, blocked,
                 transactionsInFlight, forcedToAbort, txType, isolatedNow,
                 overtaken, control>>

(* ... and inserts the transaction.                                        *)
PutTxInflight(t) ==
  /\ AtGate(t)
  /\ Goto(t, "body")
  /\ transactionsInFlight' = InFlight \cup {t}
  /\ Leaves(t)
  /\ UNCHANGED <<config, lockVars, declVars, heldVars, blocked, forcedToAbort,
                 txType, slipped, isolatedNow, overtaken, call, todo>>

(* lock_and_abort(): an operation finds the flag set; the test after a     *)
(* declaration finds the thread blocked; make_isolated() finds the flag    *)
(* set.                                                                    *)
Abort(t) ==
  /\ \/ At(t, "body") /\ forcedToAbort[t]
     \/ At(t, "added") /\ blocked[t]
     \/ Next1(t, "isolate") /\ ~Isolated(t) /\ forcedToAbort[t]
  /\ Aborts(t)
  /\ UNCHANGED <<config, lockVars, declVars, heldVars, blocked>>

(* A user exception ends the transaction, after the guards of the locks it *)
(* took have released them.                                                *)
Unwind(t) ==
  /\ At(t, "body")
  /\ \A m \in currentlyLockedLocks[t] : owner[m] # t
  /\ Aborts(t)
  /\ UNCHANGED <<config, lockVars, declVars, heldVars, blocked>>

(* end() of a transaction with deferred update that only read: the flag is *)
(* tested, and then the transaction leaves; what it clears then it clears  *)
(* without a lock.                                                         *)
EndReadOnly(t) ==
  /\ At(t, "body") /\ ~direct /\ ~forcedToAbort[t]
  /\ Goto(t, "leave")
  /\ UNCHANGED <<config, lockVars, declVars, heldVars, blocked, txVars, call,
                 todo>>

LeaveReadOnly(t) ==
  /\ At(t, "leave")
  /\ transactionsInFlight' = InFlight \ {t}
  /\ Commits(t)
  /\ UNCHANGED forcedToAbort

(* end() of a writer with deferred update, up to the moment it leaves the  *)
(* in-flight list and gives transactionMutex_ back.  It holds the mutexes  *)
(* of all threads until its writes are copied.                             *)
Decide(t) ==
  /\ At(t, "body") /\ ~direct /\ ~forcedToAbort[t]
  /\ GeneralFree(t) /\ \A u \in Thread : ~At(u, "writeBack")
  /\ \E doomed \in SUBSET Others(t) : ForceToAbort(doomed)
  /\ transactionsInFlight' = InFlight \ {t}
  /\ Goto(t, "writeBack")
  /\ UNCHANGED <<config, lockVars, declVars, heldVars, blocked, txType,
                 slipped, isolatedNow, overtaken, call, todo>>

WriteBackDone(t) ==
  /\ At(t, "writeBack")
  /\ Commits(t)
  /\ UNCHANGED <<transactionsInFlight, forcedToAbort>>

(* end() with direct update: all of it under transactionMutex_.            *)
DirectCommit(t) ==
  /\ At(t, "body") /\ direct /\ ~forcedToAbort[t]
  /\ \E doomed \in SUBSET Others(t) : ForceToAbort(doomed)
  /\ transactionsInFlight' = InFlight \ {t}
  /\ Commits(t)

(* The contention manager or an irrevocable victim stops the commit; one   *)
(* with direct update and an irrevocable committer is not stopped.         *)
CommitDenied(t) ==
  /\ At(t, "body") /\ ~forcedToAbort[t] /\ GeneralFree(t)
  /\ direct => ~Irrevocable(t)
  /\ Others(t) # {}
  /\ Aborts(t)
  /\ UNCHANGED <<config, lockVars, declVars, heldVars, blocked>>

-----------------------------------------------------------------------------
(* lock_() and trylock_() outside of transactions.                         *)

Calls(t, m, try, steps) ==
  /\ steps # <<>>
  /\ call' = [call EXCEPT ![t] = [mutex |-> m, try |-> try,
                                  had |-> m \in currentlyLockedLocks[t]]]
  /\ todo' = [todo EXCEPT ![t] = steps]
  /\ UNCHANGED <<config, lockVars, declVars, heldVars, blocked, txVars, pc>>

LockCall(t, m, try) ==
  /\ At(t, "out") /\ owner[m] # t
  /\ Calls(t, m, try, LockFunction(try).outside)

TakeMutex(t) ==
  /\ Next1(t, "mutex") /\ owner[Arg(t)] = NoThread
  /\ owner' = [owner EXCEPT ![Arg(t)] = t]
  /\ Proceed(t)
  /\ UNCHANGED <<config, latmMutex, latmLockedLocks, locksOfThread,
                 locksAndThreadIds, declVars, heldVars, blocked, txVars, pc>>

TrylockFails(t) ==
  /\ Next1(t, "mutex") /\ call[t].try /\ owner[Arg(t)] # NoThread
  /\ Returns(t)
  /\ UNCHANGED <<config, lockVars, declVars, heldVars, blocked, txVars, pc>>

(* Locks that count among latmLockedLocks_.                                *)
Counts(m) == policy = "full" \/ (policy = "tm" /\ m \in tmConflictingLocks)
FirstLock(m) == Counts(m) /\ latmLockedLocks = {}
Inserts(m) ==
  latmLockedLocks' = latmLockedLocks \cup IF Counts(m) THEN {m} ELSE {}

(* The transactions in flight that a lock has to stop: all of them, when   *)
(* it is the first lock that counts, or those that declared it.            *)
Victims(t, m) ==
  IF policy = "tx" THEN {u \in Others(t) : m \in txConflictingLocks[u]}
  ELSE IF FirstLock(m) THEN Others(t) ELSE {}

(* The ..._do_core_..._pthread_lock_mutex() functions.                     *)
DefCoreFull(t, m) ==
  /\ ForceToAbort(Victims(t, m))
  /\ UNCHANGED <<blocked, locksAndThreadIds, locksOfThread>>

(* With direct update all threads are blocked until the last lock is       *)
(* released.                                                               *)
DirCoreFull(t, m) ==
  /\ ForceToAbort(Victims(t, m))
  /\ blocked' = [u \in Thread |-> blocked[u] \/ FirstLock(m)]
  /\ UNCHANGED <<locksAndThreadIds, locksOfThread>>

DefCoreTm(t, m) == DefCoreFull(t, m)
DirCoreTm(t, m) == DirCoreFull(t, m)

(* The victims are blocked and entered in the map, unless the lock has an  *)
(* entry there already.                                                    *)
DefCoreTx(t, m) ==
  /\ ForceToAbort(Victims(t, m))
  /\ blocked' = [u \in Thread |-> blocked[u] \/ u \in Victims(t, m)]
  /\ locksAndThreadIds' = [locksAndThreadIds EXCEPT ![m] =
       IF @ = {} THEN Victims(t, m) ELSE @]
  /\ UNCHANGED locksOfThread

DirCoreTx(t, m) ==
  /\ ForceToAbort(Victims(t, m))
  /\ blocked' = [u \in Thread |-> blocked[u] \/ u \in Victims(t, m)]
  /\ locksAndThreadIds' = [locksAndThreadIds EXCEPT ![m] =
       IF @ = {} THEN Victims(t, m) ELSE @]
  /\ locksOfThread' = [locksOfThread EXCEPT ![m] =
       IF Victims(t, m) = {} THEN @ ELSE t]

Core(t, m) ==
  \/ policy = "full" /\ ~direct /\ DefCoreFull(t, m)
  \/ policy = "full" /\ direct /\ DirCoreFull(t, m)
  \/ policy = "tm" /\ ~direct /\ DefCoreTm(t, m)
  \/ policy = "tm" /\ direct /\ DirCoreTm(t, m)
  \/ policy = "tx" /\ ~direct /\ DefCoreTx(t, m)
  \/ policy = "tx" /\ direct /\ DirCoreTx(t, m)

(* The core looks at the transactions in flight.                           *)
CoreSection(t) == policy = "tx" \/ FirstLock(Arg(t))

(* latmMutex_ is taken and stays so until the lock is registered.          *)
AtCore(t) ==
  Next1(t, "core") /\ latmMutex = IF section[t] = "in" THEN t ELSE NoThread

CoreGranted(t) ==
  /\ AtCore(t)
  /\ \A u \in Victims(t, Arg(t)) : ~Irrevocable(u)
  /\ latmMutex' = t
  /\ Core(t, Arg(t))
  /\ IF CoreSection(t) THEN Overtakes ELSE UNCHANGED overtaken
  /\ Proceed(t)
  /\ UNCHANGED <<config, owner, latmLockedLocks, declVars, heldVars,
                 transactionsInFlight, txType, slipped, isolatedNow, pc>>

(* A victim is irrevocable or allow_lock_to_abort_tx() refuses: lock()     *)
(* gives everything back, sleeps and tries again, trylock() returns -1.    *)
CoreRefused(t) ==
  /\ AtCore(t)
  /\ Victims(t, Arg(t)) # {}
  /\ owner' = [owner EXCEPT ![Arg(t)] = NoThread]
  /\ latmMutex' = NoThread
  /\ IF call[t].try THEN Returns(t)
     ELSE todo' = [todo EXCEPT ![t] = PthreadLock.outside] /\ UNCHANGED call
  /\ UNCHANGED <<config, latmLockedLocks, locksOfThread, locksAndThreadIds,
                 declVars, heldVars, blocked, txVars, pc>>

(* The wait of direct update, with latmMutex_ held: for all transactions,  *)
(* if this is the first lock, or for those that declared the lock, if any  *)
(* had to be doomed (the early registration tells).  Full and tm           *)
(* protection look at the list without its mutex: a transaction that the   *)
(* lock keeps out is not seen between the gate and the list, and slips in. *)
Drained(t) ==
  /\ Next1(t, "drain")
  /\ FirstLock(Arg(t)) => InFlight = {}
  /\ policy = "tx" => inflightMutex = NoThread
  /\ policy = "tx" /\ locksOfThread[Arg(t)] = t => Victims(t, Arg(t)) = {}
  /\ slipped' = [u \in Thread |->
       slipped[u] \/ (AtGate(u) /\ KeepsOut(Arg(t), u))]
  /\ Proceed(t)
  /\ UNCHANGED <<config, lockVars, declVars, heldVars, blocked,
                 transactionsInFlight, forcedToAbort, txType, isolatedNow,
                 overtaken, pc>>

(* The lock enters the two registers; can_go_inflight() reads them without *)
(* latmMutex_, and lets as much pass before the first entry as after it.   *)
Register(t) ==
  /\ Next1(t, "register")
  /\ Inserts(Arg(t))
  /\ locksOfThread' = [locksOfThread EXCEPT ![Arg(t)] = t]
  /\ latmMutex' = NoThread
  /\ Proceed(t)
  /\ UNCHANGED <<config, owner, locksAndThreadIds, declVars, heldVars,
                 blocked, txVars, pc>>

-----------------------------------------------------------------------------
(* unlock_().                                                              *)

Erases(m) ==
  latmLockedLocks' = latmLockedLocks \ IF Counts(m) THEN {m} ELSE {}

(* unlock_inflight_access() when the last lock is erased: its core gave    *)
(* the mutex back long ago, and who holds it now loses it.                 *)
StrayUnlock(m) ==
  inflightMutex' = IF Counts(m) /\ latmLockedLocks' = {} THEN NoThread
                   ELSE inflightMutex

DefFullUnlock(m) ==
  Erases(m) /\ StrayUnlock(m) /\ UNCHANGED <<blocked, locksAndThreadIds>>

(* Fault: the register is looked at before the lock is erased.             *)
DirFullUnlockEarly(m) ==
  /\ Erases(m)
  /\ blocked' = [u \in Thread |-> blocked[u] /\ ~(Counts(m) /\ latmLockedLocks = {})]
  /\ UNCHANGED <<locksAndThreadIds, inflightMutex>>

DirFullUnlock(m) ==
  /\ Erases(m)
  /\ blocked' = [u \in Thread |->
       blocked[u] /\ ~(Counts(m) /\ latmLockedLocks' = {})]
  /\ UNCHANGED <<locksAndThreadIds, inflightMutex>>

DefTmUnlock(m) == DefFullUnlock(m)
DirTmUnlock(m) == DirFullUnlock(m)

DefTxUnlock(m) ==
  LET threadIds == [locksAndThreadIds EXCEPT ![m] = {}] IN
  /\ locksAndThreadIds' = threadIds
  /\ blocked' = [u \in Thread |->
       /\ blocked[u]
       /\ locksAndThreadIds[m] = {} \/
            u \notin UnblockConflicting(m, txConflictingLocks, threadIds,
                                        obtainedLocks)]
  /\ UNCHANGED <<latmLockedLocks, inflightMutex>>
DirTxUnlock(m) == DefTxUnlock(m)

PthreadUnlock(m) ==
  \/ policy = "full" /\ ~direct /\ DefFullUnlock(m)
  \/ policy = "full" /\ direct /\ DirFullUnlock(m)
  \/ policy = "tm" /\ ~direct /\ DefTmUnlock(m)
  \/ policy = "tm" /\ direct /\ DirTmUnlock(m)
  \/ policy = "tx" /\ ~direct /\ DefTxUnlock(m)
  \/ policy = "tx" /\ direct /\ DirTxUnlock(m)

(* The history variable of those that had slipped in beside m only.        *)
SlippedPast(m) ==
  slipped' = [u \in Thread |-> slipped[u] /\ \E k \in Mutex \ {m} :
                TakenOutside(k) /\ owner[k] # u /\ KeepsOut(k, u)]

(* Outside of transactions, or by the transaction that obtained the lock;  *)
(* with latmMutex_ held the call looks for a transaction of its thread.    *)
UnlockCall(t, m) ==
  /\ \/ At(t, "out")
     \/ At(t, "body") /\ m \in obtainedLocks[t] \cap currentlyLockedLocks[t]
  /\ owner[m] = t /\ LatmFree
  /\ latmMutex' = t
  /\ call' = [call EXCEPT ![t] = [NoCall EXCEPT !.mutex = m]]
  /\ todo' = [todo EXCEPT ![t] = <<"look", "unlock">>]
  /\ UNCHANGED <<config, owner, latmLockedLocks, locksOfThread,
                 locksAndThreadIds, declVars, heldVars, blocked, txVars, pc>>

(* get_inflight_tx_of_same_thread().                                       *)
Look(t) ==
  /\ Next1(t, "look")
  /\ Proceed(t)
  /\ UNCHANGED <<config, lockVars, declVars, heldVars, blocked, txVars, pc>>

Unlock(t) ==
  LET m == Arg(t) IN
  /\ Next1(t, "unlock")
  /\ currentlyLockedLocks' = [currentlyLockedLocks EXCEPT ![t] =
       IF pc[t] = "body" THEN @ \ {m} ELSE @]
  /\ PthreadUnlock(m)
  /\ owner' = [owner EXCEPT ![m] = NoThread]
  /\ locksOfThread' = [locksOfThread EXCEPT ![m] = NoThread]
  /\ latmMutex' = NoThread
  /\ SlippedPast(m)
  /\ Proceed(t)
  /\ UNCHANGED <<config, declVars, obtainedLocks, transactionsInFlight,
                 forcedToAbort, txType, isolatedNow, overtaken, pc, section>>

(* "lock released for transaction that did not obtain it": the exception   *)
(* ends the transaction; full and tm protection throw it with latmMutex_   *)
(* held.                                                                   *)
UnlockThrows(t, m) ==
  /\ At(t, "body") /\ LatmFree
  /\ owner[m] = t /\ m \notin obtainedLocks[t]
  /\ latmMutex' = IF policy = "tx" THEN NoThread ELSE t
  /\ Aborts(t)
  /\ UNCHANGED <<config, owner, latmLockedLocks, locksOfThread,
                 locksAndThreadIds, declVars, heldVars, blocked>>

-----------------------------------------------------------------------------
(* lock_() and trylock_() inside a transaction.                            *)

(* must_be_in_tm_conflicting_lock_set(), must_be_in_conflicting_lock_set().*)
MustBeDeclared(t, m) ==
  /\ policy = "tm" => m \in tmConflictingLocks
  /\ policy = "tx" => m \in txConflictingLocks[t]

LockInTx(t, m, try) ==
  /\ At(t, "body")
  /\ owner[m] = t => m \in currentlyLockedLocks[t]
  /\ MustBeDeclared(t, m)
  /\ Calls(t, m, try, LockFunction(try).inTx)

(* Fault: the transactions in flight are not doomed.                       *)
MakeIsolatedBeside(t) ==
  /\ Next1(t, "isolate")
  /\ Isolated(t) \/ ~IrrevocableTxInFlight(t)
  /\ txType' = [txType EXCEPT ![t] = "isolated"]
  /\ isolatedNow' = [isolatedNow EXCEPT ![t] = @ \/ ~Isolated(t)]
  /\ IF Isolated(t) THEN UNCHANGED overtaken ELSE Overtakes
  /\ Proceed(t)
  /\ UNCHANGED <<config, lockVars, declVars, heldVars, blocked, forcedToAbort,
                 transactionsInFlight, slipped, pc>>

(* make_isolated().  The flag is not tested again in this section; what    *)
(* canAbortAllInFlightTxs() refuses the call tries again.                  *)
MakeIsolated(t) ==
  /\ Next1(t, "isolate")
  /\ IF Isolated(t) THEN UNCHANGED <<forcedToAbort, txType, isolatedNow,
                                     overtaken>>
     ELSE /\ ~IrrevocableTxInFlight(t)
          /\ ForceToAbort(Others(t))
          /\ txType' = [txType EXCEPT ![t] = "isolated"]
          /\ isolatedNow' = [isolatedNow EXCEPT ![t] = TRUE]
          /\ Overtakes
  /\ Proceed(t)
  /\ UNCHANGED <<config, lockVars, declVars, heldVars, blocked,
                 transactionsInFlight, slipped, pc>>

(* make_irrevocable(): the flag is not tested at all.                      *)
MakeIrrevocable(t) ==
  /\ Next1(t, "irrevocable")
  /\ Irrevocable(t) \/ ~IrrevocableTxInFlight(t)
  /\ txType' = [txType EXCEPT ![t] = IF @ = "normal" THEN "irrevocable" ELSE @]
  /\ Proceed(t)
  /\ UNCHANGED <<config, lockVars, declVars, heldVars, blocked, pc,
                 transactionsInFlight, forcedToAbort, slipped,
                 isolatedNow, overtaken>>

(* commit_deferred_update_tx(): lock_tx() waits for a write-back to end.   *)
(* Only a transaction that wrote needs the in-flight mutex for it.         *)
Publish(t) ==
  /\ Next1(t, "publish") /\ GeneralFree(t)
  /\ \A u \in Thread : ~At(u, "writeBack")
  /\ Proceed(t)
  /\ UNCHANGED <<config, lockVars, declVars, heldVars, blocked, pc,
                 transactionsInFlight, forcedToAbort, txType, slipped,
                 isolatedNow, overtaken>>

(* add_to_currently_locked_locks(), add_to_obtained_locks().               *)
List(t) ==
  /\ Next1(t, "list") \/ Next1(t, "current")
  /\ currentlyLockedLocks' =
       [currentlyLockedLocks EXCEPT ![t] = @ \cup {Arg(t)}]
  /\ obtainedLocks' = [obtainedLocks EXCEPT ![t] =
       @ \cup IF Next1(t, "list") THEN {Arg(t)} ELSE {}]
  /\ Proceed(t)
  /\ UNCHANGED <<config, lockVars, declVars, blocked, txVars, pc>>

(* The register of a lock that is not taken yet; full protection with      *)
(* direct update waits for all locks to be released first                  *)
(* (wait_until_all_locks_are_released()).                                  *)
Note(t) ==
  /\ Next1(t, "note") \/ (Next1(t, "settle") /\ latmLockedLocks = {})
  /\ LatmFree
  /\ locksOfThread' = [locksOfThread EXCEPT ![Arg(t)] = t]
  /\ Proceed(t)
  /\ UNCHANGED <<config, owner, latmMutex, latmLockedLocks, locksAndThreadIds,
                 declVars, heldVars, blocked, txVars, pc>>

(* A lock that the transaction has taken before is not taken again.        *)
Take(t) ==
  /\ Next1(t, "take")
  /\ call[t].had \/ owner[Arg(t)] = NoThread
  /\ owner' = [owner EXCEPT ![Arg(t)] = IF call[t].had THEN @ ELSE t]
  /\ Proceed(t)
  /\ UNCHANGED <<config, latmMutex, latmLockedLocks, locksOfThread,
                 locksAndThreadIds, declVars, heldVars, blocked, txVars, pc>>

(* trylock() inside a transaction returns what the mutex says; the lists   *)
(* and the map keep the lock that was not obtained.                        *)
TakeFails(t) ==
  /\ Next1(t, "take") /\ call[t].try /\ owner[Arg(t)] # NoThread
  /\ ~call[t].had
  /\ Proceed(t)
  /\ UNCHANGED <<config, lockVars, declVars, heldVars, blocked, txVars, pc>>

(* tx protection: the core with deferred update, for both kinds of update; *)
(* an irrevocable locker cannot be refused, and does not wait.             *)
Suspend(t) ==
  /\ Next1(t, "suspend") /\ LatmFree
  /\ DefCoreTx(t, Arg(t))
  /\ Proceed(t)
  /\ UNCHANGED <<config, owner, latmMutex, latmLockedLocks, declVars, heldVars,
                 transactionsInFlight, txType, slipped, isolatedNow, overtaken,
                 pc>>

-----------------------------------------------------------------------------
(* What needs the in-flight mutex: the step ends the section.              *)
TxSection(t) ==
  \/ \E m \in Mutex : AddTxConflictingLock(t, m)
  \/ Abort(t) \/ Unwind(t) \/ LeaveReadOnly(t) \/ Decide(t)
  \/ DirectCommit(t) \/ CommitDenied(t)

LockSection(t) ==
  \/ \E m \in Mutex, try \in BOOLEAN : LockCall(t, m, try)
  \/ (CoreSection(t) /\ CoreGranted(t)) \/ CoreRefused(t)
  \/ Look(t) \/ \E m \in Mutex : UnlockThrows(t, m)

LockInTxSection(t) ==
  \/ \E m \in Mutex, try \in BOOLEAN : LockInTx(t, m, try)
  \/ (~Isolated(t) /\ MakeIsolated(t))
  \/ (~Irrevocable(t) /\ MakeIrrevocable(t))
  \/ Publish(t) \/ Suspend(t)

(* What does not.                                                          *)
TxStep(t) == Declared(t) \/ Begin(t) \/ EndReadOnly(t) \/ WriteBackDone(t)

LockStep(t) ==
  \/ TakeMutex(t) \/ TrylockFails(t)
  \/ (~CoreSection(t) /\ CoreGranted(t))
  \/ Drained(t) \/ Register(t) \/ \E m \in Mutex : UnlockCall(t, m)

LockInTxStep(t) ==
  \/ (Isolated(t) /\ MakeIsolated(t)) \/ (Irrevocable(t) /\ MakeIrrevocable(t))
  \/ Publish(t) \/ List(t) \/ Note(t) \/ Take(t) \/ TakeFails(t)

(* lock_inflight_access() where it can be lost; a core holds latmMutex_.   *)
EnterInflight(t) ==
  /\ Strays /\ section[t] = "none" /\ inflightMutex = NoThread
  /\ \/ \E l \in {"out", "entering", "body", "leave"} : At(t, l)
     \/ Next1(t, "look") \/ Next1(t, "publish")
     \/ Next1(t, "isolate") /\ ~Isolated(t) /\ GeneralFree(t)
     \/ Next1(t, "core") /\ CoreSection(t) /\ LatmFree /\ GeneralFree(t)
  /\ inflightMutex' = t
  /\ section' = [section EXCEPT ![t] = "in"]
  /\ latmMutex' = IF Next1(t, "core") THEN t ELSE latmMutex
  /\ UNCHANGED <<config, owner, latmLockedLocks, locksOfThread,
                 locksAndThreadIds, declVars, heldVars, blocked, txVars,
                 control>>

(* A section that has done its work and had lost the mutex, or that only   *)
(* looked: a shut gate, a refused make_isolated(), restart().              *)
LeaveInflight(t) ==
  /\ \/ section[t] = "over"
     \/ section[t] = "in" /\ (At(t, "entering") \/ Next1(t, "isolate"))
  /\ inflightMutex' = NoThread
  /\ section' = [section EXCEPT ![t] = "none"]
  /\ UNCHANGED <<config, lockVars, declVars, heldVars, blocked, txVars,
                 control>>

Step(t) ==
  \/ EnterInflight(t) \/ PassGate(t) \/ PutTxInflight(t) \/ LeaveInflight(t)
  \/ /\ Inside(t)
     /\ TxSection(t) \/ LockSection(t) \/ LockInTxSection(t)
     /\ Leaves(t)
  \/ /\ section[t] = "none"
     /\ TxStep(t) \/ LockStep(t) \/ LockInTxStep(t)
     /\ UNCHANGED sectionVars
  \/ section[t] = "none" /\ Unlock(t)

Next ==
  \/ (\E m \in Mutex : TmLockConflict(m)) /\ UNCHANGED sectionVars
  \/ \E t \in Thread : Step(t)

Spec == Init /\ [][Next]_vars

-----------------------------------------------------------------------------
(* Properties.                                                             *)

(* The types; a call in progress names its lock.                           *)
TypeOK ==
  /\ policy \in {"full", "tm", "tx"} /\ direct \in BOOLEAN
  /\ owner \in [Mutex -> Thread \cup {NoThread}]
  /\ latmMutex \in Thread \cup {NoThread}
  /\ latmLockedLocks \subseteq Mutex
  /\ locksOfThread \in [Mutex -> Thread \cup {NoThread}]
  /\ locksAndThreadIds \in [Mutex -> SUBSET Thread]
  /\ tmConflictingLocks \subseteq Mutex
  /\ txConflictingLocks \in [Thread -> SUBSET Mutex]
  /\ obtainedLocks \in [Thread -> SUBSET Mutex]
  /\ currentlyLockedLocks \in [Thread -> SUBSET Mutex]
  /\ blocked \in [Thread -> BOOLEAN]
  /\ transactionsInFlight \subseteq Thread
  /\ forcedToAbort \in [Thread -> BOOLEAN]
  /\ txType \in [Thread -> {"normal", "irrevocable", "isolated"}]
  /\ slipped \in [Thread -> BOOLEAN]
  /\ isolatedNow \in [Thread -> BOOLEAN]
  /\ overtaken \in [Thread -> BOOLEAN]
  /\ inflightMutex \in Thread \cup {NoThread}
  /\ section \in [Thread -> Section]
  /\ call \in [Thread -> [mutex : Mutex \cup {NoMutex}, try : BOOLEAN,
                          had : BOOLEAN]]
  /\ todo \in [Thread -> Seq(CallStep)]
  /\ \A t \in Thread : todo[t] # <<>> => call[t].mutex \in Mutex
  /\ pc \in [Thread -> Location]

(* A lock taken outside of transactions keeps transactions out: one that   *)
(* it should keep out and that is in flight beside it is doomed, unless it *)
(* slipped in, is irrevocable or runs under a lock of its own thread; with *)
(* direct update it is not even in flight.  Where unlock_() frees the      *)
(* in-flight mutex of other threads, a transaction that was between the    *)
(* gate and the list when the lock was granted is let in as well.          *)
LocksKeepTransactionsOut ==
  \A t \in InFlight, m \in Mutex :
    TakenOutside(m) /\ owner[m] # t /\ KeepsOut(m, t)
    => \/ forcedToAbort[t] /\ ~direct
       \/ At(t, "added") /\ blocked[t]
       \/ slipped[t] \/ (Strays /\ overtaken[t]) \/ Irrevocable(t)
       \/ \E k \in Mutex : owner[k] = t

(* While a transaction that made itself isolated is in flight, every other *)
(* one in flight is doomed, except, where unlock_() frees the in-flight    *)
(* mutex of other threads, those that were between the gate and the list   *)
(* when it did so.                                                         *)
IsolatedRunsAlone ==
  \A t, u \in InFlight :
    isolatedNow[t] /\ u # t =>
      forcedToAbort[u] \/ (Strays /\ overtaken[u])

(* A thread is blocked for a lock that somebody holds: with direct update  *)
(* full and tm protection block all threads at the first lock, and the     *)
(* release of the last one lets them go.                                   *)
BlockedUntilReleased ==
  policy # "tx" => \A t \in Thread :
                     blocked[t] => \E m \in Mutex : owner[m] # NoThread

(* In tx protection a blocked thread waits for a lock that somebody holds  *)
(* or has obtained (unblock_conflicting_threads() and                      *)
(* thread_conflicting_mutexes_set_all_cnd(), which allow the thread to     *)
(* make forward progress again).                                           *)
BlockedForALock ==
  policy = "tx" => \A t \in Thread :
    blocked[t] => \E m \in Mutex : \/ owner[m] # NoThread
                                  \/ MutexIsOnObtainedList(m, obtainedLocks)
=============================================================================
