# A TLA+ model of TBoost.STM

TBoost.STM (DracoSTM) is a C++ software transactional memory. This directory
holds TLA+ modules that model its protocols, TLC configurations that check them
on small instances, and proofs, checked by TLAPS, that the main properties hold
for any number of threads, objects and values.

All paths below are relative to the repository root. *impl* stands for
`boost/stm/detail/transaction_impl.hpp` and *tx* for `boost/stm/transaction.hpp`.
The build that is modelled is the one `boost/stm/detail/config.hpp` selects:
invalidation (not validation), bloom filters instead of read sets, one shared
context per thread, a shared forced-to-abort flag, LATM and composition on,
default (deferred) update.

## Inventory

### The parts and how they interact

| part | state | operations | hard behaviour |
|---|---|---|---|
| **deferred transactions** (*tx*, *impl*) | per thread: write list, bloom filter(s), new/delete lists, `txType_`, forced-to-abort flag, mutex; global: `transactionMutex_`, `transactionsInFlightMutex_`, `transactionsInFlight_`, memory | constructor, `restart`, `read`, `write`, `make_irrevocable`, `end`, `deferred_abort`, destructor | a commit dooms the others through flags, leaves two of its three kinds of lock, and only then copies its writes to memory; readers hold plain references to that memory |
| **direct transactions** | as above, plus an owner (`transaction_thread_`) per object; the write list holds undo copies | `direct_read`, `direct_write`, `direct_abort`, direct `end` | writes in place, owner checks before the locks |
| **nested and composed transactions** (`transactions_stack.hpp`) | a stack of transaction objects that share the thread's context | inner `end` hands off, outer `end` commits, closed-nesting exception | the inner `restart` works on the outer's context |
| **thread registry** (`libs/stm/src/transaction.cpp`) | `threadMutexes_`, contexts, per-thread maps | `initialize_thread`, `terminate_thread` | lists that change while a commit iterates over them |
| **isolated and irrevocable transactions** | `txType_` | `make_irrevocable`, `make_isolated`, `commit_deferred_update_tx`, the gate in `put_tx_inflight` | everything else must be aborted and kept out |
| **LATM** (`latm_*.hpp`, `auto_lock.hpp`) | `latmMutex_`, the register of locked locks, the map of waiting threads, declared and obtained locks, blocked flags | `lock_`, `trylock_`, `unlock_` in full, tm and tx protection, each for two update policies; declarations | locks that suspend transactions, waits with a mutex held, flags that a release has to find |
| **contention managers** | priorities, back-off times | `permission_to_abort`, `abort_before_commit`, ... | arithmetic on lists of victims |
| **bloom filter** (`bloom_filter.hpp`, `bit_vector.hpp`) | two bit vectors, the last hash | `insert`, `exists`, `intersection`, `clear` | false positives; scratch words shared by threads |
| **memory of transactions** | new and deleted lists, `deletionBuffer_` with times | `new_memory`, `delete_memory`, `doIntervalDeletions`, what commits and aborts do | freeing once, and not what a doomed transaction still looks at |
| **containers** (`vector_map`, `vector_set`) | a vector | insert, find, erase | iteration while inserting |

Threads meet in three places: the flags (a committer raises another thread's
flag, that thread tests it at its next operation), the locks, and memory itself
(a reference returned by `read()` is a reference to the shared object). There are no messages and nothing is persistent.

Memory pool, bookkeeping and profiling, smart pointers and configuration headers
have no behaviour of their own in this build; `PROJECT.json` says why each is
left out.

### What makes each part correct

- deferred transactions: committed transactions are atomic; a transaction that
  is not doomed never sees half a commit; dooming is neither late nor
  unfounded; irrevocable transactions are alone and are not rolled back;
  commits keep happening; no deadlock.
- direct transactions: one writer per object; an abort restores what it wrote
  and nothing else; a commit dooms who read what it overwrites.
- nested transactions: the outermost `end` commits everything the nest wrote, or
  nothing.
- thread registry: nobody unlocks a mutex it has not locked; nobody uses a
  context that is gone.
- isolation and LATM: who runs beside an isolated transaction is doomed, and so
  is who runs beside a lock that excludes it; nobody stays blocked when all
  locks are free; nothing stays locked after an exception.
- contention managers: total on every list they can be given; the default one
  lets the committer win.
- bloom filter: no false negatives.
- memory: every allocated object is linked, or owed by one transaction, or in
  the buffer once; nothing is freed under a transaction that can look at it.

## Modules

| module | what it is |
|---|---|
| `AtomicStore` | what a transactional memory promises: a running transaction may see anything, but it commits only when all it saw is the store of that instant, and its writes then appear as one |
| `DeferredStm` | the deferred-update protocol, one action per critical section or per step outside one; its properties; the inductive invariant |
| `MCDeferredStm` | small instances for TLC |
| `DeferredStmProofs` | types, locks, contexts, filters: `[]ProtocolInv` and what follows from it alone |
| `DeferredStmAtomicity` | what transactions observe and install, up to the refinement of `AtomicStore` |
| `ThreadRegistry` | registration of threads against the walks of commits over `threadMutexes_`; its properties; the inductive invariant |
| `MCThreadRegistry` | small instances for TLC |
| `ThreadRegistryProofs` | who owns which mutex, for any number of threads |
| `NestedTx` | `atomic`, `try_atomic` and `use_atomic` blocks inside one another; implements `AtomicStore` with the nest as one transaction |
| `MCNestedTx` | small instances for TLC |
| `NestedTxProofs` | the nest as one transaction, for any depth, threads and objects, up to the refinement of `AtomicStore` |
| `Latm` | user locks against transactions in the three protections and for both kinds of update; isolated and irrevocable transactions; the gate |
| `MCLatm` | small instances for TLC |
| `LatmProofs` | types and isolation, for any threads and locks |
| `LatmLockProofs` | what user locks keep out, and whom they block, for any threads and locks |
| `DirectStm` | the direct-update protocol: owners, undo copies, early and late detection; implements `AtomicStore` |
| `MCDirectStm` | small instances for TLC |
| `DirectStmProofs` | owners and copies, what commits publish and whom they doom, for any threads and objects, up to the refinement of `AtomicStore` |
| `TxMemory` | what transactions allocate and delete, and the deletion buffer |
| `MCTxMemory` | small instances for TLC |
| `TxMemoryProofs` | where every cell is and when it may be freed, for any threads, cells and times |

The modules look at the same threads from different sides and at different
grains. `DeferredStm` has the steps of a commit one by one. `ThreadRegistry`
keeps its locks and drops the data. `NestedTx`, `TxMemory` and `Latm` take from
`DeferredStm` what it shows of a commit, that it takes effect in one step and
dooms whom it overwrites, and have the write-back as a step of its own where
something else can happen during it. `DirectStm` is the other kind of update.

### DeferredStm and the code

Each thread runs one top-level transaction at a time. Its `pc` is

- `idle`, `ready` (constructed, `restart()` still to be called), `entering`
  (inside `restart()` past the abort), `body`, `readLock`/`writeLock` (inside
  `deferred_read`/`deferred_write`, waiting in `lock_tx()`),
- `roCommit`, `general`, `recheck`, `lockAll`, `writeBack`, `unlockAll` (inside
  `end()`),
- `aborting`, `restarting`, `denied`, `unwinding` (inside `deferred_abort()`, by
  caller) and `aborted`.

| code | actions |
|---|---|
| constructor, impl:432 | `Construct` |
| `restart()`, impl:604, called at once by `use_atomic` and `try_atomic` | `RestartInFlight`, `AbortErase`, `Restart` |
| retry after an abort | `Restart`; leaving instead: `GiveUp` |
| `deferred_read`, tx:1081, and `insert_and_return_read_memory`, tx:1112 | `ReadCovered`, or `ReadCall` then `ReadInsert` |
| `deferred_write`, tx:1141 | `WriteCall`, `WriteInsert` |
| the body uses a reference that `read()` or `write()` returned | `Dereference`, `Assign` |
| `make_irrevocable`, impl:145 | `MakeIrrevocable` |
| an operation or `end()` finds the flag set | `AbortOnFlag`, `AbortErase` |
| destructor of a transaction in flight, impl:736 | `Unwind`, `AbortErase` |
| `invalidating_deferred_end_transaction`, impl:885 | `EndReadOnly`, `LeaveReadOnly`; or `EndWriter`, `LockGeneral`, `RecheckFails` / `RecheckPasses`, `LockMutex` |
| `invalidating_deferred_commit`, impl:1468 | `Commit` or `CommitDenied`; `WriteBack`, `WriteBackDone`, `UnlockMutex`, `Committed` |

`mem[x]` is the shared object; `seen[t]` and `handles[t]` are what the body of
`t` has looked at and what it holds references to. They are history variables:
no guard of the library reads `seen`, and `handles` only says which
dereferences are possible.

Reductions. A critical section that does not block inside is one step:
everything under `transactionsInFlightMutex_`, and a filter insertion under the
thread's own mutex. `Commit` ends with the release of the in-flight and general
mutexes; the copy that follows is a step per object. In `CommitDenied` the
locks are given back in the step that clears the context: the thread keeps its
own mutex until `AbortErase`, and no other committer gets past `LockMutex`
without it. The order in which `lock_all_mutexes` takes the mutexes is left open.

Abstractions. An object is a value, copied whole. A filter is the set of its
bits and `Hash` gives the bits of an object, so collisions are instances of
`Hash`. The contention manager's answer is any member of `CmAnswer`, whichever
manager gives it. Not in the module: the write-filter shortcut for write lists
of 20 or more objects (impl:2175), stalling (disabled in the code, impl:2162),
and the scratch words of a filter: `exists()` leaves the hash in two members of
the filter, which a committer and the filter's owner may write at the same time.

`RestartThread` are the threads whose transactions are opened by `use_atomic`
or `try_atomic`, which call `restart()` first and so clear the context. The
others use plain `transaction` objects (as `testInt.cpp` does) or `atomic`,
which do not. `Protected` are those of them that can be relied on: a thread
whose transactions can be irrevocable is not protected from a committer that is
irrevocable too, since neither can be invalidated, so it is one of them only if
no other thread calls `make_irrevocable()`.

### ThreadRegistry and the code

`registry` is `threadMutexes_`, a `vector_map`: a sequence of the threads whose
mutexes it holds, in the order of insertion. `contexts` are the keys of
`tss_context_map_`. `cursor[t]` is the iterator of the walk `t` is in, compared
with the end of `registry` as it is at that moment.

| code | actions |
|---|---|
| `initialize_thread`, transaction.cpp:154 | `InitializeThread`, `RegisterLock`, `RegisterInsert`, `RegisterUnlock`, `RegisterDone` |
| `terminate_thread`, transaction.cpp:428 | `TerminateThread` (mutexes stay in the list in this build) |
| `lock_tx` / `unlock_tx`, impl:296 | `LockTx`, `UnlockTx` |
| `end()` of a writer, impl:940-971, impl:1468 | `EndTransaction`, `LockMutex`, `Commit`, `WriteBackDone`, `UnlockMutex`, `Committed` |
| its refusal, impl:1626 | `CommitDenied`, `DeniedUnlock`, `DeniedDone` |

The variable `barrier`, which no step changes, says whether the program lets all threads register before any of them
commits. Most test programs do, with `idleUntilAllThreadsHaveReached`
(stm.cpp:229); `irrevocableInt.cpp`, for one, does not. An unlock sets the owner
to nobody whoever it is: a default pthread mutex does not object to being
unlocked by another thread. Growth of the vector beyond its 128 reserved
entries, which would move the entries under a walking commit, is left out.

### NestedTx and the code

`nest[t]` are the transaction objects of `t`, outermost first, each with the
macro that made it and its state. `forcedToAbort`, `bloom` and `writeList` are
the thread's context, one per thread however many objects there are. `pc` says
whether the innermost block is at the `head` of its loop, in its `body`, being
left by an exception (`throw`) or in `no_throw_end()` after a handler (`end`).

| code | actions |
|---|---|
| constructor, impl:432 | `Construct` |
| loop conditions, tx:1883-1889: `restart`, `restart_if_not_inflight`, `check_throw_before_restart` | `RestartInFlight`, `Restart`, `EnterBody`, `ClosedNestingThrow` |
| `read`, `write`, `force_to_abort` | `Read`, `Write`, `ForceToAbort`, `AbortOnFlag` |
| `before_retry` and unwinding of a block without a handler | `Catch`, `Unwind` |
| `end`, `no_throw_end` | `EndAborted`, `EndDoomed`, `HandOff`, `CommitReadOnly`, `Commit`, `CommitDenied` |

An exception that is not `aborted_tx`, irrevocable nests, and `new` and `delete`
in a nest are not in the module. `transactions_stack` is not either: no code
pushes to it. `seen` and `wrote` are history: what the blocks of the nest have
read from memory and written since it last started.

### Latm and the code

`policy` and `direct` are the static members `eLatmType_` and
`direct_updating_`, chosen at the start. `todo[t]` is what is left of the lock
call that `t` is in: each function behind `lock_()` and `trylock_()` is a
sequence of named steps for a caller outside of transactions and another for a
caller inside (`DefFullLock` to `DirTxTrylock`), and the named steps are actions.

| code | actions |
|---|---|
| constructor, `begin`, `restart`: the wait on `blocked()`, then `put_tx_inflight` | `Begin`, `PassGate` (the test), `PutTxInflight` (the insertion) |
| `lock_`, `trylock_` outside of a transaction | `LockCall`, `TakeMutex` / `TrylockFails`, `CoreGranted` / `CoreRefused`, `Drained` (direct update), `Register` |
| `lock_`, `trylock_` inside one | `LockInTx`; then, as the protection says, `MakeIsolated` or `MakeIrrevocable`, `Publish`, `List`, `Note`, `Take` / `TakeFails`, `Suspend` |
| `unlock_` | `UnlockCall`, `Look` (is the caller in a transaction?), `Unlock`; `UnlockThrows` |
| `lock_inflight_access`, `unlock_inflight_access` where they are steps of their own | `EnterInflight`, `LeaveInflight`, `StrayUnlock` in `Unlock` |
| `tm_lock_conflict`, `add_tx_conflicting_lock` | `TmLockConflict`, `AddTxConflictingLock`, `Declared` |
| `lock_and_abort`, destructor | `Abort`, `Unwind` |
| `end` | `EndReadOnly`, `LeaveReadOnly`; `Decide`, `WriteBackDone`; `DirectCommit`; `CommitDenied` |

A transaction is what locks can tell of it. Which others a commit dooms is left
open, so every choice of reads and writes is covered. `latmMutex_` is held across
steps from `CoreGranted` to `Register`, which is where direct update waits for
transactions to drain, and through `unlock_()`.

`transactionsInFlightMutex_` (`inflightMutex`) is the delicate one. With deferred
update, `unlock_()` of full and tm protection ends with
`if (latmLockedLocks_.empty()) unlock_inflight_access();`
(latm_def_full_impl.hpp:259, latm_def_tm_impl.hpp:267), although its thread does not
hold that mutex: the core of the first lock gave it back long before. Another
thread may hold it, and the default pthread mutex lets anybody unlock it. So
there (`Strays`) every section under the mutex is entered in a step of its own
(`EnterInflight`), works in another, and gives the mutex back at its end; a thread
that has lost it gives it back all the same (`section` is `"over"`,
`LeaveInflight`), so that the third thread in turn loses it. Two sections may overlap
in any order, between the gate's test and the insertion as well. What a section
does inside (a walk over the list) stays one step: the list itself is a
`std::set` without any other protection, and what two threads make of its nodes is
undefined. With direct update and in tx protection `unlock_()` has no such call;
nobody can lose the mutex, and a section is the step that does its work, but
for the gate, which is shut to others from `PassGate` to `PutTxInflight`.

The history variables: `slipped` marks a transaction that went in flight in one
of the ways that `Slips` lists, or that `Drained` did not see, until the lock is
released that it slipped in beside (`SlippedPast`); `isolatedNow` one that called
`make_isolated()` itself and did not find its type left over from an earlier
attempt; `overtaken` one that was between the gate and the list when a lock or an
isolation was granted by somebody else.

### DirectStm and the code

`owner[x]` is `transaction_thread()` of an object, `writeList[t]` the undo copies.
`late` is `directLateWriteReadConflict_`.

| code | actions |
|---|---|
| `direct_read`, tx:896 | `ReadAgain`; `Start`, then `EarlyTest`, `EarlyInsert`, or `LateRead` / `LateReadOfCopy` |
| `direct_write`, tx:1004 | `WriteOwn`; `Start`, then `TakeOwnership` / `Beaten` |
| `direct_delete_memory` | `DeleteOwn`; `Start`, then `Delete` |
| an operation finds the flag set; `lock_and_abort`, impl:791 | `Doomed`, `LockAndAbort`, `Restore` (per object), `AbortDone` |
| `~transaction`, impl:736 | `Destructor`, `Restore`, `AbortDone` |
| `end`, impl:814, and commit, impl:1399 | `End`, `DoomedEnd`, `Decide`, `Publish`; `Refused`, `Restore`, `AbortDone` |

`seen[t]` is what the transaction has read of objects that nobody owned. What it
finds in an object that another transaction owns is not recorded, because the
code allows it: an object that the filter answers for is returned without a look
at its owner, and a reference that `read()` has returned shows whatever the next
owner writes. Nor does any property speak of a late reader of an object that its
owner only deleted: the owner has no copy of it, `direct_read` reports that on the console and
dereferences `end()` of the owner's write list (tx:938-962). That is undefined;
`LateReadOfCopy` is the case in which the reader goes on with some address that
is no object's, since a crash takes no further step. `robbed` are objects that were taken from their owner
(`direct_stolen`); the run `direct` does not go on from there.

`CommitsAtOnce` maps the module to `AtomicStore`: `stored` is what the objects
are worth without their owners, `inside` are the threads with a transaction that
has not ended, `inPlace[t]` is what `t` has put into objects that it may have to
give back, `observed[t]` is `seen[t]`. So it says as much about the objects that
a transaction read while nobody owned them, and nothing about the others.

### TxMemory and the code

Cells stand for objects and for the copies that `write()` makes. The program
keeps its objects in a linked structure, as the list and tree tests do: `linked`
is what the committed structure links. Who allocates or deletes rewires it, so
that its commit dooms every transaction in flight that has reached something.

| code | actions |
|---|---|
| constructor: `doIntervalDeletions`, impl:1925, then `put_tx_inflight` | `Construct`, `Scan`, `Sweep`, `Enter` |
| `read`, `write`, `new_memory`, `delete_memory` | `Reach`, `Write`, `New`, `Delete` |
| `deferred_abort`, impl:1341 | `Abort` |
| commit: decision and write-back; new objects; deleted ones | `Commit`, `Publish`, `Bury` |
| `time(0)` | `Tick` |

`Delete` follows the code where it disagrees with its comments (tx:1212-1227):
the branches for objects and for copies are exchanged. A program that passes
the reference it got from `write()` has the copy freed twice and the object never;
`misdeleted` names these cells, and `FreedOnce` is about all others. `late` is
another exception that the code makes: the scan for the earliest start and the
sweep are two critical sections, and the constructing transaction is not in
flight yet, so who goes in flight in between is not protected.

### Faulty variants

A definition introduced by a comment that begins with "Fault:" is not part of
the specification. It is the definition that follows it with a plausible mistake
(a guard dropped, a lock not taken, a filter not cleared). `PROJECT.json`
pairs it with the property that notices.

## Runs

| run | instance | properties |
|---|---|---|
| `core` | 2 threads, one of them irrevocable at times, 2 objects, 2 values, a filter with a false positive, a manager that may refuse | `TypeOK`, `OneWriteBack`, `NoHandleUnderWriteBack`, `DoomedOrConsistent`, `NoWaitingCycle`, `ImplementsAtomicStore`, `DoomedOnlyByCommits` |
| `live` | 2 threads, one of them with plain transactions, 1 object, colliding filters, default manager, fairness | `ProtocolInv`, `CommitsAtomically`, `CommitsKeepComing` |
| `stale_filter` | 2 threads with plain transactions, 1 object | `RepeatableReads`, violated |
| `registry` | 3 threads, with and without the barrier, fairness | `TypeOK`, `RegistryInv`, `UnlocksOwnBehindBarrier`, `NoAccessUnderWriteBack`, `OneWriteBack`, `NoWaitingCycle`, `RegistryFrozenByCommit`, `WalksEnd` |
| `registry_late` | 3 threads | `UnlocksOwnMutexes`, violated |
| `nested` | 2 threads, 1 object, 2 values, 3 levels, `atomic` inside any block, fairness | `TypeOK`, `NestKeepsItsWork`, `AbortReachesOutermost`, `DoomedNestStartsAgain`, `NestIsOneTransaction` |
| `nested_use` | 2 threads, 2 objects, `use_atomic` inside `try_atomic` | `NestKeepsItsWork`, violated |
| `latm` | 2 threads, 2 locks, 3 protections, both kinds of update | `TypeOK`, `IsolatedRunsAlone`, `LocksKeepTransactionsOut`, `BlockedUntilReleased` |
| `latm_blocked` | 2 threads, 2 locks, tx protection | `BlockedForALock`, violated |
| `direct` | 2 threads, 2 objects, 2 values, early and late detection, a manager that may refuse | `TypeOK`, `OwnersAreListed`, `DoomedOrCurrent`, `OnlyCommitsPublish`, `CommitsAtOnce` |
| `direct_stolen` | as `direct` | `NoWriteStealing`, violated |
| `memory` | 3 threads, 2 cells, 3 seconds | `TypeOK`, `LinkedIsShared`, `FreedOnce`, `BufferProtects` |

All runs but the two of `Latm` also check that the system never deadlocks as a
whole. That one thread can go on says little of the others, so `NoWaitingCycle`
asks it of every group of threads: one of them is not blocked by any of the group
(`WaitsFor` says on whom a thread may be blocked where it is). It is about locks
that are shown as variables: `transactionsInFlightMutex_` is taken last and for
sections that take nothing else, so nobody blocks on another lock with it held.
With the locks of LATM the system does deadlock: a locker that waits for transactions to drain (direct update)
holds `latmMutex_`, which one of them may need to take or release a lock; it also blocks
all threads, itself included, until it releases the lock (tx:1586); and
`unlock_()` inside a transaction that did not obtain the lock throws with
`latmMutex_` held (latm_def_full_impl.hpp:250, latm_def_tm_impl.hpp:251,
latm_dir_full_impl.hpp:260, latm_dir_tm_impl.hpp:256).

Bounds. But for the clock of `TxMemory` there is no counter in the models, so
the instances are finite without state constraints: every number of
transactions per thread, of retries and of operations in a body is covered. Two
threads and two objects are enough for every cycle of reads and writes between
two transactions, and for half a commit to be visible; two values tell an old
one from a new one. In `ThreadRegistry` three threads are a committer, one that
arrives, and a second committer or one that comes back after
`terminate_thread()`. In `NestedTx` depth is bounded by `MaxDepth`: the third
level makes an exception pass through a block that is neither outermost nor
where it was thrown, and one object is enough because a nest that is only half
committed shows as a lost write or a stale read of it. In `Latm` a lock needs a
locker and somebody to keep out, and the second mutex is what the locker's
register, the map and a declaration can be about instead;
`AtMostThreeDeclared` stops run `latm` from going on where more than three
declarations are in force at once (a transaction that declared both beside
one that declared one). With deferred update, where the sections under the in-flight
mutex are steps, it also stops at a second irrevocable thread
(`AtMostOneIrrevocable`), a second lock declared in tm protection
(`AtMostOneTmConflict`), a second lock obtained inside transactions
(`AtMostOneObtained`) and a `trylock_()` inside a transaction
(`TrylockOnlyOutside`); direct update goes beyond all four, and the proofs have
no bound. That leaves 2.1 million states. `MaxTime = 2` gives a
deletion in the second of a reader's start, before and after it; three threads
are one that deletes, one that reads, and one that sweeps; addresses are not
used again, so the two cells bound what a behaviour can allocate: an object and
its copy, or two objects, one of them to be added or replaced. `UntilRobbed` (run `direct`) stops where `direct_stolen`
begins.

Symmetry. Values in `core`, threads in `registry_late`, threads and objects in
`nested_use`, threads and mutexes in `latm` and `latm_blocked`, threads, objects
and values in `direct` and `direct_stolen`, threads and cells in `memory` are
interchangeable, and TLC is told so; no run with a liveness property uses it.

Fairness (`FairSpec`). In `DeferredStm` a thread inside `end()` or
`deferred_abort()` keeps running (weak fairness). `LockMutex` is strongly fair: a
committer blocks in `lock()` on a thread mutex whose owner takes it with
`trylock` and `SLEEP(1)` (impl:296). The spin on `transactionMutex_` (impl:940)
gets weak fairness only, and nothing is assumed of the bodies.
`CommitsKeepComing` is about the system, not about one thread: a thread may be
aborted for ever.

In `ThreadRegistry` a thread inside `initialize_thread()`, `end()` or an abort
keeps running, and the blocking `lock()` of each walk is strongly fair for the
same reason as above; calls of the library are not assumed to happen. In
`NestedTx` a thread that has entered a block keeps running: a body that never
returns would keep its nest doomed, and no library could help it.

### What the violations show

- `stale_filter`: `deferred_abort()` clears the bloom filter, a commit does not.
  A plain transaction that follows a commit finds its filter full of the
  previous transaction's objects, and `read()` of one of them returns the
  reference without taking the thread's mutex (tx:1123), even while a committer
  holds that mutex and copies the object. The transaction starts after the
  committer walked the in-flight list, so it is not doomed: it sees two values
  of one object and commits. Transactions of `use_atomic` and `try_atomic`
  start with an abort that clears the filter, and the proofs show that
  they are safe.
- `registry_late`: `unlock_all_mutexes()` finds the end of the list afresh after
  every unlock and holds no lock by then. `initialize_thread()` waits for the
  last of these unlocks, appends its mutex, and the committer's walk goes on to
  unlock it. transaction.cpp:183-186 says that this is impossible. The new thread may
  have locked its mutex in `lock_tx()`, or be committing itself, so without the
  barrier `NoAccessUnderWriteBack` fails too. `OneWriteBack` holds all the same,
  thanks to the oldest mutex in the list, and with the barrier everything does.
- `nested_use`: the loop of `use_atomic` calls `restart()` on a transaction whose
  constructor has just put it in flight, and `restart()` aborts such a
  transaction. In an inner block that empties the context of the whole nest.
  The outer transaction is not told and commits without what it wrote, and without
  being doomed for what it read. `nestedTxs.cpp:57-81` composes its functions
  this way. An inner `try_atomic` does the same.

- `latm_blocked`: a read-only transaction tests its flag and then leaves. Between
  the two another thread takes a lock that the transaction has declared, dooms it
  and blocks its thread. The transaction commits all the same and clears what it
  declared (impl:923), so the release of the lock does not find the lock among
  the thread's (tx:1602) and does not unblock it. All locks are free then, and
  the thread's next transaction waits in its constructor for ever.
- `direct_stolen`: `~transaction()` and the handler of a refused commit call
  `direct_abort()` without `transactionMutex_`. An object that was written and
  then deleted is given back by `directAbortWriteList()`; another thread's write
  takes it; then `directAbortTransactionDeletedMemory()` sets its owner to nobody,
  and a third write may overwrite the second one's uncommitted value.

Others have no run of their own.

- `txType_` lives in the thread's context and only commits reset it. After an
  irrevocable transaction that a user exception destroyed, the thread's next one
  is irrevocable without asking, and another thread that asked in between found
  nobody in flight, though impl:149-150 says that no other irrevocable
  transaction can be running then: with `IrrevocableThread = Thread` TLC reaches
  two of them at once. Neither can be invalidated by the other, so they are not
  atomic. The proofs show that the threads that never ask are protected all the
  same; so does TLC for three threads, two of which ask (`DoomedOrConsistent`,
  `CommitsAtomically` and `NoWaitingCycle` hold with one object).
- `make_irrevocable()` accepts a transaction that is already doomed, whose next
  operation rolls it back; `make_isolated()` tests the flag before it takes the
  locks, with the same effect, and may have published its writes by then.
- Only `atomic` calls `check_throw_before_restart()`: with
  `InnerKind = {"try_atomic"}` TLC refutes `DoomedNestStartsAgain`, because an
  inner `try_atomic` of a doomed nest restarts itself, finds the flag up (it stays
  up while the outer transaction is in flight) and aborts again, for ever.
- `unlock_()` frees the in-flight mutex of other threads (see *Latm and the code*).
  A transaction that has passed the gate then meets a locker or a
  `make_isolated()` in the same section: neither finds it in the list, and it goes
  in flight beside the lock, or beside the isolated transaction, without being
  doomed. TLC refutes `IsolatedRunsAlone` and `LocksKeepTransactionsOut` without
  their case `Strays /\ overtaken[...]`; with it they hold, so that nothing else
  goes wrong when sections overlap.
- The ways around a lock that `Slips` lists: between the locker's core work and
  its registration (there is no lock over both, against the comment at
  latm_def_full_impl.hpp:230), through the register that a lock call inside a
  transaction overwrites, and, in tx protection, through locks that were declared
  in an earlier attempt, which the gate does not look at. With direct update the
  locker of full and tm protection also polls the list of transactions in
  flight without its mutex, and misses one that has passed the gate (`Drained`).

## Proofs

`DeferredStmProofs` and `DeferredStmAtomicity` hold for every value of the
constants that satisfies `ConstantsAssumption`, any set of threads that become
irrevocable included. What they say of consistency they say of the `Protected`
threads; of the others it is false (see the sticky `txType_` above). Only `Refinement`,
where every thread must be protected, assumes `OneIrrevocableThread`: at most
one thread calls `make_irrevocable()`.

The argument. `OneWriteBack` follows from `LockInv`: a thread that copies holds
every thread mutex, since it took them all and gives them back only afterwards.
That is inductive by itself. `DoomedOrConsistent` is not: that a transaction
sees only the committed state needs

- `FilterInv`: the filter answers for all the transaction has touched;
- `DisjointInv`: the filter of a transaction that runs and is not doomed does
  not answer for an object being copied. At the commit this is what the force
  step establishes (`CommitSpares`), afterwards it holds because nobody can add to a
  filter while the committer holds its mutex, and a transaction that starts
  in between starts with an empty filter;
- `ContextInv`: what is left in a context that is not running (empty filter on
  the way into `restart()`);
- `CommitterInv`: nobody dooms a committer between its second test of the flag
  and its decision.

Their conjunction with `LockInv` is `ProtocolInv`, which `live` checks with TLC.

The committed state (`Store`) is memory with the write list of the thread that
is copying laid over it. `StoreStep` shows that it changes at `Commit` only, and
then by the whole write list. With it `DoomedOrConsistent` is inductive
(`ConsistentStep`), commits are atomic (`CommitsAtomicallyCorrect`), and with
`Undecided`, `Buffered` and `seen` the module implements `AtomicStore`
(`Refinement`), for programs in which every thread uses `use_atomic` or
`try_atomic` and at most one makes its transactions irrevocable.

`NoWaitingCycle` follows from `LockInv`, for any number of threads and of
irrevocable ones: the waiting threads are ordered. A body that spins in
`make_irrevocable()` waits for a transaction that does not spin (`SpinWaits`),
a thread that waits for `transactionMutex_` or for its own mutex waits for a committer
(`QueueWaits`), and the committer that collects the mutexes, of which there is one at
a time, waits for threads that copy, unlock or abort (`CollectorWaits`), and these
wait for nobody. So in any group the lowest in this order is free.

### The registry

`ThreadRegistryProofs` is about any set of threads. `RegistryInv` counts, from a
thread's location and its cursor, the mutexes that it has locked and not yet
unlocked (`Locked`), and says that the thread owns those of them that are
`Guarded`. With the barrier all mutexes are: every commit finds all threads
registered, so no walk meets a new entry. Without it only the oldest is: a late
entry is appended, so an overrun walk of unlocks can reach any position but the
first. `WalkRound` moves one mutex across the cursor, `LockRound` and
`UnlockRound` are the rounds of the four loops, `InsertKeeps` is the insertion.
What follows:

- `OneWriteBack` with and without the barrier: who copies owns the oldest mutex;
- `RegistryFrozenByCommit`, with and without: `initialize_thread()` has locked
  that mutex too when it inserts, and the first thread of all finds no commit;
- `UnlocksOwnBehindBarrier` and `NoAccessUnderWriteBack`.

`NoWaitingCycle` needs the converse, which `RegistryInv` does not say: what a
thread owns, it counts as locked (`HeldInv`). That holds for all mutexes and without
the barrier, since a walk that unlocks too much takes mutexes away and gives them
to nobody. So a walk never stands on a mutex it has locked itself, and the owner
it waits for has released `transactionMutex_` and waits for nobody (`WalkWaits`).

### Locks and isolation

`LatmProofs` is about any threads and locks, all protections and both kinds of
update, from `LatmAssumption` alone. `TypeCorrect` needs that a call in progress
is one of the sequences of steps (`ProgramTypes`). Both modules use `GateInv`: a
thread between the gate and the list does nothing else before it is in the list,
and where nobody can take the in-flight mutex away from it, it holds it.
`Present` are the transactions in flight and those; `Onward` and `OthersStay` say
that a step of one thread leaves the others where they are.

`IsolatedRunsAlone` is not inductive: the gate stops newcomers only while the
isolated transaction is in flight and of that type, a transaction that has made
itself isolated could lose its type, an abort could take the flag down of one
that stays, and one that has passed the gate already is not in flight yet. Its
strengthening `IsolationInv` adds that a call that is still to make its
transaction isolated is made in the body of one (`IsolateInTx`), that who has
made itself isolated is past the gate and still of that type
(`IsolatedPastGate`), and speaks of all who are `Present` (`DoomedBesideIsolated`). Who is
between the gate and the list keeps isolation out with the mutex it holds, or is
overtaken where it may have lost the mutex; nobody passes the gate beside an
isolated transaction, and no step lowers a flag of one that stays in flight.

`LatmLockProofs` is about the locks themselves. `LocksKeepTransactionsOut` is
not inductive for three reasons, and `LockInv` has, next to `GateInv`, a part for each:

- `CallsInv`: a call outside of transactions is a rest of one of the sequences
  of `Outside`, one inside has made its transaction irrevocable or isolated
  before it touches a lock (`InTxTodo`);
- `LockerInv` follows `latmMutex_` from the core work to the registration: who is
  between the two owns its lock, holds `latmMutex_` (so that one locker at a time
  is there, and no `unlock_()` comes in between, which holds it as well), and finds
  the lock not counted before; what is counted is owned; in tx protection, where
  calls inside transactions leave the register alone, the register names nobody
  but the owner;
- `KeptOut` has the transactions that the property does not speak of yet: one
  in flight or about to be (`Present`) that a lock should keep out is `Harmless` (doomed, or one of the named ways in)
  or it `Waits` in its declaration on a flag that only the release of this very
  lock takes down.

The steps that matter are `CoreGranted` (`CoreGrantedKept`, `DrainedKept`: what the
lock is to keep out it dooms, or, with direct update, waits for; who is at the
gate then is overtaken, or keeps the locker out) and `PassGate`, which lets pass
only beside locks that are no concern of the transaction (`PassGateKept`). All
others leave the locks, the flags and the transactions in flight as they are
(`QuietTx`, `QuietLock`), or end a transaction.

`BlockedUntilReleased` (direct update, full and tm protection) needs to know who
has blocked everybody: `BlockedInv` says that a thread is blocked only beside a
lock that counts, or beside a locker that waits for the transactions to drain and
is going to count its own. In tx protection the corresponding statement is false
(`latm_blocked`).

### Nested transactions

`NestedTxProofs` is about any depth of nesting, under one assumption: the blocks
inside another are `atomic` blocks (`OnlyAtomicInside`). `nested_use` shows that it
is needed: a `use_atomic` block or a `try_atomic` block with a handler may
restart on its own and lose what the outer blocks wrote. The invariant
`NestInv` has three parts for each thread. `Shape`: only the innermost block may
be aborted, with the flag up if there is another outside of it; the inner ones
are atomic; a body runs in flight. `Fresh`: a nest that is empty, aborted or not
entered yet owns no work. `Keeps`: while its body runs, filter and write list
hold what the nest has seen and written, which is what `NestKeepsItsWork` says. From
it follow `AbortReachesOutermost`, and that the module implements `AtomicStore`
with the whole nest as one transaction (`NestIsOneTransaction`): every action
maps to a step of it or to a stutter.

### Direct update

`DirectStmProofs` is about any threads and objects, both kinds of conflict
detection and every answer of a contention manager, and holds with the stolen
objects of `direct_stolen` left out (`robbed`). `OwnersAreListed` is inductive
with the types (`OwnersStep`, one object at a time: `HasOneWriter` and
`OwnerHasIt`). What an object is worth without its owner, `StoredAt`, then
changes by a commit of it and by nothing else (`StoredStep`), hence
`OnlyCommitsPublish`. `DoomedOrCurrent` needs two facts more: a filter answers
for all that was seen (`SeenIsFiltered`), and nobody else who is in flight and not doomed has seen what a
commit is publishing (`PublishSpares`). The decision of the commit establishes the second, since it
dooms all whose filter answers for an object that it wrote. It lasts, since who
looks at such an object from then on finds its owner. `SeenStep` says what any
step does to what a thread has seen.

For the refinement of `AtomicStore` (`CommitsAtOnceCorrect`) a commit has to find
what it has seen current at the very step in which it publishes. It is current
when the commit is decided, since who decides is in flight (`EndsInFlight`) and has
tested its flag with the mutexes held; it stays so because publishers hold the
general mutex and so are alone (`OnePublisher`, `PublisherCurrent`). `MapsToWork`
covers reads, writes in place and the steps of an abort, which are all changes of
one entry (`OneEntry`), `EndRefines` both kinds of end, and `OwnersEntries` says
that what one transaction does to an object in place is no concern of another.

### Memory

`TxMemoryProofs` is about any threads and cells and any length of the clock. The
invariant `PlacesInv` says where a cell can be: unused, private to a transaction
(new, or a copy), linked, removed by a commit that has not buried it yet, or
buried in one entry; and that these exclude each other, that a transaction which
is not doomed has references to linked and private cells only, and that nothing
leaks. There is one lemma for each action (`CommitPlaces` is the central one),
and `LinkedIsShared` and `FreedOnce` are read off the invariant; for the second,
`OnePlace` turns "at most one" into cardinalities. `BufferProtects` needs
`TimeInv`: what a transaction holds was buried after its start, since a reference
is only made to what is linked or its own, and a scan has a time that is no later
than the start of any transaction that was in flight when it was made.

### What is only model-checked

`CommitsKeepComing`, `WalksEnd` and `DoomedNestStartsAgain` (liveness, which is
out of the prover's reach under fairness), and that the modules without a
`NoWaitingCycle` never deadlock as a whole (ENABLED). The
violated properties are refuted by TLC.

## Not modelled

- The race on the scratch words of a bloom filter (`exists()`, bloom_filter.hpp:66).
  A committer that tests the filter of a thread while this thread asks the same
  filter, without a mutex, may test the wrong bits and spare a reader. The
  modules take `exists()` as one step; the proofs are about a library in which
  the two words are local variables.
- The arithmetic of the contention managers: they are replaced by every answer
  they could give, so safety does not depend on them. `CommitsKeepComing` is
  shown for the default one.
- `bind()` and bound sub-objects, `begin()` without a constructor, move semantics,
  and what a direct transaction allocates.
- `auto_lock` and its timed variants, which call `lock_` and `unlock_`.
- Code that `config.hpp` does not select: validation, read sets, the memory
  pool, the unsafe deletion buffer, separate maps per thread.
- Bookkeeping, logging and profiling, which no decision reads; smart pointers and
  wrappers of native types, which only call `read()` and `write()`.

## Plan

What would come next, in this order: the scratch words of the filter as a module
of its own; the contention managers' arithmetic against a reference.
