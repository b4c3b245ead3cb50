------------------------------- MODULE TxMemory -------------------------------
(***************************************************************************)
(* What transactions allocate and delete: new_memory() and                 *)
(* deferred_delete_memory() of transaction.hpp, what commits and aborts do *)
(* with their lists, and the deletion buffer, from which the constructor   *)
(* of a later transaction frees (transaction_impl.hpp).                    *)
(*                                                                         *)
(* The program keeps objects in a linked structure, as the tests do: it    *)
(* reaches an object by reading the structure, and it writes the structure *)
(* where it adds or removes one.  So a commit that adds or removes dooms   *)
(* every transaction that has reached anything; how is in DeferredStm.     *)
(* A doomed transaction goes on until it notices.                          *)
(*                                                                         *)
(* Addresses are not used again.  time(0) counts in whole seconds.         *)
(* A definition introduced as "Fault:" is not part of the specification.   *)
(***************************************************************************)
EXTENDS Integers, FiniteSets

CONSTANTS
  Thread, Cell,
  MaxTime,       \* bound: the last second
  NoThread, NoCell

ASSUME MemoryAssumption ==
  /\ MaxTime \in Nat
  /\ NoThread \notin Thread
  /\ NoCell \notin Cell

VARIABLES
  clock,                \* time(0)
  heap,                 \* of each cell: "unused", "live" or "freed"
  tag,                  \* transaction_thread() of each cell
  linked,               \* the objects of the structure
  deletionBuffer,
  transactionsInFlight,
  startTime,
  forcedToAbort,
  newMemoryList,
  deletedMemoryList,
  copyOf,               \* writeList: the copy of each object, or NoCell
  rewired,              \* it wrote the structure
  holds,                \* cells the body has references to
  earliest,             \* earliestInFlightTx of the constructor
  pc,
  late,                 \* history: who was put in flight since a scan
  misdeleted            \* history: objects deleted by way of their copies,
                        \* and these copies

txVars == <<transactionsInFlight, startTime, forcedToAbort>>
lists == <<newMemoryList, deletedMemoryList, copyOf, rewired, holds>>
history == <<late, misdeleted>>
vars == <<clock, heap, tag, linked, deletionBuffer, txVars, lists, earliest, pc,
          history>>

Init ==
  /\ clock = 0
  /\ linked \in SUBSET Cell
  /\ heap = [c \in Cell |-> IF c \in linked THEN "live" ELSE "unused"]
  /\ tag = [c \in Cell |-> NoThread]
  /\ deletionBuffer = {}
  /\ transactionsInFlight = {}
  /\ startTime = [t \in Thread |-> 0]
  /\ forcedToAbort = [t \in Thread |-> FALSE]
  /\ newMemoryList = [t \in Thread |-> {}]
  /\ deletedMemoryList = [t \in Thread |-> {}]
  /\ copyOf = [t \in Thread |-> [c \in Cell |-> NoCell]]
  /\ rewired = [t \in Thread |-> FALSE]
  /\ holds = [t \in Thread |-> {}]
  /\ earliest = [t \in Thread |-> 0]
  /\ pc = [t \in Thread |-> "out"]
  /\ late = [t \in Thread |-> {}]
  /\ misdeleted = {}

-----------------------------------------------------------------------------
Goto(t, l) == pc' = [pc EXCEPT ![t] = l]

Tick ==
  /\ clock < MaxTime
  /\ clock' = clock + 1
  /\ UNCHANGED <<heap, tag, linked, deletionBuffer, txVars, lists, earliest, pc,
                 history>>

Copies(t) == {copyOf[t][x] : x \in Cell} \ {NoCell}

(* delete, for all of a set of cells.                                      *)
Free(cells) ==
  heap' = [c \in Cell |-> IF c \in cells THEN "freed" ELSE heap[c]]

(* lock_tx() waits for a commit that copies.                               *)
TxUnlocked == \A u \in Thread : pc[u] # "publish"

(* put_tx_inflight().                                                      *)
PutInFlight(t) ==
  /\ transactionsInFlight' = transactionsInFlight \cup {t}
  /\ late' = [s \in Thread |-> IF pc[s] = "sweep" THEN late[s] \cup {t} ELSE {}]

-----------------------------------------------------------------------------
(* The constructor.                                                        *)

Construct(t) ==
  /\ pc[t] = "out"
  /\ startTime' = [startTime EXCEPT ![t] = clock]
  /\ Goto(t, "scan")
  /\ UNCHANGED <<clock, heap, tag, linked, deletionBuffer, transactionsInFlight,
                 forcedToAbort, lists, earliest, history>>

(* earliest_start_time_of_inflight_txes(): past every time (0xffffffff)    *)
(* when none is in flight.                                                 *)
Scan(t) ==
  /\ pc[t] = "scan"
  /\ \E e \in 0 .. MaxTime + 1 :
       /\ \A u \in transactionsInFlight : e <= startTime[u]
       /\ e = MaxTime + 1 \/ \E u \in transactionsInFlight : e = startTime[u]
       /\ earliest' = [earliest EXCEPT ![t] = e]
  /\ Goto(t, "sweep")
  /\ UNCHANGED <<clock, heap, tag, linked, deletionBuffer, txVars, lists,
                 history>>

(* Fault: what was deleted in the second of the earliest start goes too.   *)
DueEarly(t) == {b \in deletionBuffer : earliest[t] >= b.time}

(* The entries that doIntervalDeletions() frees.                           *)
Due(t) == {b \in deletionBuffer : earliest[t] > b.time}

(* The rest of doIntervalDeletions(), under deletionBufferMutex_.          *)
Sweep(t) ==
  LET cells == UNION {b.cells : b \in Due(t)} IN
  /\ pc[t] = "sweep"
  /\ Free(cells)
  /\ deletionBuffer' = deletionBuffer \ Due(t)
  /\ earliest' = [earliest EXCEPT ![t] = 0]
  /\ late' = [late EXCEPT ![t] = {}]
  /\ Goto(t, "enter")
  /\ UNCHANGED <<clock, tag, linked, txVars, lists, misdeleted>>

(* Also restart() of a transaction that was aborted, which keeps its start *)
(* time.                                                                   *)
Enter(t) ==
  /\ pc[t] = "enter"
  /\ PutInFlight(t)
  /\ Goto(t, "body")
  /\ UNCHANGED <<clock, heap, tag, linked, deletionBuffer, startTime,
                 forcedToAbort, lists, earliest, misdeleted>>

-----------------------------------------------------------------------------
(* The body.                                                               *)

(* read() of an object of the structure, which is returned or its copy.    *)
Reach(t, x) ==
  /\ pc[t] = "body" /\ ~forcedToAbort[t]
  /\ x \in linked \ deletedMemoryList[t]
  /\ TxUnlocked
  /\ holds' = [holds EXCEPT ![t] = @ \cup
       {IF copyOf[t][x] = NoCell THEN x ELSE copyOf[t][x]}]
  /\ UNCHANGED <<clock, heap, tag, linked, deletionBuffer, txVars,
                 newMemoryList, deletedMemoryList, copyOf, rewired, earliest,
                 pc, history>>

(* deferred_write() of an object that has no copy yet and no tag.          *)
Write(t, x, c) ==
  /\ pc[t] = "body" /\ ~forcedToAbort[t]
  /\ x \in holds[t] /\ copyOf[t][x] = NoCell /\ x \notin Copies(t)
  /\ x \notin deletedMemoryList[t]
  /\ TxUnlocked /\ tag[x] = NoThread
  /\ heap[c] = "unused"
  /\ heap' = [heap EXCEPT ![c] = "live"]
  /\ tag' = [tag EXCEPT ![c] = t]
  /\ copyOf' = [copyOf EXCEPT ![t][x] = c]
  /\ holds' = [holds EXCEPT ![t] = @ \cup {c}]
  /\ UNCHANGED <<clock, linked, deletionBuffer, txVars, newMemoryList,
                 deletedMemoryList, rewired, earliest, pc, history>>

(* new_memory(); the object goes into the structure.                       *)
New(t, c) ==
  /\ pc[t] = "body" /\ ~forcedToAbort[t]
  /\ heap[c] = "unused"
  /\ heap' = [heap EXCEPT ![c] = "live"]
  /\ tag' = [tag EXCEPT ![c] = t]
  /\ newMemoryList' = [newMemoryList EXCEPT ![t] = @ \cup {c}]
  /\ rewired' = [rewired EXCEPT ![t] = TRUE]
  /\ holds' = [holds EXCEPT ![t] = @ \cup {c}]
  /\ UNCHANGED <<clock, linked, deletionBuffer, txVars, deletedMemoryList,
                 copyOf, earliest, pc, history>>

(* The program takes an object out of the structure and calls              *)
(* deferred_delete_memory() with a reference that it has: to the object,   *)
(* or to the copy that write() or read() returned.  The code asks for      *)
(* transaction_thread() the other way round, so it never looks the copy up *)
(* in the write list: the copy itself is listed, and not the object.       *)
Delete(t, c) ==
  /\ pc[t] = "body" /\ ~forcedToAbort[t]
  /\ c \in holds[t] \ deletedMemoryList[t]
  /\ \A x \in Cell : copyOf[t][x] = c => x \notin deletedMemoryList[t]
  /\ copyOf[t][c] # NoCell => copyOf[t][c] \notin deletedMemoryList[t]
  /\ TxUnlocked
  /\ deletedMemoryList' = [deletedMemoryList EXCEPT ![t] = @ \cup {c}]
  /\ rewired' = [rewired EXCEPT ![t] = TRUE]
  /\ UNCHANGED <<clock, heap, tag, linked, deletionBuffer, txVars,
                 newMemoryList, copyOf, holds, earliest, pc, history>>

-----------------------------------------------------------------------------
(* The end.                                                                *)

Clear(t) ==
  /\ newMemoryList' = [newMemoryList EXCEPT ![t] = {}]
  /\ copyOf' = [copyOf EXCEPT ![t] = [x \in Cell |-> NoCell]]
  /\ rewired' = [rewired EXCEPT ![t] = FALSE]
  /\ holds' = [holds EXCEPT ![t] = {}]

(* Fault: the list of what was to be deleted survives.                     *)
AbortKeepingDeletions(t) ==
  /\ pc[t] = "body"
  /\ Free(Copies(t) \cup newMemoryList[t])
  /\ Clear(t)
  /\ UNCHANGED deletedMemoryList
  /\ transactionsInFlight' = transactionsInFlight \ {t}
  /\ forcedToAbort' = [forcedToAbort EXCEPT ![t] = FALSE]
  /\ \E l \in {"enter", "out"} : Goto(t, l)
  /\ UNCHANGED <<clock, tag, linked, deletionBuffer, startTime, earliest, late,
                 misdeleted>>

(* Fault: what was allocated is forgotten.                                 *)
AbortLeaking(t) ==
  /\ pc[t] = "body"
  /\ Free(Copies(t))
  /\ Clear(t)
  /\ deletedMemoryList' = [deletedMemoryList EXCEPT ![t] = {}]
  /\ transactionsInFlight' = transactionsInFlight \ {t}
  /\ forcedToAbort' = [forcedToAbort EXCEPT ![t] = FALSE]
  /\ \E l \in {"enter", "out"} : Goto(t, l)
  /\ UNCHANGED <<clock, tag, linked, deletionBuffer, startTime, earliest, late,
                 misdeleted>>

(* deferred_abort(): on the flag, or of a transaction that is destroyed.   *)
(* The lists are cleared one after the other, all of them the thread's     *)
(* own.                                                                    *)
Abort(t) ==
  /\ pc[t] = "body"
  /\ Free(Copies(t) \cup newMemoryList[t])
  /\ Clear(t)
  /\ deletedMemoryList' = [deletedMemoryList EXCEPT ![t] = {}]
  /\ transactionsInFlight' = transactionsInFlight \ {t}
  /\ forcedToAbort' = [forcedToAbort EXCEPT ![t] = FALSE]
  /\ \E l \in {"enter", "out"} : Goto(t, l)
  /\ UNCHANGED <<clock, tag, linked, deletionBuffer, startTime, earliest, late,
                 misdeleted>>

(* invalidating_deferred_commit() up to deferredCommitWriteState(), or the *)
(* way out of a transaction that only read.                                *)
Commit(t) ==
  LET removed == {x \in Cell : deletedMemoryList[t] \cap {x, copyOf[t][x]} # {}} IN
  /\ pc[t] = "body" /\ ~forcedToAbort[t] /\ TxUnlocked
  /\ transactionsInFlight' = transactionsInFlight \ {t}
  /\ forcedToAbort' = [u \in Thread |->
       \/ forcedToAbort[u]
       \/ rewired[t] /\ u \in transactionsInFlight \ {t} /\ holds[u] # {}]
  /\ linked' = (linked \cup newMemoryList[t]) \ removed
  /\ misdeleted' = misdeleted \cup
       {x \in Cell : Copies(t) \cap deletedMemoryList[t] \cap {x, copyOf[t][x]} # {}}
  /\ Free(Copies(t))
  /\ Goto(t, "publish")
  /\ UNCHANGED <<clock, tag, deletionBuffer, startTime, lists, earliest, late>>

(* Fault: new objects keep their tags.                                     *)
PublishTagged(t) ==
  /\ pc[t] = "publish"
  /\ UNCHANGED tag
  /\ Clear(t)
  /\ Goto(t, "bury")
  /\ UNCHANGED <<clock, heap, linked, deletionBuffer, txVars, deletedMemoryList,
                 earliest, history>>

(* deferredCommitTransactionNewMemory() and unlock_all_mutexes().          *)
Publish(t) ==
  /\ pc[t] = "publish"
  /\ tag' = [c \in Cell |-> IF c \in newMemoryList[t] THEN NoThread ELSE tag[c]]
  /\ Clear(t)
  /\ Goto(t, "bury")
  /\ UNCHANGED <<clock, heap, linked, deletionBuffer, txVars, deletedMemoryList,
                 earliest, history>>

(* deferredCommitTransactionDeletedMemory().                               *)
Bury(t) ==
  /\ pc[t] = "bury"
  /\ deletionBuffer' = IF deletedMemoryList[t] = {} THEN deletionBuffer
       ELSE deletionBuffer \cup {[time |-> clock, cells |-> deletedMemoryList[t]]}
  /\ deletedMemoryList' = [deletedMemoryList EXCEPT ![t] = {}]
  /\ Goto(t, "out")
  /\ UNCHANGED <<clock, heap, tag, linked, txVars, newMemoryList, copyOf,
                 rewired, holds, earliest, history>>

-----------------------------------------------------------------------------
Next ==
  \/ Tick
  \/ \E t \in Thread :
       \/ Construct(t) \/ Scan(t) \/ Sweep(t) \/ Enter(t)
       \/ \E c \in Cell : Reach(t, c) \/ New(t, c) \/ Delete(t, c)
       \/ \E x, c \in Cell : Write(t, x, c)
       \/ Abort(t) \/ Commit(t) \/ Publish(t) \/ Bury(t)

Spec == Init /\ [][Next]_vars

-----------------------------------------------------------------------------
(* Properties.                                                             *)

Time == 0 .. MaxTime
Location == {"out", "scan", "sweep", "enter", "body", "publish", "bury"}

Types ==
  /\ clock \in Time
  /\ heap \in [Cell -> {"unused", "live", "freed"}]
  /\ tag \in [Cell -> Thread \cup {NoThread}]
  /\ linked \subseteq Cell
  /\ \A b \in deletionBuffer : b.time \in Time /\ b.cells \subseteq Cell
  /\ transactionsInFlight \subseteq Thread
  /\ startTime \in [Thread -> Time]
  /\ forcedToAbort \in [Thread -> BOOLEAN]
  /\ newMemoryList \in [Thread -> SUBSET Cell]
  /\ deletedMemoryList \in [Thread -> SUBSET Cell]
  /\ copyOf \in [Thread -> [Cell -> Cell \cup {NoCell}]]
  /\ rewired \in [Thread -> BOOLEAN]
  /\ holds \in [Thread -> SUBSET Cell]
  /\ earliest \in [Thread -> 0 .. MaxTime + 1]
  /\ pc \in [Thread -> Location]
  /\ late \in [Thread -> SUBSET Thread]
  /\ misdeleted \subseteq Cell

BodiesHaveLists == \A t \in Thread :
  /\ t \in transactionsInFlight <=> pc[t] = "body"
  /\ forcedToAbort[t] => pc[t] = "body"
  /\ pc[t] \in {"out", "scan", "sweep", "enter"} =>
       newMemoryList[t] \cup deletedMemoryList[t] \cup holds[t] \cup Copies(t) = {}

(* The types; and who is not running has empty lists and no flag set.      *)
TypeOK == Types /\ BodiesHaveLists

(* What the structure links is there, and outside the critical section of  *)
(* a commit it has no tag, so that write() never takes a shared object for *)
(* the transaction's own copy.                                             *)
LinkedIsShared == \A c \in linked :
  /\ heap[c] = "live"
  /\ tag[c] # NoThread => pc[tag[c]] = "publish"

(* The cells that a thread is to free, or to bury.                         *)
Owed(t) == IF pc[t] \in {"publish", "bury"} THEN deletedMemoryList[t]
           ELSE newMemoryList[t] \cup Copies(t)

(* Every allocated cell is linked, or in a list of one transaction, or     *)
(* waits in the buffer once; and what is there is not freed yet.  So       *)
(* aborts, commits and sweeps between them free everything once.  The      *)
(* objects that were deleted through their copies are the exception.       *)
FreedOnce == \A c \in Cell \ misdeleted :
  LET buried == {b \in deletionBuffer : c \in b.cells}
      owing == {t \in Thread : c \in Owed(t)}
  IN  Cardinality(buried) + Cardinality(owing) + (IF c \in linked THEN 1 ELSE 0)
        = (IF heap[c] = "live" THEN 1 ELSE 0)

(* A cell is not freed under a transaction in flight that has a reference  *)
(* to it and goes on, unless the transaction was put in flight between the *)
(* scan and the sweep of the thread that frees.                            *)
BufferProtects == [][\A t \in transactionsInFlight \cap transactionsInFlight',
                       c \in Cell :
    c \in holds[t] /\ heap[c] = "live" /\ heap'[c] = "freed"
      => \E s \in Thread : pc[s] = "sweep" /\ pc'[s] # "sweep" /\ t \in late[s]]_vars
=============================================================================
