------------------------------- MODULE NestedTx -------------------------------
(***************************************************************************)
(* Nested and composed transactions: atomic, try_atomic and use_atomic     *)
(* blocks (transaction.hpp:1883-1889) inside one another on one thread.    *)
(*                                                                         *)
(* Every block has a transaction object with a state of its own, but all   *)
(* of a thread's objects share its context: write list, bloom filter and   *)
(* forced-to-abort flag.  An inner end() hands its work to the outer       *)
(* transaction; the outermost end() commits it all.                        *)
(*                                                                         *)
(* An exception is a location: "throw" is aborted_tx on its way to the     *)
(* handler of the innermost block, and a block that does not have one is   *)
(* unwound.                                                                *)
(*                                                                         *)
(* The commit of an outermost transaction is one step; DeferredStm is      *)
(* about what happens inside it.  Filters are exact here: a filter is the  *)
(* set of the objects inserted in it.                                      *)
(***************************************************************************)
EXTENDS Integers, Sequences

CONSTANTS
  Thread, Obj, Val,
  OuterKind,  \* the macros that open outermost blocks
  InnerKind,  \* the macros that open nested blocks
  MaxDepth,   \* how deep blocks are nested
  NoVal

Kind == {"atomic", "try_atomic", "use_atomic"}

ASSUME NestAssumption ==
  /\ OuterKind \subseteq Kind
  /\ InnerKind \subseteq Kind
  /\ MaxDepth \in Nat
  /\ NoVal \notin Val

VARIABLES
  mem,           \* shared memory
  nest,          \* each thread's transaction objects, outermost first
  forcedToAbort, \* the thread's forced-to-abort flag
  bloom,         \* the thread's bloom filter
  writeList,     \* the thread's write list
  seen,          \* history: what the nest read from memory since it started
  wrote,         \* history: what the nest wrote since it started
  pc             \* where each thread is

vars == <<mem, nest, forcedToAbort, bloom, writeList, seen, wrote, pc>>

NothingWritten == [x \in Obj |-> NoVal]
NothingSeen == [x \in Obj |-> {}]

Init ==
  /\ mem \in [Obj -> Val]
  /\ nest = [t \in Thread |-> <<>>]
  /\ forcedToAbort = [t \in Thread |-> FALSE]
  /\ bloom = [t \in Thread |-> {}]
  /\ writeList = [t \in Thread |-> NothingWritten]
  /\ seen = [t \in Thread |-> NothingSeen]
  /\ wrote = [t \in Thread |-> NothingWritten]
  /\ pc = [t \in Thread |-> "idle"]

-----------------------------------------------------------------------------
Goto(t, l) == pc' = [pc EXCEPT ![t] = l]

Depth(t) == Len(nest[t])
Top(t) == nest[t][Depth(t)]
InFlight(t) == Depth(t) > 0 /\ Top(t).state = "inFlight"
Written(t) == {x \in Obj : writeList[t][x] # NoVal}

(* other_in_flight_same_thread_transactions().                             *)
OtherInFlight(t) ==
  \E i \in 1 .. Depth(t) - 1 : nest[t][i].state = "inFlight"

SetTop(t, s) == nest' = [nest EXCEPT ![t][Depth(t)].state = s]

(* The object of the innermost block is destroyed; the rest of the thread  *)
(* is at l, or outside of all transactions.                                *)
LeaveBlock(t, l) ==
  /\ nest' = [nest EXCEPT ![t] = SubSeq(@, 1, Depth(t) - 1)]
  /\ Goto(t, IF Depth(t) = 1 THEN "idle" ELSE l)

(* The nest is over, or starts again from nothing.                         *)
Forget(t) ==
  /\ seen' = [seen EXCEPT ![t] = NothingSeen]
  /\ wrote' = [wrote EXCEPT ![t] = NothingWritten]

(* Fault: the flag goes with the inner transaction.                        *)
DeferredAbortAll(t) ==
  /\ writeList' = [writeList EXCEPT ![t] = NothingWritten]
  /\ bloom' = [bloom EXCEPT ![t] = {}]
  /\ forcedToAbort' = [forcedToAbort EXCEPT ![t] = FALSE]
  /\ IF OtherInFlight(t) THEN UNCHANGED <<seen, wrote>> ELSE Forget(t)

(* deferred_abort(): the thread's context is emptied, but the flag stays   *)
(* up while an outer transaction is in flight.                             *)
DeferredAbort(t) ==
  /\ writeList' = [writeList EXCEPT ![t] = NothingWritten]
  /\ bloom' = [bloom EXCEPT ![t] = {}]
  /\ IF OtherInFlight(t)
     THEN UNCHANGED <<forcedToAbort, seen, wrote>>
     ELSE /\ forcedToAbort' = [forcedToAbort EXCEPT ![t] = FALSE]
          /\ Forget(t)

-----------------------------------------------------------------------------
(* The head of a block: constructor and loop condition.                    *)

(* The constructor puts the transaction in flight.                         *)
Construct(t, k) ==
  /\ pc[t] \in {"idle", "body"}
  /\ Depth(t) < MaxDepth
  /\ k \in IF Depth(t) = 0 THEN OuterKind ELSE InnerKind
  /\ nest' = [nest EXCEPT ![t] = Append(@, [kind |-> k, state |-> "inFlight"])]
  /\ Goto(t, "head")
  /\ UNCHANGED <<mem, forcedToAbort, bloom, writeList, seen, wrote>>

(* atomic: restart_if_not_inflight() finds the transaction in flight.      *)
EnterBody(t) ==
  /\ pc[t] = "head"
  /\ Top(t).kind = "atomic"
  /\ InFlight(t)
  /\ Goto(t, "body")
  /\ UNCHANGED <<mem, nest, forcedToAbort, bloom, writeList, seen, wrote>>

(* Fault: an aborted inner block is restarted on its own.                  *)
RestartInner(t) ==
  /\ pc[t] = "head"
  /\ Top(t).kind = "atomic"
  /\ Top(t).state = "aborted"
  /\ OtherInFlight(t)
  /\ SetTop(t, "inFlight")
  /\ Goto(t, "body")
  /\ UNCHANGED <<mem, forcedToAbort, bloom, writeList, seen, wrote>>

(* atomic: check_throw_before_restart() passes the exception on.           *)
ClosedNestingThrow(t) ==
  /\ pc[t] = "head"
  /\ Top(t).kind = "atomic"
  /\ Top(t).state = "aborted"
  /\ OtherInFlight(t)
  /\ LeaveBlock(t, "throw")
  /\ UNCHANGED <<mem, forcedToAbort, bloom, writeList, seen, wrote>>

(* restart() of a transaction that is in flight: it aborts first.          *)
RestartInFlight(t) ==
  /\ pc[t] = "head"
  /\ Top(t).kind # "atomic"
  /\ InFlight(t)
  /\ DeferredAbort(t)
  /\ Goto(t, "body")
  /\ UNCHANGED <<mem, nest>>

(* restart() of an aborted transaction.                                    *)
Restart(t) ==
  /\ pc[t] = "head"
  /\ Top(t).state = "aborted"
  /\ Top(t).kind = "atomic" => ~OtherInFlight(t)
  /\ forcedToAbort' = [forcedToAbort EXCEPT ![t] = @ /\ OtherInFlight(t)]
  /\ SetTop(t, "inFlight")
  /\ Goto(t, "body")
  /\ UNCHANGED <<mem, bloom, writeList, seen, wrote>>

-----------------------------------------------------------------------------
(* The body.                                                               *)

(* Fault: what the filter answers for is taken from the write list.        *)
ReadFiltered(t, x) ==
  /\ pc[t] = "body"
  /\ ~forcedToAbort[t]
  /\ bloom' = [bloom EXCEPT ![t] = @ \union {x}]
  /\ seen' = [seen EXCEPT ![t][x] =
                @ \union {IF x \in bloom[t] THEN writeList[t][x] ELSE mem[x]}]
  /\ UNCHANGED <<mem, nest, forcedToAbort, writeList, wrote, pc>>

Read(t, x) ==
  /\ pc[t] = "body"
  /\ ~forcedToAbort[t]
  /\ \/ writeList[t][x] # NoVal /\ UNCHANGED <<bloom, seen>>
     \/ /\ writeList[t][x] = NoVal
        /\ bloom' = [bloom EXCEPT ![t] = @ \union {x}]
        /\ seen' = [seen EXCEPT ![t][x] = @ \union {mem[x]}]
  /\ UNCHANGED <<mem, nest, forcedToAbort, writeList, wrote, pc>>

Write(t, x, v) ==
  /\ pc[t] = "body"
  /\ ~forcedToAbort[t]
  /\ bloom' = [bloom EXCEPT ![t] = @ \union {x}]
  /\ writeList' = [writeList EXCEPT ![t][x] = v]
  /\ wrote' = [wrote EXCEPT ![t][x] = v]
  /\ UNCHANGED <<mem, nest, forcedToAbort, seen, pc>>

(* A body may doom its own transaction, as nestedTxs.cpp does.             *)
ForceToAbort(t) ==
  /\ pc[t] = "body"
  /\ ~forcedToAbort[t]
  /\ forcedToAbort' = [forcedToAbort EXCEPT ![t] = TRUE]
  /\ UNCHANGED <<mem, nest, bloom, writeList, seen, wrote, pc>>

(* read(), write() and new of a doomed transaction.                        *)
AbortOnFlag(t) ==
  /\ pc[t] = "body"
  /\ forcedToAbort[t]
  /\ DeferredAbort(t)
  /\ SetTop(t, "aborted")
  /\ Goto(t, "throw")
  /\ UNCHANGED mem

-----------------------------------------------------------------------------
(* aborted_tx.                                                             *)

(* before_retry: the handler of atomic and try_atomic, then no_throw_end().*)
Catch(t) ==
  /\ pc[t] = "throw"
  /\ Top(t).kind # "use_atomic"
  /\ Goto(t, "end")
  /\ UNCHANGED <<mem, nest, forcedToAbort, bloom, writeList, seen, wrote>>

(* use_atomic has no handler: its transaction is destroyed, and aborted if *)
(* it is in flight.                                                        *)
Unwind(t) ==
  /\ pc[t] = "throw"
  /\ Top(t).kind = "use_atomic"
  /\ IF InFlight(t) THEN DeferredAbort(t)
     ELSE UNCHANGED <<forcedToAbort, bloom, writeList, seen, wrote>>
  /\ LeaveBlock(t, "throw")
  /\ UNCHANGED mem

-----------------------------------------------------------------------------
(* end().                                                                  *)

Ending(t) == pc[t] \in {"body", "end"} /\ InFlight(t)

(* end() of a transaction that is not in flight does nothing.              *)
EndAborted(t) ==
  /\ pc[t] = "end"
  /\ ~InFlight(t)
  /\ Goto(t, "head")
  /\ UNCHANGED <<mem, nest, forcedToAbort, bloom, writeList, seen, wrote>>

(* The abort inside end() throws; no_throw_end() swallows the exception,   *)
(* end() of use_atomic lets it out of the block.                           *)
AbortInEnd(t) ==
  /\ DeferredAbort(t)
  /\ IF Top(t).kind = "use_atomic" THEN LeaveBlock(t, "throw")
     ELSE SetTop(t, "aborted") /\ Goto(t, "head")
  /\ UNCHANGED mem

EndDoomed(t) ==
  /\ Ending(t)
  /\ forcedToAbort[t]
  /\ AbortInEnd(t)

(* Fault: the flag is not tested when there is an outer transaction.       *)
HandOffDoomed(t) ==
  /\ Ending(t)
  /\ OtherInFlight(t)
  /\ forcedToAbort' = [forcedToAbort EXCEPT ![t] = FALSE]
  /\ LeaveBlock(t, "body")
  /\ UNCHANGED <<mem, bloom, writeList, seen, wrote>>

(* e_hand_off: the context is left as it is, for the outer transaction.    *)
HandOff(t) ==
  /\ Ending(t)
  /\ ~forcedToAbort[t]
  /\ OtherInFlight(t)
  /\ LeaveBlock(t, "body")
  /\ UNCHANGED <<mem, forcedToAbort, bloom, writeList, seen, wrote>>

(* is_only_reading().                                                      *)
CommitReadOnly(t) ==
  /\ Ending(t)
  /\ ~forcedToAbort[t]
  /\ ~OtherInFlight(t)
  /\ Written(t) = {}
  /\ LeaveBlock(t, "body")
  /\ Forget(t)
  /\ UNCHANGED <<mem, forcedToAbort, bloom, writeList>>

(* Fault: threads inside a nested block are passed over.                   *)
VictimsOutermost(t) ==
  {u \in Thread \ {t} :
     Depth(u) = 1 /\ InFlight(u) /\ bloom[u] \intersect Written(t) # {}}

(* Threads with a transaction in flight, not yet doomed, whose filter      *)
(* answers for an object that t wrote.                                     *)
Victims(t) ==
  {u \in Thread \ {t} :
     /\ ~forcedToAbort[u]
     /\ \E i \in DOMAIN nest[u] : nest[u][i].state = "inFlight"
     /\ bloom[u] \intersect Written(t) # {}}

(* The writes of the whole nest, at once.  The filter keeps its bits.      *)
Commit(t) ==
  /\ Ending(t)
  /\ ~forcedToAbort[t]
  /\ ~OtherInFlight(t)
  /\ Written(t) # {}
  /\ mem' = [x \in Obj |-> IF x \in Written(t) THEN writeList[t][x] ELSE mem[x]]
  /\ forcedToAbort' = [u \in Thread |-> forcedToAbort[u] \/ u \in Victims(t)]
  /\ writeList' = [writeList EXCEPT ![t] = NothingWritten]
  /\ Forget(t)
  /\ LeaveBlock(t, "body")
  /\ UNCHANGED bloom

(* The contention manager does not let t abort its victims.                *)
CommitDenied(t) ==
  /\ Ending(t)
  /\ ~forcedToAbort[t]
  /\ ~OtherInFlight(t)
  /\ Victims(t) # {}
  /\ AbortInEnd(t)

Step(t) ==
  \/ \E k \in Kind : Construct(t, k)
  \/ EnterBody(t) \/ ClosedNestingThrow(t) \/ RestartInFlight(t) \/ Restart(t)
  \/ \E x \in Obj : Read(t, x) \/ \E v \in Val : Write(t, x, v)
  \/ ForceToAbort(t) \/ AbortOnFlag(t)
  \/ Catch(t) \/ Unwind(t)
  \/ EndAborted(t) \/ EndDoomed(t) \/ HandOff(t)
  \/ CommitReadOnly(t) \/ Commit(t) \/ CommitDenied(t)

Next == \E t \in Thread : Step(t)

Spec == Init /\ [][Next]_vars

(* A thread inside a block keeps running.                                  *)
FairSpec == Spec /\ \A t \in Thread : WF_vars(pc[t] # "idle" /\ Step(t))

-----------------------------------------------------------------------------
(* Properties.                                                             *)

TypeOK ==
  /\ mem \in [Obj -> Val]
  /\ nest \in [Thread -> Seq([kind : Kind, state : {"inFlight", "aborted"}])]
  /\ forcedToAbort \in [Thread -> BOOLEAN]
  /\ bloom \in [Thread -> SUBSET Obj]
  /\ writeList \in [Thread -> [Obj -> Val \union {NoVal}]]
  /\ seen \in [Thread -> [Obj -> SUBSET Val]]
  /\ wrote \in [Thread -> [Obj -> Val \union {NoVal}]]
  /\ pc \in [Thread -> {"idle", "head", "body", "throw", "end"}]
  /\ \A t \in Thread : pc[t] = "idle" <=> nest[t] = <<>>

(* Until it is doomed, a nest loses nothing: the shared write list holds   *)
(* every write its blocks made, the filter answers for every object they   *)
(* touched, and all they read is still in memory.                          *)
NestKeepsItsWork ==
  \A t \in Thread :
    nest[t] # <<>> /\ ~forcedToAbort[t] =>
      /\ writeList[t] = wrote[t]
      /\ \A x \in Obj : /\ seen[t][x] # {} \/ wrote[t][x] # NoVal => x \in bloom[t]
                        /\ seen[t][x] \subseteq {mem[x]}

(* No block is aborted and left under one that goes on: an inner abort     *)
(* with an outer transaction in flight leaves the flag up until the outer  *)
(* one is reached.                                                         *)
AbortReachesOutermost ==
  \A t \in Thread :
    \A i \in DOMAIN nest[t] :
      nest[t][i].state = "aborted" =>
        i = Depth(t) /\ (i = 1 \/ forcedToAbort[t])

(* A nest is one transaction of the atomic store: it takes effect at the   *)
(* outermost end(), with the reads and writes of all its blocks.           *)
NestAsOne == INSTANCE AtomicStore WITH
  store <- mem,
  running <- {t \in Thread : nest[t] # <<>> /\ nest[t][1].state = "inFlight"},
  read <- seen,
  written <- wrote

NestIsOneTransaction == NestAsOne!ASpec

(* A doomed nest gets to its outermost block and starts again: the throw   *)
(* of check_throw_before_restart() keeps inner blocks from restarting,     *)
(* which "will cause it to infinitely fail" (transaction.hpp:517-521).     *)
DoomedNestStartsAgain ==
  \A t \in Thread : forcedToAbort[t] ~> ~forcedToAbort[t]
=============================================================================
