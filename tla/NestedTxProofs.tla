--------------------------- MODULE NestedTxProofs ---------------------------
(* Theorems about NestedTx, for every number of threads, objects and values *)
(* and every depth.                                                         *)
EXTENDS NestedTx, SequenceTheorems, TLAPS

BlockState == {"inFlight", "aborted"}
Block == [kind : Kind, state : BlockState]

-----------------------------------------------------------------------------
(* What the steps do to a thread's sequence of blocks.                      *)

LEMMA ConstructNest ==
  ASSUME TypeOK, NEW t \in Thread, NEW k \in Kind,
         nest' = [nest EXCEPT ![t] =
                    Append(@, [kind |-> k, state |-> "inFlight"])]
  PROVE  /\ nest' \in [Thread -> Seq(Block)]
         /\ \A u \in Thread \ {t} : nest'[u] = nest[u]
         /\ nest'[t] # <<>>
         /\ Len(nest'[t]) = Len(nest[t]) + 1
         /\ \A i \in 1 .. Len(nest[t]) : nest'[t][i] = nest[t][i]
         /\ nest'[t][Len(nest[t]) + 1] = [kind |-> k, state |-> "inFlight"]
<1>1. nest \in [Thread -> Seq(Block)]
  BY DEF TypeOK, Block, BlockState
<1>2. [kind |-> k, state |-> "inFlight"] \in Block
  BY DEF Block, BlockState
<1>3. nest'[t] = Append(nest[t], [kind |-> k, state |-> "inFlight"])
  BY <1>1
<1>4. nest[t] \in Seq(Block)
  BY <1>1
<1>5. nest'[t] \in Seq(Block) /\ nest'[t] # <<>>
  BY <1>2, <1>3, <1>4
<1> QED
  BY <1>1, <1>2, <1>3, <1>4, <1>5

LEMMA SetTopNest ==
  ASSUME TypeOK, NEW t \in Thread, NEW s \in BlockState, pc[t] # "idle",
         SetTop(t, s)
  PROVE  /\ nest' \in [Thread -> Seq(Block)]
         /\ \A u \in Thread \ {t} : nest'[u] = nest[u]
         /\ nest'[t] # <<>>
         /\ Len(nest'[t]) = Len(nest[t])
         /\ \A i \in 1 .. Len(nest[t]) - 1 : nest'[t][i] = nest[t][i]
         /\ nest'[t][Len(nest[t])] = [kind |-> Top(t).kind, state |-> s]
<1>1. nest \in [Thread -> Seq(Block)] /\ nest[t] # <<>>
  BY DEF TypeOK, Block, BlockState
<1>2. nest[t] \in Seq(Block) /\ Len(nest[t]) \in Nat \ {0}
  BY <1>1
<1>3. nest'[t] = [nest[t] EXCEPT ![Len(nest[t])].state = s]
  BY <1>1 DEF SetTop, Depth
<1>4. Top(t) \in Block
  BY <1>2 DEF Top, Depth
<1>5. nest'[t] = [nest[t] EXCEPT ![Len(nest[t])] =
                    [kind |-> Top(t).kind, state |-> s]]
  BY <1>3, <1>4, <1>2 DEF Top, Depth, Block
<1>6. [kind |-> Top(t).kind, state |-> s] \in Block
  BY <1>4 DEF Block
<1>7. nest'[t] \in Seq(Block) /\ Len(nest'[t]) = Len(nest[t])
  BY <1>2, <1>5, <1>6
<1>8. nest'[t] # <<>>
  BY <1>2, <1>7
<1>9. nest' \in [Thread -> Seq(Block)]
  BY <1>1, <1>7 DEF SetTop
<1> QED
  BY <1>1, <1>2, <1>5, <1>7, <1>8, <1>9 DEF SetTop

LEMMA LeaveBlockNest ==
  ASSUME TypeOK, NEW t \in Thread, NEW l, pc[t] # "idle", LeaveBlock(t, l)
  PROVE  /\ nest' \in [Thread -> Seq(Block)]
         /\ \A u \in Thread \ {t} : nest'[u] = nest[u]
         /\ nest'[t] = <<>> <=> Len(nest[t]) = 1
         /\ Len(nest[t]) \in Nat \ {0}
         /\ Len(nest'[t]) = Len(nest[t]) - 1
         /\ \A i \in 1 .. Len(nest[t]) - 1 : nest'[t][i] = nest[t][i]
<1>1. nest \in [Thread -> Seq(Block)] /\ nest[t] # <<>>
  BY DEF TypeOK, Block, BlockState
<1>2. nest[t] \in Seq(Block) /\ Len(nest[t]) \in Nat \ {0}
  BY <1>1
<1>3. nest'[t] = SubSeq(nest[t], 1, Len(nest[t]) - 1)
  BY <1>1 DEF LeaveBlock, Depth
<1>4. nest'[t] \in Seq(Block) /\ Len(nest'[t]) = Len(nest[t]) - 1
  BY <1>2, <1>3
<1>5. \A i \in 1 .. Len(nest[t]) - 1 : nest'[t][i] = nest[t][i]
  BY <1>2, <1>3
<1>6. nest' \in [Thread -> Seq(Block)]
  BY <1>1, <1>4 DEF LeaveBlock
<1>7. nest'[t] = <<>> <=> Len(nest[t]) = 1
  <2>1. nest'[t] # <<>> => Len(nest'[t]) \in Nat \ {0}
    BY <1>4, EmptySeq
  <2>2. nest'[t] = <<>> => Len(nest'[t]) = 0
    OBVIOUS
  <2> QED
    BY <1>2, <1>4, <2>1, <2>2
<1>8. \A u \in Thread \ {t} : nest'[u] = nest[u]
  BY <1>1 DEF LeaveBlock
<1> QED
  BY <1>2, <1>4, <1>5, <1>6, <1>7, <1>8

-----------------------------------------------------------------------------
(* Types.                                                                   *)

(* The types of the context that a thread's blocks share.                   *)
ContextTypes ==
  /\ forcedToAbort \in [Thread -> BOOLEAN]
  /\ bloom \in [Thread -> SUBSET Obj]
  /\ writeList \in [Thread -> [Obj -> Val \union {NoVal}]]
  /\ seen \in [Thread -> [Obj -> SUBSET Val]]
  /\ wrote \in [Thread -> [Obj -> Val \union {NoVal}]]

LEMMA AbortTypes ==
  ASSUME ContextTypes, NEW t \in Thread, DeferredAbort(t)
  PROVE  ContextTypes'
<1>1. CASE OtherInFlight(t)
  BY <1>1 DEF ContextTypes, DeferredAbort, NothingWritten
<1>2. CASE ~OtherInFlight(t)
  <2>1. NothingSeen \in [Obj -> SUBSET Val]
    BY DEF NothingSeen
  <2>2. NothingWritten \in [Obj -> Val \union {NoVal}]
    BY DEF NothingWritten
  <2>3. seen' \in [Thread -> [Obj -> SUBSET Val]]
    BY <1>2, <2>1 DEF ContextTypes, DeferredAbort, Forget
  <2>4. /\ wrote' \in [Thread -> [Obj -> Val \union {NoVal}]]
        /\ writeList' \in [Thread -> [Obj -> Val \union {NoVal}]]
    BY <1>2, <2>2 DEF ContextTypes, DeferredAbort, Forget
  <2> QED
    BY <1>2, <2>3, <2>4 DEF ContextTypes, DeferredAbort
<1> QED
  BY <1>1, <1>2

(* Where the thread is, and that it is idle when it has no block.           *)
NestTypes ==
  /\ nest \in [Thread -> Seq(Block)]
  /\ pc \in [Thread -> {"idle", "head", "body", "throw", "end"}]
  /\ \A t \in Thread : pc[t] = "idle" <=> nest[t] = <<>>

LEMMA TypeParts ==
  /\ TypeOK <=> mem \in [Obj -> Val] /\ ContextTypes /\ NestTypes
  /\ TypeOK' <=> mem' \in [Obj -> Val] /\ ContextTypes' /\ NestTypes'
  BY DEF TypeOK, ContextTypes, NestTypes, Block, BlockState

LEMMA LeaveBlockTypes ==
  ASSUME TypeOK, NEW t \in Thread, NEW l \in {"body", "throw"},
         pc[t] # "idle", LeaveBlock(t, l)
  PROVE  NestTypes'
<1>1. /\ pc' \in [Thread -> {"idle", "head", "body", "throw", "end"}]
      /\ pc'[t] = IF Len(nest[t]) = 1 THEN "idle" ELSE l
      /\ \A u \in Thread \ {t} : pc'[u] = pc[u]
  BY DEF LeaveBlock, Goto, Depth, TypeOK
<1>2. /\ nest' \in [Thread -> Seq(Block)]
      /\ \A u \in Thread \ {t} : nest'[u] = nest[u]
      /\ nest'[t] = <<>> <=> Len(nest[t]) = 1
  BY LeaveBlockNest
<1> QED
  BY <1>1, <1>2, TypeParts DEF NestTypes

LEMMA SetTopTypes ==
  ASSUME TypeOK, NEW t \in Thread, NEW s \in BlockState,
         NEW l \in {"head", "body", "throw"}, pc[t] # "idle",
         SetTop(t, s), Goto(t, l)
  PROVE  NestTypes'
<1>1. /\ pc' \in [Thread -> {"idle", "head", "body", "throw", "end"}]
      /\ pc'[t] = l
      /\ \A u \in Thread \ {t} : pc'[u] = pc[u]
  BY DEF Goto, TypeOK
<1>2. /\ nest' \in [Thread -> Seq(Block)]
      /\ \A u \in Thread \ {t} : nest'[u] = nest[u]
      /\ nest'[t] # <<>>
  BY SetTopNest
<1> QED
  BY <1>1, <1>2, TypeParts DEF NestTypes

LEMMA GotoTypes ==
  ASSUME TypeOK, NEW t \in Thread, NEW l \in {"head", "body", "throw", "end"},
         pc[t] # "idle", UNCHANGED nest, Goto(t, l)
  PROVE  NestTypes'
  BY TypeParts DEF NestTypes, Goto

LEMMA AbortInEndTypes ==
  ASSUME TypeOK, NEW t \in Thread, pc[t] # "idle", AbortInEnd(t)
  PROVE  TypeOK'
<1>1. ContextTypes' /\ mem' \in [Obj -> Val]
  BY AbortTypes, TypeParts DEF AbortInEnd
<1>2. NestTypes'
  BY LeaveBlockTypes, SetTopTypes DEF AbortInEnd, BlockState
<1> QED
  BY <1>1, <1>2, TypeParts

LEMMA TypeInit == Init => TypeOK
  BY DEF Init, TypeOK, NothingWritten, NothingSeen

LEMMA TypeStep == TypeOK /\ [Next]_vars => TypeOK'
<1> SUFFICES ASSUME TypeOK, [Next]_vars
             PROVE  TypeOK'
  OBVIOUS
<1>1. mem \in [Obj -> Val] /\ ContextTypes /\ NestTypes
  BY TypeParts
<1>2. ASSUME NEW t \in Thread, NEW k \in Kind, Construct(t, k)
      PROVE  TypeOK'
  <2>1. ContextTypes' /\ mem' \in [Obj -> Val]
    BY <1>1, <1>2 DEF Construct, ContextTypes
  <2>2. NestTypes'
    BY <1>1, <1>2, ConstructNest DEF Construct, NestTypes, Goto
  <2> QED
    BY <2>1, <2>2, TypeParts
<1>3. ASSUME NEW t \in Thread, EnterBody(t)
      PROVE  TypeOK'
  <2>1. ContextTypes' /\ mem' \in [Obj -> Val]
    BY <1>1, <1>3 DEF EnterBody, ContextTypes
  <2>2. NestTypes'
    BY <1>1, <1>3, GotoTypes DEF EnterBody
  <2> QED
    BY <2>1, <2>2, TypeParts
<1>4. ASSUME NEW t \in Thread, ClosedNestingThrow(t)
      PROVE  TypeOK'
  <2>1. ContextTypes' /\ mem' \in [Obj -> Val]
    BY <1>1, <1>4 DEF ClosedNestingThrow, ContextTypes
  <2>2. NestTypes'
    BY <1>4, LeaveBlockTypes DEF ClosedNestingThrow
  <2> QED
    BY <2>1, <2>2, TypeParts
<1>5. ASSUME NEW t \in Thread, RestartInFlight(t)
      PROVE  TypeOK'
  <2>1. ContextTypes' /\ mem' \in [Obj -> Val]
    BY <1>1, <1>5, AbortTypes DEF RestartInFlight
  <2>2. NestTypes'
    BY <1>5, GotoTypes DEF RestartInFlight
  <2> QED
    BY <2>1, <2>2, TypeParts
<1>6. ASSUME NEW t \in Thread, Restart(t)
      PROVE  TypeOK'
  <2>1. ContextTypes' /\ mem' \in [Obj -> Val]
    BY <1>1, <1>6 DEF Restart, ContextTypes, OtherInFlight
  <2>2. NestTypes'
    BY <1>6, SetTopTypes DEF Restart, BlockState
  <2> QED
    BY <2>1, <2>2, TypeParts
<1>7. ASSUME NEW t \in Thread, NEW x \in Obj, Read(t, x)
      PROVE  TypeOK'
  <2>1. ContextTypes' /\ mem' \in [Obj -> Val]
    <3>1. seen' \in [Thread -> [Obj -> SUBSET Val]]
      <4>1. seen[t][x] \union {mem[x]} \in SUBSET Val
        BY <1>1 DEF ContextTypes
      <4>2. [seen[t] EXCEPT ![x] = @ \union {mem[x]}] \in [Obj -> SUBSET Val]
        BY <1>1, <4>1 DEF ContextTypes
      <4> QED
        BY <1>1, <1>7, <4>2 DEF Read, ContextTypes
    <3>2. bloom' \in [Thread -> SUBSET Obj]
      BY <1>1, <1>7 DEF Read, ContextTypes
    <3> QED
      BY <1>1, <1>7, <3>1, <3>2 DEF Read, ContextTypes
  <2> QED
    BY <1>1, <1>7, <2>1, TypeParts DEF Read, NestTypes
<1>8. ASSUME NEW t \in Thread, NEW x \in Obj, NEW v \in Val, Write(t, x, v)
      PROVE  TypeOK'
  <2>1. ContextTypes' /\ mem' \in [Obj -> Val]
    BY <1>1, <1>8 DEF Write, ContextTypes
  <2> QED
    BY <1>1, <1>8, <2>1, TypeParts DEF Write, NestTypes
<1>9. ASSUME NEW t \in Thread, ForceToAbort(t)
      PROVE  TypeOK'
  BY <1>1, <1>9, TypeParts DEF ForceToAbort, ContextTypes, NestTypes
<1>10. ASSUME NEW t \in Thread, AbortOnFlag(t)
       PROVE  TypeOK'
  <2>1. ContextTypes' /\ mem' \in [Obj -> Val]
    BY <1>1, <1>10, AbortTypes DEF AbortOnFlag
  <2>2. NestTypes'
    BY <1>10, SetTopTypes DEF AbortOnFlag, BlockState
  <2> QED
    BY <2>1, <2>2, TypeParts
<1>11. ASSUME NEW t \in Thread, Catch(t)
      PROVE  TypeOK'
  <2>1. ContextTypes' /\ mem' \in [Obj -> Val]
    BY <1>1, <1>11 DEF Catch, ContextTypes
  <2>2. NestTypes'
    BY <1>1, <1>11, GotoTypes DEF Catch
  <2> QED
    BY <2>1, <2>2, TypeParts
<1>12. ASSUME NEW t \in Thread, Unwind(t)
       PROVE  TypeOK'
  <2>1. ContextTypes' /\ mem' \in [Obj -> Val]
    BY <1>1, <1>12, AbortTypes DEF Unwind, ContextTypes
  <2>2. NestTypes'
    BY <1>12, LeaveBlockTypes DEF Unwind
  <2> QED
    BY <2>1, <2>2, TypeParts
<1>13. ASSUME NEW t \in Thread, EndAborted(t)
      PROVE  TypeOK'
  <2>1. ContextTypes' /\ mem' \in [Obj -> Val]
    BY <1>1, <1>13 DEF EndAborted, ContextTypes
  <2>2. NestTypes'
    BY <1>1, <1>13, GotoTypes DEF EndAborted
  <2> QED
    BY <2>1, <2>2, TypeParts
<1>14. ASSUME NEW t \in Thread, EndDoomed(t) \/ CommitDenied(t)
       PROVE  TypeOK'
  BY <1>14, AbortInEndTypes DEF EndDoomed, CommitDenied, Ending
<1>15. ASSUME NEW t \in Thread, HandOff(t)
       PROVE  TypeOK'
  <2>1. ContextTypes' /\ mem' \in [Obj -> Val]
    BY <1>1, <1>15 DEF HandOff, ContextTypes
  <2>2. NestTypes'
    BY <1>15, LeaveBlockTypes DEF HandOff, Ending
  <2> QED
    BY <2>1, <2>2, TypeParts
<1>16. ASSUME NEW t \in Thread, CommitReadOnly(t)
       PROVE  TypeOK'
  <2>1. ContextTypes' /\ mem' \in [Obj -> Val]
    BY <1>1, <1>16 DEF CommitReadOnly, Forget, ContextTypes, NothingWritten,
           NothingSeen
  <2>2. NestTypes'
    BY <1>16, LeaveBlockTypes DEF CommitReadOnly, Ending
  <2> QED
    BY <2>1, <2>2, TypeParts
<1>17. ASSUME NEW t \in Thread, Commit(t)
       PROVE  TypeOK'
  <2>1. mem' \in [Obj -> Val]
    BY <1>1, <1>17 DEF Commit, ContextTypes, Written
  <2>2. ContextTypes'
    <3>1. forcedToAbort' \in [Thread -> BOOLEAN]
      BY <1>1, <1>17, Zenon DEF Commit, ContextTypes, Victims
    <3> QED
      BY <1>1, <1>17, <3>1 DEF Commit, Forget, ContextTypes, NothingWritten,
             NothingSeen
  <2>3. NestTypes'
    BY <1>17, LeaveBlockTypes DEF Commit, Ending
  <2> QED
    BY <2>1, <2>2, <2>3, TypeParts
<1>18. CASE UNCHANGED vars
  BY <1>18 DEF vars, TypeOK
<1> QED
  BY <1>2, <1>3, <1>4, <1>5, <1>6, <1>7, <1>8, <1>9, <1>10, <1>11, <1>12,
     <1>13, <1>14, <1>15, <1>16, <1>17, <1>18 DEF Next, Step

(* Every variable of NestedTx keeps its type, and a thread is idle exactly  *)
(* when it is in no block, however deep blocks are nested.                  *)
THEOREM TypeCorrect == Spec => []TypeOK
<1>1. Init => TypeOK
  BY TypeInit
<1>2. TypeOK /\ [Next]_vars => TypeOK'
  BY TypeStep
<1> QED
  BY <1>1, <1>2, PTL DEF Spec

-----------------------------------------------------------------------------
(* What a nest keeps.  A write list that is shared is emptied by the abort  *)
(* of any block; that is no loss as long as the flag is up then, or no      *)
(* block of the nest is in flight any more.  The flag is up because inner   *)
(* blocks abort only on the flag, which needs that none of them begins with *)
(* restart(): blocks inside are of the macro atomic.                        *)
OnlyAtomicInside == InnerKind \subseteq {"atomic"}

(* A nest that is empty, or all aborted, or has not entered its body, owns  *)
(* no work.                                                                 *)
Fresh(t) ==
  (\/ Len(nest[t]) = 0
   \/ Len(nest[t]) = 1 /\ (nest[t][1].state = "aborted" \/ pc[t] = "head"))
  => /\ writeList[t] = NothingWritten
     /\ seen[t] = NothingSeen
     /\ wrote[t] = NothingWritten

(* NestKeepsItsWork, of one thread.                                         *)
Keeps(t) ==
  nest[t] # <<>> /\ ~forcedToAbort[t] =>
    /\ writeList[t] = wrote[t]
    /\ \A x \in Obj : /\ seen[t][x] # {} \/ wrote[t][x] # NoVal => x \in bloom[t]
                      /\ seen[t][x] \subseteq {mem[x]}

(* The shape of a nest: only its innermost block may be aborted, and with   *)
(* the flag up if there is another; a body runs in flight.                  *)
Shape(t) ==
  /\ \A i \in 1 .. Len(nest[t]) :
       nest[t][i].state = "aborted" =>
         i = Len(nest[t]) /\ (i = 1 \/ forcedToAbort[t])
  /\ \A i \in 2 .. Len(nest[t]) : nest[t][i].kind = "atomic"
  /\ pc[t] = "body" => nest[t][Len(nest[t])].state = "inFlight"

Own(t) == Shape(t) /\ Fresh(t) /\ Keeps(t)

NestInv == \A t \in Thread : Own(t)

(* A step of t that leaves memory alone disturbs nobody else.               *)
LEMMA OthersKeepTheirs ==
  ASSUME NEW t \in Thread, NestInv, Own(t)', mem' = mem,
         \A u \in Thread \ {t} :
           /\ nest'[u] = nest[u] /\ pc'[u] = pc[u]
           /\ forcedToAbort'[u] = forcedToAbort[u] /\ bloom'[u] = bloom[u]
           /\ writeList'[u] = writeList[u]
           /\ seen'[u] = seen[u] /\ wrote'[u] = wrote[u]
  PROVE  NestInv'
<1> SUFFICES ASSUME NEW u \in Thread, u # t
             PROVE  Own(u)'
  BY DEF NestInv
<1>1. Own(u)
  BY DEF NestInv
<1>2. /\ nest'[u] = nest[u] /\ pc'[u] = pc[u]
      /\ forcedToAbort'[u] = forcedToAbort[u] /\ bloom'[u] = bloom[u]
      /\ writeList'[u] = writeList[u]
      /\ seen'[u] = seen[u] /\ wrote'[u] = wrote[u]
  OBVIOUS
<1>3. Shape(u)'
  BY <1>1, <1>2 DEF Own, Shape
<1>4. Fresh(u)'
  BY <1>1, <1>2 DEF Own, Fresh
<1>5. Keeps(u)'
  BY <1>1, <1>2 DEF Own, Keeps
<1> QED
  BY <1>3, <1>4, <1>5 DEF Own

LEMMA AboveOne ==
  ASSUME NEW n \in Nat, n >= 1, n # 1
  PROVE  n > 1 /\ n \in 2 .. n
  OBVIOUS

LEMMA TwoOrMore ==
  ASSUME NEW n \in Nat, n > 1
  PROVE  n # 1 /\ n - 1 # 0 /\ 1 \in 1 .. n - 1
  OBVIOUS

LEMMA OneIsNotMore ==
  ASSUME NEW n, n = 1
  PROVE  ~(n > 1)
  OBVIOUS

LEMMA Inside ==
  ASSUME TypeOK, NEW t \in Thread, pc[t] # "idle"
  PROVE  /\ nest[t] \in Seq(Block) /\ nest[t] # <<>>
         /\ Len(nest[t]) \in Nat /\ Len(nest[t]) >= 1
         /\ Top(t) = nest[t][Len(nest[t])]
         /\ Top(t) \in Block
<1>1. nest[t] \in Seq(Block) /\ nest[t] # <<>>
  BY DEF TypeOK, Block, BlockState
<1>2. Len(nest[t]) \in Nat \ {0}
  BY <1>1, EmptySeq
<1> QED
  BY <1>1, <1>2 DEF Top, Depth

(* Another block is in flight exactly when there is another.                *)
LEMMA OthersAreInFlight ==
  ASSUME TypeOK, NEW t \in Thread, pc[t] # "idle", Shape(t)
  PROVE  /\ OtherInFlight(t) <=> Len(nest[t]) > 1
         /\ \A i \in 1 .. Len(nest[t]) - 1 : nest[t][i].state = "inFlight"
<1>1. nest[t] \in Seq(Block) /\ Len(nest[t]) \in Nat /\ Len(nest[t]) >= 1
  BY Inside
<1>2. ASSUME NEW i \in 1 .. Len(nest[t]) - 1
      PROVE  nest[t][i].state = "inFlight"
  <2>1. nest[t][i] \in Block /\ i \in 1 .. Len(nest[t]) /\ i # Len(nest[t])
    BY <1>1
  <2> QED
    BY <2>1 DEF Shape, Block, BlockState
<1> QED
  BY <1>1, <1>2 DEF OtherInFlight, Depth

(* The abort of an outermost block leaves nothing behind; that of an inner  *)
(* one the flag.                                                            *)
LEMMA AbortLeaves ==
  ASSUME TypeOK, NEW t \in Thread, pc[t] # "idle", Shape(t), DeferredAbort(t)
  PROVE  /\ writeList'[t] = NothingWritten
         /\ Len(nest[t]) = 1 => /\ seen'[t] = NothingSeen
                                /\ wrote'[t] = NothingWritten
                                /\ ~forcedToAbort'[t]
         /\ Len(nest[t]) # 1 => UNCHANGED <<forcedToAbort, seen, wrote>>
         /\ \A u \in Thread \ {t} :
              /\ forcedToAbort'[u] = forcedToAbort[u] /\ bloom'[u] = bloom[u]
              /\ writeList'[u] = writeList[u]
              /\ seen'[u] = seen[u] /\ wrote'[u] = wrote[u]
<1>1. OtherInFlight(t) <=> Len(nest[t]) > 1
  BY OthersAreInFlight
<1>2. Len(nest[t]) \in Nat /\ Len(nest[t]) >= 1
  BY Inside
<1>3. CASE Len(nest[t]) = 1
  BY <1>1, <1>3 DEF DeferredAbort, Forget, TypeOK
<1>4. CASE Len(nest[t]) # 1
  <2>1. Len(nest[t]) > 1
    BY <1>2, <1>4, AboveOne
  <2>2. OtherInFlight(t)
    BY <1>1, <2>1, Zenon
  <2>3. UNCHANGED <<forcedToAbort, seen, wrote>>
    BY <2>2 DEF DeferredAbort
  <2> QED
    BY <1>4, <2>3 DEF DeferredAbort, TypeOK
<1> QED
  BY <1>3, <1>4

(* What owns nothing keeps all of it.                                       *)
LEMMA NothingKept ==
  ASSUME NEW t \in Thread, writeList'[t] = NothingWritten,
         seen'[t] = NothingSeen, wrote'[t] = NothingWritten
  PROVE  Fresh(t)' /\ Keeps(t)'
  BY DEF Fresh, Keeps, NothingWritten, NothingSeen

LEMMA NestInit == Init => NestInv
<1> SUFFICES ASSUME Init, NEW t \in Thread
             PROVE  Own(t)
  BY DEF NestInv
<1>1. nest[t] = <<>> /\ Len(nest[t]) = 0 /\ pc[t] = "idle"
  BY DEF Init
<1> QED
  BY <1>1 DEF Init, Own, Shape, Fresh, Keeps


(* A block is aborted, or the nest is left by the abort.                    *)
LEMMA AbortInEndStep ==
  ASSUME TypeOK, NestInv, NEW t \in Thread, pc[t] # "idle", AbortInEnd(t),
         forcedToAbort[t] \/ Len(nest[t]) = 1
  PROVE  NestInv'
<1>1. Shape(t) /\ Len(nest[t]) \in Nat /\ Len(nest[t]) >= 1
  BY Inside DEF NestInv, Own
<1>2. /\ writeList'[t] = NothingWritten
      /\ Len(nest[t]) = 1 => /\ seen'[t] = NothingSeen
                             /\ wrote'[t] = NothingWritten
      /\ Len(nest[t]) # 1 => UNCHANGED <<forcedToAbort, seen, wrote>>
  BY <1>1, AbortLeaves DEF AbortInEnd
<1>3. \A u \in Thread \ {t} :
        /\ forcedToAbort'[u] = forcedToAbort[u] /\ bloom'[u] = bloom[u]
        /\ writeList'[u] = writeList[u]
        /\ seen'[u] = seen[u] /\ wrote'[u] = wrote[u]
  BY <1>1, AbortLeaves DEF AbortInEnd
<1>4. CASE Top(t).kind = "use_atomic"
  <2>1. LeaveBlock(t, "throw")
    BY <1>4 DEF AbortInEnd
  <2>2. Len(nest[t]) = 1
    <3>1. nest[t][Len(nest[t])].kind # "atomic"
      BY <1>4, Inside
    <3> QED
      BY <1>1, <3>1, AboveOne DEF Shape
  <2>3. nest'[t] = <<>> /\ Len(nest'[t]) = 0 /\ pc'[t] = "idle"
    BY <2>1, <2>2, LeaveBlockNest DEF LeaveBlock, Goto, Depth, TypeOK
  <2>4. Own(t)'
    BY <1>2, <2>2, <2>3, NothingKept DEF Own, Shape
  <2>5. \A u \in Thread \ {t} : nest'[u] = nest[u] /\ pc'[u] = pc[u]
    BY <2>1, LeaveBlockNest DEF LeaveBlock, Goto, TypeOK
  <2> QED
    BY <1>3, <2>4, <2>5, OthersKeepTheirs DEF AbortInEnd
<1>5. CASE Top(t).kind # "use_atomic"
  <2>1. SetTop(t, "aborted") /\ Goto(t, "head")
    BY <1>5 DEF AbortInEnd
  <2>2. /\ \A u \in Thread \ {t} : nest'[u] = nest[u]
        /\ Len(nest'[t]) = Len(nest[t])
        /\ \A i \in 1 .. Len(nest[t]) - 1 : nest'[t][i] = nest[t][i]
        /\ nest'[t][Len(nest[t])] = [kind |-> Top(t).kind, state |-> "aborted"]
    BY <2>1, SetTopNest DEF BlockState
  <2>3. pc'[t] = "head" /\ \A u \in Thread \ {t} : pc'[u] = pc[u]
    BY <2>1 DEF Goto, TypeOK
  <2>4. Shape(t)'
    <3>1. \A i \in 1 .. Len(nest[t]) - 1 : nest[t][i].state = "inFlight"
      BY <1>1, OthersAreInFlight
    <3>2. Top(t).kind = nest[t][Len(nest[t])].kind
      BY Inside
    <3>3. Len(nest[t]) # 1 => forcedToAbort'[t]
      BY <1>2
    <3> QED
      BY <1>1, <2>2, <2>3, <3>1, <3>2, <3>3 DEF Shape
  <2>5. Fresh(t)' /\ Keeps(t)'
    <3>1. CASE Len(nest[t]) = 1
      BY <1>2, <3>1, NothingKept
    <3>2. CASE Len(nest[t]) # 1
      BY <1>1, <1>2, <2>2, <3>2 DEF Fresh, Keeps
    <3> QED
      BY <3>1, <3>2
  <2> QED
    BY <1>3, <2>2, <2>3, <2>4, <2>5, OthersKeepTheirs DEF AbortInEnd, Own
<1> QED
  BY <1>4, <1>5

(* A step that moves t on inside its blocks, and only that.                 *)
LEMMA MoveStep ==
  ASSUME TypeOK, NestInv, NEW t \in Thread, pc[t] # "idle",
         NEW l \in {"body", "throw", "end", "head"}, Goto(t, l),
         l = "body" => nest[t][Len(nest[t])].state = "inFlight",
         l = "head" => nest[t][Len(nest[t])].state = "aborted",
         UNCHANGED <<mem, nest, forcedToAbort, bloom, writeList, seen, wrote>>
  PROVE  NestInv'
<1>1. Own(t)
  BY DEF NestInv
<1>2. pc'[t] = l /\ \A u \in Thread \ {t} : pc'[u] = pc[u]
  BY DEF Goto, TypeOK
<1>3. Shape(t)'
  BY <1>1, <1>2 DEF Own, Shape
<1>4. Fresh(t)'
  BY <1>1, <1>2 DEF Own, Fresh
<1>5. Keeps(t)'
  BY <1>1, <1>2 DEF Own, Keeps
<1> QED
  BY <1>2, <1>3, <1>4, <1>5, OthersKeepTheirs DEF Own

(* A block with others around it is left.                                   *)
LEMMA LeaveInner ==
  ASSUME TypeOK, NestInv, NEW t \in Thread, pc[t] # "idle",
         NEW l \in {"body", "throw"}, LeaveBlock(t, l), OtherInFlight(t),
         UNCHANGED <<mem, forcedToAbort, bloom, writeList, seen, wrote>>
  PROVE  NestInv'
<1>1. Own(t) /\ Len(nest[t]) \in Nat /\ Len(nest[t]) >= 1
  BY Inside DEF NestInv
<1>2. Len(nest[t]) > 1 /\ \A i \in 1 .. Len(nest[t]) - 1 :
                            nest[t][i].state = "inFlight"
  BY <1>1, OthersAreInFlight DEF Own
<1>3. /\ \A u \in Thread \ {t} : nest'[u] = nest[u] /\ pc'[u] = pc[u]
      /\ Len(nest'[t]) = Len(nest[t]) - 1
      /\ \A i \in 1 .. Len(nest[t]) - 1 : nest'[t][i] = nest[t][i]
      /\ pc'[t] = l
  <2>1. Depth(t) # 1
    BY <1>1, <1>2, TwoOrMore DEF Depth
  <2>2. pc' = [pc EXCEPT ![t] = l]
    BY <2>1 DEF LeaveBlock, Goto
  <2> QED
    BY <2>2, LeaveBlockNest DEF TypeOK
<1>4. Shape(t)'
  BY <1>1, <1>2, <1>3 DEF Own, Shape
<1>5. Fresh(t)'
  <2>1. 1 \in 1 .. Len(nest[t]) - 1 /\ Len(nest'[t]) # 0
    BY <1>1, <1>2, <1>3, TwoOrMore
  <2>2. nest'[t][1].state = "inFlight"
    BY <1>2, <1>3, <2>1
  <2> QED
    BY <1>3, <2>1, <2>2 DEF Fresh
<1>6. Keeps(t)'
  <2>1. nest[t] # <<>>
    BY Inside
  <2> QED
    BY <1>1, <2>1 DEF Own, Keeps
<1> QED
  BY <1>3, <1>4, <1>5, <1>6, OthersKeepTheirs DEF Own

(* The outermost block is left with nothing.                                *)
LEMMA LeaveOutermost ==
  ASSUME TypeOK, NestInv, NEW t \in Thread, pc[t] # "idle", NEW l,
         LeaveBlock(t, l), Len(nest[t]) = 1, writeList'[t] = NothingWritten,
         seen'[t] = NothingSeen, wrote'[t] = NothingWritten
  PROVE  Own(t)' /\ \A u \in Thread \ {t} : nest'[u] = nest[u] /\ pc'[u] = pc[u]
<1>1. nest'[t] = <<>> /\ Len(nest'[t]) = 0 /\ pc'[t] = "idle"
  BY LeaveBlockNest DEF LeaveBlock, Goto, Depth, TypeOK
<1>2. Own(t)'
  BY <1>1, NothingKept DEF Own, Shape
<1> QED
  BY <1>2, LeaveBlockNest DEF LeaveBlock, Goto, TypeOK

LEMMA ConstructStep ==
  ASSUME TypeOK, NestInv, OnlyAtomicInside, NEW t \in Thread, NEW k \in Kind,
         Construct(t, k)
  PROVE  NestInv'
<1>1. Own(t) /\ nest[t] \in Seq(Block) /\ Len(nest[t]) \in Nat
  <2>1. nest[t] \in Seq(Block)
    BY DEF TypeOK, Block, BlockState
  <2>2. Len(nest[t]) \in Nat
    BY <2>1
  <2> QED
    BY <2>1, <2>2 DEF NestInv
<1>2. /\ \A u \in Thread \ {t} : nest'[u] = nest[u]
      /\ nest'[t] # <<>>
      /\ Len(nest'[t]) = Len(nest[t]) + 1
      /\ \A i \in 1 .. Len(nest[t]) : nest'[t][i] = nest[t][i]
      /\ nest'[t][Len(nest[t]) + 1] = [kind |-> k, state |-> "inFlight"]
  BY ConstructNest DEF Construct
<1>3. pc'[t] = "head" /\ \A u \in Thread \ {t} : pc'[u] = pc[u]
  BY DEF Construct, Goto, TypeOK
<1>4. Len(nest[t]) # 0 => /\ pc[t] = "body" /\ k = "atomic"
                          /\ nest[t][Len(nest[t])].state = "inFlight"
  <2>1. pc[t] = "idle" => Len(nest[t]) = 0
    BY DEF TypeOK
  <2> QED
    BY <1>1, <2>1 DEF Construct, Depth, OnlyAtomicInside, Own, Shape
<1>5. Shape(t)'
  <2>1. ASSUME NEW i \in 1 .. Len(nest'[t]), nest'[t][i].state = "aborted"
        PROVE  i = Len(nest'[t]) /\ (i = 1 \/ forcedToAbort'[t])
    <3>1. i # Len(nest[t]) + 1
      BY <1>2, <2>1
    <3>2. i \in 1 .. Len(nest[t]) /\ nest[t][i].state = "aborted"
      BY <1>1, <1>2, <2>1, <3>1
    <3>3. i = Len(nest[t]) /\ Len(nest[t]) # 0
      BY <1>1, <3>2 DEF Own, Shape
    <3> QED
      BY <1>4, <3>2, <3>3
  <2>2. ASSUME NEW i \in 2 .. Len(nest'[t])
        PROVE  nest'[t][i].kind = "atomic"
    BY <1>1, <1>2, <1>4 DEF Own, Shape
  <2> QED
    BY <1>3, <2>1, <2>2 DEF Shape
<1>6. Fresh(t)' /\ Keeps(t)'
  <2>1. CASE Len(nest[t]) = 0
    BY <1>1, <2>1, NothingKept DEF Own, Fresh, Construct
  <2>2. CASE Len(nest[t]) # 0
    <3>1. nest[t] # <<>>
      BY <2>2
    <3> QED
      BY <1>1, <1>2, <2>2, <3>1 DEF Own, Fresh, Keeps, Construct
  <2> QED
    BY <2>1, <2>2
<1> QED
  BY <1>2, <1>3, <1>5, <1>6, OthersKeepTheirs DEF Own, Construct

LEMMA RestartInFlightStep ==
  ASSUME TypeOK, NestInv, NEW t \in Thread, RestartInFlight(t)
  PROVE  NestInv'
<1>1. /\ Own(t) /\ pc[t] # "idle"
      /\ Len(nest[t]) \in Nat /\ Len(nest[t]) >= 1
  BY Inside DEF NestInv, RestartInFlight
<1>2. Len(nest[t]) = 1
  <2>1. nest[t][Len(nest[t])].kind # "atomic"
    BY <1>1, Inside DEF RestartInFlight
  <2> QED
    BY <1>1, <2>1, AboveOne DEF Own, Shape
<1>3. /\ writeList'[t] = NothingWritten /\ seen'[t] = NothingSeen
      /\ wrote'[t] = NothingWritten
      /\ \A u \in Thread \ {t} :
           /\ forcedToAbort'[u] = forcedToAbort[u] /\ bloom'[u] = bloom[u]
           /\ writeList'[u] = writeList[u]
           /\ seen'[u] = seen[u] /\ wrote'[u] = wrote[u]
  BY <1>1, <1>2, AbortLeaves DEF Own, RestartInFlight
<1>4. pc'[t] = "body" /\ \A u \in Thread \ {t} : pc'[u] = pc[u]
  BY DEF RestartInFlight, Goto, TypeOK
<1>5. nest[t][1].state = "inFlight"
  BY <1>1, <1>2, Inside DEF RestartInFlight, InFlight
<1>6. Shape(t)'
  BY <1>1, <1>2, <1>4, <1>5 DEF Own, Shape, RestartInFlight
<1> QED
  BY <1>3, <1>4, <1>6, NothingKept, OthersKeepTheirs DEF RestartInFlight, Own

LEMMA RestartStep ==
  ASSUME TypeOK, NestInv, NEW t \in Thread, Restart(t)
  PROVE  NestInv'
<1>1. /\ Own(t) /\ pc[t] # "idle"
      /\ Len(nest[t]) \in Nat /\ Len(nest[t]) >= 1
      /\ Top(t) = nest[t][Len(nest[t])]
  BY Inside DEF NestInv, Restart
<1>2. Len(nest[t]) = 1
  <2>1. Top(t).kind = "atomic" => ~OtherInFlight(t)
    BY DEF Restart
  <2>2. Len(nest[t]) > 1 => OtherInFlight(t)
    BY <1>1, OthersAreInFlight DEF Own
  <2>3. Len(nest[t]) > 1 => Top(t).kind = "atomic"
    BY <1>1, AboveOne DEF Own, Shape
  <2>4. ~(Len(nest[t]) > 1)
    BY <2>1, <2>2, <2>3, Zenon
  <2> QED
    BY <1>1, <2>4, AboveOne
<1>3. /\ \A u \in Thread \ {t} : nest'[u] = nest[u]
      /\ Len(nest'[t]) = Len(nest[t])
      /\ nest'[t][Len(nest[t])] = [kind |-> Top(t).kind, state |-> "inFlight"]
  BY <1>1, SetTopNest DEF Restart, BlockState
<1>4. pc'[t] = "body" /\ \A u \in Thread \ {t} : pc'[u] = pc[u]
  BY DEF Restart, Goto, TypeOK
<1>5. /\ writeList'[t] = NothingWritten /\ seen'[t] = NothingSeen
      /\ wrote'[t] = NothingWritten
  BY <1>1, <1>2 DEF Own, Fresh, Restart
<1>6. Shape(t)'
  BY <1>2, <1>3, <1>4 DEF Shape
<1>7. \A u \in Thread \ {t} : forcedToAbort'[u] = forcedToAbort[u]
  BY DEF Restart, TypeOK
<1> QED
  BY <1>3, <1>4, <1>5, <1>6, <1>7, NothingKept, OthersKeepTheirs
  DEF Restart, Own

LEMMA AccessStep ==
  ASSUME TypeOK, NestInv, NEW t \in Thread, NEW x \in Obj,
         Read(t, x) \/ \E v \in Val : Write(t, x, v)
  PROVE  NestInv'
<1>1. Own(t) /\ pc[t] = "body" /\ pc'[t] = "body"
  BY DEF NestInv, Read, Write
<1>2. /\ nest[t] # <<>> /\ Len(nest[t]) \in Nat /\ Len(nest[t]) >= 1
      /\ nest[t][Len(nest[t])].state = "inFlight"
  BY <1>1, Inside DEF Own, Shape
<1>3. Shape(t)'
  BY <1>1 DEF Own, Shape, Read, Write
<1>4. Fresh(t)'
  <2>1. UNCHANGED <<nest, pc>> /\ Len(nest[t]) # 0
    BY <1>2 DEF Read, Write
  <2>2. ~(Len(nest[t]) = 1 /\ (nest[t][1].state = "aborted" \/ pc[t] = "head"))
    BY <1>1, <1>2
  <2> QED
    BY <2>1, <2>2 DEF Fresh
<1>5. Keeps(t)'
  <2>1. CASE Read(t, x)
    <3>1. CASE writeList[t][x] # NoVal
      BY <1>1, <2>1, <3>1 DEF Own, Keeps, Read
    <3>2. CASE writeList[t][x] = NoVal
      <4>1. /\ bloom'[t] = bloom[t] \union {x}
            /\ seen'[t] = [seen[t] EXCEPT ![x] = @ \union {mem[x]}]
            /\ UNCHANGED <<mem, nest, forcedToAbort, writeList, wrote>>
        BY <2>1, <3>2 DEF Read, TypeOK
      <4>2. seen[t] \in [Obj -> SUBSET Val]
        BY DEF TypeOK
      <4>3. seen'[t][x] = seen[t][x] \union {mem[x]}
            /\ \A y \in Obj \ {x} : seen'[t][y] = seen[t][y]
        BY <4>1, <4>2
      <4>4. writeList[t] = wrote[t]
            /\ \A y \in Obj : /\ seen[t][y] # {} \/ wrote[t][y] # NoVal
                                   => y \in bloom[t]
                              /\ seen[t][y] \subseteq {mem[y]}
        BY <1>1, <1>2, <2>1 DEF Own, Keeps, Read
      <4> QED
        BY <4>1, <4>3, <4>4 DEF Keeps
    <3> QED
      BY <3>1, <3>2
  <2>2. ASSUME NEW v \in Val, Write(t, x, v)
        PROVE  Keeps(t)'
    <3>1. /\ bloom'[t] = bloom[t] \union {x}
          /\ writeList'[t] = [writeList[t] EXCEPT ![x] = v]
          /\ wrote'[t] = [wrote[t] EXCEPT ![x] = v]
          /\ UNCHANGED <<mem, nest, forcedToAbort, seen>>
      BY <2>2 DEF Write, TypeOK
    <3>2. wrote[t] \in [Obj -> Val \union {NoVal}]
      BY DEF TypeOK
    <3>3. \A y \in Obj \ {x} : wrote'[t][y] = wrote[t][y]
      BY <3>1, <3>2
    <3> QED
      BY <1>1, <1>2, <2>2, <3>1, <3>3 DEF Own, Keeps, Write
  <2> QED
    BY <2>1, <2>2
<1>6. \A u \in Thread \ {t} :
        /\ nest'[u] = nest[u] /\ pc'[u] = pc[u]
        /\ forcedToAbort'[u] = forcedToAbort[u] /\ bloom'[u] = bloom[u]
        /\ writeList'[u] = writeList[u]
        /\ seen'[u] = seen[u] /\ wrote'[u] = wrote[u]
  BY DEF Read, Write, TypeOK
<1> QED
  BY <1>3, <1>4, <1>5, <1>6, OthersKeepTheirs DEF Own, Read, Write

LEMMA FlagStep ==
  ASSUME TypeOK, NestInv, NEW t \in Thread, ForceToAbort(t)
  PROVE  NestInv'
<1>1. Own(t)
  BY DEF NestInv
<1>2. Shape(t)' /\ Fresh(t)' /\ Keeps(t)'
  BY <1>1 DEF Own, Shape, Fresh, Keeps, ForceToAbort, TypeOK
<1> QED
  BY <1>2, OthersKeepTheirs DEF Own, ForceToAbort, TypeOK

(* An operation finds the flag set.                                         *)
LEMMA AbortOnFlagStep ==
  ASSUME TypeOK, NestInv, NEW t \in Thread, AbortOnFlag(t)
  PROVE  NestInv'
<1>1. /\ Own(t) /\ pc[t] # "idle" /\ forcedToAbort[t]
      /\ Len(nest[t]) \in Nat /\ Len(nest[t]) >= 1
      /\ Top(t) = nest[t][Len(nest[t])]
  BY Inside DEF NestInv, AbortOnFlag
<1>2. /\ writeList'[t] = NothingWritten
      /\ Len(nest[t]) = 1 => /\ seen'[t] = NothingSeen
                             /\ wrote'[t] = NothingWritten
      /\ Len(nest[t]) # 1 => UNCHANGED <<forcedToAbort, seen, wrote>>
      /\ \A u \in Thread \ {t} :
           /\ forcedToAbort'[u] = forcedToAbort[u] /\ bloom'[u] = bloom[u]
           /\ writeList'[u] = writeList[u]
           /\ seen'[u] = seen[u] /\ wrote'[u] = wrote[u]
  BY <1>1, AbortLeaves DEF AbortOnFlag, Own
<1>3. /\ \A u \in Thread \ {t} : nest'[u] = nest[u]
      /\ Len(nest'[t]) = Len(nest[t])
      /\ \A i \in 1 .. Len(nest[t]) - 1 : nest'[t][i] = nest[t][i]
      /\ nest'[t][Len(nest[t])] = [kind |-> Top(t).kind, state |-> "aborted"]
  BY <1>1, SetTopNest DEF BlockState, AbortOnFlag
<1>4. pc'[t] = "throw" /\ \A u \in Thread \ {t} : pc'[u] = pc[u]
  BY DEF Goto, TypeOK, AbortOnFlag
<1>5. Shape(t)'
  <2>1. \A i \in 1 .. Len(nest[t]) - 1 : nest[t][i].state = "inFlight"
    BY <1>1, OthersAreInFlight DEF Own
  <2>2. Len(nest[t]) # 1 => forcedToAbort'[t]
    BY <1>1, <1>2
  <2> QED
    BY <1>1, <1>3, <1>4, <2>1, <2>2 DEF Own, Shape
<1>6. Fresh(t)' /\ Keeps(t)'
  <2>1. CASE Len(nest[t]) = 1
    BY <1>2, <2>1, NothingKept
  <2>2. CASE Len(nest[t]) # 1
    BY <1>1, <1>2, <1>3, <2>2 DEF Fresh, Keeps
  <2> QED
    BY <2>1, <2>2
<1> QED
  BY <1>2, <1>3, <1>4, <1>5, <1>6, OthersKeepTheirs DEF AbortOnFlag, Own

(* use_atomic has no handler, but it is outermost.                          *)
LEMMA UnwindStep ==
  ASSUME TypeOK, NestInv, NEW t \in Thread, Unwind(t)
  PROVE  NestInv'
<1>1. /\ Own(t) /\ pc[t] # "idle"
      /\ Len(nest[t]) \in Nat /\ Len(nest[t]) >= 1
      /\ Top(t) = nest[t][Len(nest[t])] /\ Top(t) \in Block
  BY Inside DEF NestInv, Unwind
<1>2. Len(nest[t]) = 1
  <2>1. nest[t][Len(nest[t])].kind # "atomic"
    BY <1>1 DEF Unwind
  <2> QED
    BY <1>1, <2>1, AboveOne DEF Own, Shape
<1>3. /\ writeList'[t] = NothingWritten /\ seen'[t] = NothingSeen
      /\ wrote'[t] = NothingWritten
      /\ \A u \in Thread \ {t} :
           /\ forcedToAbort'[u] = forcedToAbort[u] /\ bloom'[u] = bloom[u]
           /\ writeList'[u] = writeList[u]
           /\ seen'[u] = seen[u] /\ wrote'[u] = wrote[u]
  <2>1. CASE InFlight(t)
    BY <1>1, <1>2, <2>1, AbortLeaves DEF Own, Unwind
  <2>2. CASE ~InFlight(t)
    <3>1. nest[t][1].state = "aborted"
      BY <1>1, <1>2, <2>2 DEF InFlight, Depth, Block, BlockState
    <3> QED
      BY <1>1, <1>2, <2>2, <3>1 DEF Own, Fresh, Unwind
  <2> QED
    BY <2>1, <2>2
<1>4. LeaveBlock(t, "throw") /\ mem' = mem
  BY DEF Unwind
<1>5. Own(t)' /\ \A u \in Thread \ {t} : nest'[u] = nest[u] /\ pc'[u] = pc[u]
  BY <1>1, <1>2, <1>3, <1>4, LeaveOutermost
<1> QED
  BY <1>3, <1>4, <1>5, OthersKeepTheirs

(* What is not in a block that others can doom has nothing to lose.         *)
LEMMA UndoomedKeepsReads ==
  ASSUME TypeOK, NestInv, NEW t \in Thread, NEW u \in Thread \ {t},
         nest[u] # <<>>, ~forcedToAbort[u], u \notin Victims(t),
         NEW x \in Written(t)
  PROVE  seen[u][x] = {}
<1> SUFFICES ASSUME seen[u][x] # {}
             PROVE  FALSE
  OBVIOUS
<1>1. Own(u) /\ pc[u] # "idle" /\ x \in Obj
  BY DEF NestInv, TypeOK, Written
<1>2. /\ nest[u] \in Seq(Block)
      /\ Len(nest[u]) \in Nat /\ Len(nest[u]) >= 1
  BY <1>1, Inside
<1>3. x \in bloom[u] \cap Written(t)
  BY <1>1 DEF Own, Keeps
<1>4. \A i \in DOMAIN nest[u] : nest[u][i].state # "inFlight"
  BY <1>3 DEF Victims
<1>5. Len(nest[u]) \in 1 .. Len(nest[u]) /\ DOMAIN nest[u] = 1 .. Len(nest[u])
  BY <1>2
<1>6. nest[u][Len(nest[u])].state = "aborted"
  <2>1. Len(nest[u]) \in DOMAIN nest[u]
    BY <1>5
  <2>2. nest[u][Len(nest[u])].state # "inFlight"
    BY <1>4, <2>1
  <2>3. Top(u) = nest[u][Len(nest[u])] /\ Top(u) \in Block
    BY <1>1, Inside
  <2> QED
    BY <2>2, <2>3 DEF Block, BlockState
<1>7. Len(nest[u]) = 1
  BY <1>1, <1>5, <1>6 DEF Own, Shape
<1>8. seen[u] = NothingSeen
  BY <1>1, <1>6, <1>7 DEF Own, Fresh
<1> QED
  BY <1>1, <1>8 DEF NothingSeen

LEMMA CommitStep ==
  ASSUME TypeOK, NestInv, NEW t \in Thread, Commit(t)
  PROVE  NestInv'
<1>1. Own(t) /\ pc[t] # "idle" /\ Len(nest[t]) \in Nat /\ Len(nest[t]) >= 1
  BY Inside DEF NestInv, Commit, Ending
<1>2. Len(nest[t]) = 1
  <2>1. ~(Len(nest[t]) > 1)
    BY <1>1, OthersAreInFlight DEF Own, Commit
  <2> QED
    BY <1>1, <2>1, AboveOne
<1>3. /\ writeList'[t] = NothingWritten /\ seen'[t] = NothingSeen
      /\ wrote'[t] = NothingWritten
      /\ \A u \in Thread \ {t} :
           /\ bloom'[u] = bloom[u] /\ writeList'[u] = writeList[u]
           /\ seen'[u] = seen[u] /\ wrote'[u] = wrote[u]
  BY DEF Commit, Forget, TypeOK
<1>4. Own(t)' /\ \A u \in Thread \ {t} : nest'[u] = nest[u] /\ pc'[u] = pc[u]
  BY <1>1, <1>2, <1>3, LeaveOutermost DEF Commit
<1>5. ASSUME NEW u \in Thread \ {t}
      PROVE  Own(u)'
  <2>1. Own(u)
    BY DEF NestInv
  <2>2. /\ forcedToAbort[u] => forcedToAbort'[u]
        /\ u \in Victims(t) => forcedToAbort'[u]
    BY Zenon DEF Commit
  <2>3. Shape(u)'
    BY <1>4, <2>1, <2>2 DEF Own, Shape
  <2>4. Fresh(u)'
    BY <1>3, <1>4, <2>1 DEF Own, Fresh
  <2>5. ASSUME nest[u] # <<>>, ~forcedToAbort'[u], NEW x \in Obj
        PROVE  seen[u][x] \subseteq {mem'[x]}
    <3>1. ~forcedToAbort[u] /\ u \notin Victims(t)
      BY <2>2, <2>5
    <3>2. CASE x \in Written(t)
      BY <2>5, <3>1, <3>2, UndoomedKeepsReads
    <3>3. CASE x \notin Written(t)
      <4>1. mem'[x] = mem[x]
        BY <3>3 DEF Commit
      <4> QED
        BY <2>1, <2>5, <3>1, <4>1 DEF Own, Keeps
    <3> QED
      BY <3>2, <3>3
  <2>6. Keeps(u)'
    BY <1>3, <1>4, <2>1, <2>2, <2>5 DEF Own, Keeps
  <2> QED
    BY <2>3, <2>4, <2>6 DEF Own
<1> QED
  BY <1>4, <1>5 DEF NestInv

LEMMA CommitReadOnlyStep ==
  ASSUME TypeOK, NestInv, NEW t \in Thread, CommitReadOnly(t)
  PROVE  NestInv'
<1>1. Own(t) /\ pc[t] # "idle" /\ Len(nest[t]) \in Nat /\ Len(nest[t]) >= 1
  BY Inside DEF NestInv, CommitReadOnly, Ending
<1>2. Len(nest[t]) = 1
  <2>1. ~(Len(nest[t]) > 1)
    BY <1>1, OthersAreInFlight DEF Own, CommitReadOnly
  <2> QED
    BY <1>1, <2>1, AboveOne
<1>3. writeList[t] = NothingWritten
  <2>1. writeList[t] \in [Obj -> Val \union {NoVal}]
    BY DEF TypeOK
  <2>2. \A x \in Obj : writeList[t][x] = NoVal
    BY DEF CommitReadOnly, Written
  <2> QED
    BY <2>1, <2>2 DEF NothingWritten
<1>4. /\ writeList' = writeList /\ seen'[t] = NothingSeen
      /\ wrote'[t] = NothingWritten
      /\ \A u \in Thread \ {t} :
           /\ forcedToAbort'[u] = forcedToAbort[u] /\ bloom'[u] = bloom[u]
           /\ seen'[u] = seen[u] /\ wrote'[u] = wrote[u]
  BY DEF CommitReadOnly, Forget, TypeOK
<1>5. Own(t)' /\ \A u \in Thread \ {t} : nest'[u] = nest[u] /\ pc'[u] = pc[u]
  BY <1>1, <1>2, <1>3, <1>4, LeaveOutermost DEF CommitReadOnly
<1> QED
  BY <1>4, <1>5, OthersKeepTheirs DEF CommitReadOnly

LEMMA NestStep ==
  OnlyAtomicInside /\ TypeOK /\ NestInv /\ [Next]_vars => NestInv'
<1> SUFFICES ASSUME OnlyAtomicInside, TypeOK, NestInv, [Next]_vars
             PROVE  NestInv'
  OBVIOUS
<1>1. ASSUME NEW t \in Thread, NEW k \in Kind, Construct(t, k)
      PROVE  NestInv'
  BY <1>1, ConstructStep
<1>2. ASSUME NEW t \in Thread, EnterBody(t)
      PROVE  NestInv'
  <2>1. nest[t][Len(nest[t])].state = "inFlight"
    BY <1>2 DEF EnterBody, InFlight, Top, Depth
  <2> QED
    BY <1>2, <2>1, MoveStep DEF EnterBody
<1>3. ASSUME NEW t \in Thread, ClosedNestingThrow(t)
      PROVE  NestInv'
  BY <1>3, LeaveInner DEF ClosedNestingThrow
<1>4. ASSUME NEW t \in Thread, RestartInFlight(t)
      PROVE  NestInv'
  BY <1>4, RestartInFlightStep
<1>5. ASSUME NEW t \in Thread, Restart(t)
      PROVE  NestInv'
  BY <1>5, RestartStep
<1>6. ASSUME NEW t \in Thread, NEW x \in Obj,
             Read(t, x) \/ \E v \in Val : Write(t, x, v)
      PROVE  NestInv'
  BY <1>6, AccessStep
<1>7. ASSUME NEW t \in Thread, ForceToAbort(t)
      PROVE  NestInv'
  BY <1>7, FlagStep
<1>8. ASSUME NEW t \in Thread, AbortOnFlag(t)
      PROVE  NestInv'
  BY <1>8, AbortOnFlagStep
<1>9. ASSUME NEW t \in Thread, Catch(t)
      PROVE  NestInv'
  BY <1>9, MoveStep DEF Catch
<1>10. ASSUME NEW t \in Thread, Unwind(t)
       PROVE  NestInv'
  BY <1>10, UnwindStep
<1>11. ASSUME NEW t \in Thread, EndAborted(t)
       PROVE  NestInv'
  <2>1. nest[t][Len(nest[t])].state = "aborted"
    BY <1>11, Inside DEF EndAborted, InFlight, Depth, Block, BlockState
  <2> QED
    BY <1>11, <2>1, MoveStep DEF EndAborted
<1>12. ASSUME NEW t \in Thread, EndDoomed(t)
       PROVE  NestInv'
  BY <1>12, AbortInEndStep DEF EndDoomed, Ending
<1>13. ASSUME NEW t \in Thread, HandOff(t)
       PROVE  NestInv'
  BY <1>13, LeaveInner DEF HandOff, Ending
<1>14. ASSUME NEW t \in Thread, CommitReadOnly(t)
       PROVE  NestInv'
  BY <1>14, CommitReadOnlyStep
<1>15. ASSUME NEW t \in Thread, Commit(t)
       PROVE  NestInv'
  BY <1>15, CommitStep
<1>16. ASSUME NEW t \in Thread, CommitDenied(t)
       PROVE  NestInv'
  <2>1. pc[t] # "idle" /\ Len(nest[t]) \in Nat /\ Len(nest[t]) >= 1
    BY <1>16, Inside DEF CommitDenied, Ending
  <2>2. ~(Len(nest[t]) > 1)
    BY <1>16, <2>1, OthersAreInFlight DEF NestInv, Own, CommitDenied
  <2>3. Len(nest[t]) = 1
    BY <2>1, <2>2, AboveOne
  <2> QED
    BY <1>16, <2>1, <2>3, AbortInEndStep DEF CommitDenied
<1>17. CASE UNCHANGED vars
  BY <1>17 DEF vars, NestInv, Own, Shape, Fresh, Keeps
<1> QED
  BY <1>1, <1>2, <1>3, <1>4, <1>5, <1>6, <1>7, <1>8, <1>9, <1>10, <1>11,
     <1>12, <1>13, <1>14, <1>15, <1>16, <1>17 DEF Next, Step

LEMMA NestInvariant ==
  ASSUME OnlyAtomicInside
  PROVE  Spec => [](TypeOK /\ NestInv)
<1>1. Init => TypeOK /\ NestInv
  BY TypeInit, NestInit
<1>2. TypeOK /\ NestInv /\ [Next]_vars => (TypeOK /\ NestInv)'
  BY TypeStep, NestStep
<1> QED
  BY <1>1, <1>2, PTL DEF Spec

(* A nest of atomic blocks loses no write and outlives no read before it is *)
(* doomed, for every number of threads and objects and every depth.         *)
THEOREM NestKeepsItsWorkCorrect ==
  ASSUME OnlyAtomicInside
  PROVE  Spec => []NestKeepsItsWork
<1>1. NestInv => NestKeepsItsWork
  BY DEF NestInv, Own, Keeps, NestKeepsItsWork
<1> QED
  BY <1>1, NestInvariant, PTL

(* An inner abort is noticed in every block up to the outermost.            *)
THEOREM AbortReachesOutermostCorrect ==
  ASSUME OnlyAtomicInside
  PROVE  Spec => []AbortReachesOutermost
<1>1. TypeOK /\ NestInv => AbortReachesOutermost
  <2> SUFFICES ASSUME TypeOK, NestInv, NEW t \in Thread
               PROVE  \A i \in DOMAIN nest[t] :
                        nest[t][i].state = "aborted" =>
                          i = Depth(t) /\ (i = 1 \/ forcedToAbort[t])
    BY DEF AbortReachesOutermost
  <2>1. nest[t] \in Seq(Block) /\ Shape(t)
    BY DEF TypeOK, Block, BlockState, NestInv, Own
  <2>2. DOMAIN nest[t] = 1 .. Len(nest[t])
    BY <2>1
  <2> QED
    BY <2>1, <2>2 DEF Shape, Depth
<1> QED
  BY <1>1, NestInvariant, PTL

-----------------------------------------------------------------------------
(* Refinement of AtomicStore.                                               *)

Running == {t \in Thread : nest[t] # <<>> /\ nest[t][1].state = "inFlight"}

(* The kinds of step that the mapping sees.                                 *)
LEMMA MapsToStutter ==
  ASSUME UNCHANGED <<mem, seen, wrote>>, Running' = Running
  PROVE  UNCHANGED NestAsOne!avars
  BY DEF NestAsOne!avars, Running

LEMMA MapsToBegin ==
  ASSUME NEW t \in Thread, UNCHANGED <<mem, seen, wrote>>,
         t \notin Running, Running' = Running \cup {t}
  PROVE  NestAsOne!Act
  BY DEF NestAsOne!Act, NestAsOne!Begin, Running

LEMMA MapsToStop ==
  ASSUME NEW t \in Thread, t \in Running, Running' = Running \ {t},
         seen' = [seen EXCEPT ![t] = NothingSeen],
         wrote' = [wrote EXCEPT ![t] = NothingWritten]
  PROVE  NestAsOne!Stop(t)
  BY DEF NestAsOne!Stop, NestAsOne!Unread, NestAsOne!Nothing, Running,
         NothingSeen, NothingWritten

(* Whose outermost block is in flight, by what a step does to blocks.       *)
LEMMA RunningByThread ==
  ASSUME NEW t \in Thread, \A u \in Thread \ {t} : nest'[u] = nest[u]
  PROVE  /\ (t \in Running <=> t \in Running') => Running' = Running
         /\ t \in Running' => Running' = Running \cup {t}
         /\ t \notin Running' => Running' = Running \ {t}
  BY DEF Running

LEMMA InnerStepMaps ==
  ASSUME TypeOK, NEW t \in Thread, pc[t] # "idle", Len(nest[t]) > 1,
         \A u \in Thread \ {t} : nest'[u] = nest[u],
         nest'[t] # <<>>,
         \A i \in 1 .. Len(nest[t]) - 1 : nest'[t][i] = nest[t][i]
  PROVE  Running' = Running
<1>1. nest[t] # <<>> /\ Len(nest[t]) \in Nat
  BY Inside
<1>2. nest'[t][1] = nest[t][1]
  BY <1>1, TwoOrMore
<1> QED
  BY <1>1, <1>2, RunningByThread DEF Running

(* A thread's outermost block is in flight while it has blocks inside.      *)
LEMMA OutermostRuns ==
  ASSUME TypeOK, NEW t \in Thread, pc[t] # "idle", Shape(t)
  PROVE  t \in Running <=> \/ Len(nest[t]) > 1
                           \/ InFlight(t)
<1>1. /\ nest[t] # <<>> /\ Len(nest[t]) \in Nat /\ Len(nest[t]) >= 1
      /\ Top(t) = nest[t][Len(nest[t])]
  BY Inside
<1>2. CASE Len(nest[t]) > 1
  <2>1. nest[t][1].state = "inFlight"
    BY <1>1, <1>2, OthersAreInFlight, TwoOrMore
  <2> QED
    BY <1>1, <1>2, <2>1 DEF Running
<1>3. CASE Len(nest[t]) = 1
  BY <1>1, <1>3 DEF Running, InFlight, Depth
<1> QED
  BY <1>1, <1>2, <1>3, AboveOne

(* The abort of an outermost block stops the transaction; that of an inner  *)
(* one is not seen.                                                         *)
LEMMA AbortMaps ==
  ASSUME TypeOK, NestInv, NEW t \in Thread, pc[t] # "idle", InFlight(t),
         DeferredAbort(t), mem' = mem,
         \A u \in Thread \ {t} : nest'[u] = nest[u],
         Len(nest[t]) = 1 => t \notin Running',
         Len(nest[t]) > 1 =>
           /\ nest'[t] # <<>>
           /\ \A i \in 1 .. Len(nest[t]) - 1 : nest'[t][i] = nest[t][i]
  PROVE  [NestAsOne!Act]_(NestAsOne!avars)
<1>1. Shape(t) /\ Len(nest[t]) \in Nat /\ Len(nest[t]) >= 1
  BY Inside DEF NestInv, Own
<1>2. CASE Len(nest[t]) = 1
  <2>1. ~OtherInFlight(t)
    <3>1. ~(Len(nest[t]) > 1)
      BY <1>2, OneIsNotMore
    <3>2. OtherInFlight(t) <=> Len(nest[t]) > 1
      BY <1>1, OthersAreInFlight
    <3> QED
      BY <3>1, <3>2, Zenon
  <2>2. /\ seen' = [seen EXCEPT ![t] = NothingSeen]
        /\ wrote' = [wrote EXCEPT ![t] = NothingWritten]
    BY <2>1 DEF DeferredAbort, Forget
  <2>3. t \in Running /\ Running' = Running \ {t}
    BY <1>1, <1>2, OutermostRuns, RunningByThread
  <2>4. NestAsOne!AbortTx(t)
    BY <2>2, <2>3, MapsToStop DEF NestAsOne!AbortTx
  <2> QED
    BY <2>4 DEF NestAsOne!Act
<1>3. CASE Len(nest[t]) > 1
  <2>1. Running' = Running
    BY <1>3, InnerStepMaps
  <2>2. UNCHANGED <<seen, wrote>>
    <3>1. OtherInFlight(t)
      BY <1>1, <1>3, OthersAreInFlight
    <3> QED
      BY <3>1 DEF DeferredAbort
  <2> QED
    BY <2>1, <2>2, MapsToStutter
<1> QED
  BY <1>1, <1>2, <1>3, AboveOne

LEMMA AbortInEndMaps ==
  ASSUME TypeOK, NestInv, NEW t \in Thread, pc[t] # "idle", InFlight(t),
         AbortInEnd(t)
  PROVE  [NestAsOne!Act]_(NestAsOne!avars)
<1>1. Len(nest[t]) \in Nat /\ Len(nest[t]) >= 1
  BY Inside
<1>2. CASE Top(t).kind = "use_atomic"
  <2>1. LeaveBlock(t, "throw")
    BY <1>2 DEF AbortInEnd
  <2>2. Len(nest[t]) = 1
    <3>1. nest[t][Len(nest[t])].kind # "atomic"
      BY <1>2, Inside
    <3> QED
      BY <1>1, <3>1, AboveOne DEF NestInv, Own, Shape
  <2>3. nest'[t] = <<>> /\ \A u \in Thread \ {t} : nest'[u] = nest[u]
    BY <2>1, <2>2, LeaveBlockNest
  <2>4. t \notin Running'
    BY <2>3 DEF Running
  <2> QED
    BY <2>2, <2>3, <2>4, OneIsNotMore, AbortMaps DEF AbortInEnd
<1>3. CASE Top(t).kind # "use_atomic"
  <2>1. SetTop(t, "aborted")
    BY <1>3 DEF AbortInEnd
  <2>2. /\ \A u \in Thread \ {t} : nest'[u] = nest[u]
        /\ nest'[t] # <<>>
        /\ \A i \in 1 .. Len(nest[t]) - 1 : nest'[t][i] = nest[t][i]
        /\ nest'[t][Len(nest[t])] = [kind |-> Top(t).kind, state |-> "aborted"]
    BY <2>1, SetTopNest DEF BlockState
  <2>3. Len(nest[t]) = 1 => t \notin Running'
    BY <2>2 DEF Running
  <2> QED
    BY <2>2, <2>3, AbortMaps DEF AbortInEnd
<1> QED
  BY <1>2, <1>3

LEMMA ConstructMaps ==
  ASSUME TypeOK, NestInv, NEW t \in Thread, NEW k \in Kind, Construct(t, k)
  PROVE  [NestAsOne!Act]_(NestAsOne!avars)
<1>1. /\ \A u \in Thread \ {t} : nest'[u] = nest[u]
      /\ nest'[t] # <<>>
      /\ \A i \in 1 .. Len(nest[t]) : nest'[t][i] = nest[t][i]
      /\ nest'[t][Len(nest[t]) + 1] = [kind |-> k, state |-> "inFlight"]
  BY ConstructNest DEF Construct
<1>2. CASE pc[t] = "idle"
  <2>1. nest[t] = <<>> /\ nest'[t][1] = [kind |-> k, state |-> "inFlight"]
    <3>1. nest[t] = <<>> /\ Len(nest[t]) = 0
      BY <1>2 DEF TypeOK
    <3> QED
      BY <1>1, <3>1
  <2>2. t \notin Running /\ t \in Running'
    BY <1>1, <2>1 DEF Running
  <2>3. Running' = Running \cup {t}
    BY <1>1, <2>2, RunningByThread
  <2> QED
    BY <2>2, <2>3, MapsToBegin DEF Construct
<1>3. CASE pc[t] # "idle"
  <2>1. nest[t] # <<>> /\ 1 \in 1 .. Len(nest[t])
    BY <1>3, Inside
  <2>2. nest'[t][1] = nest[t][1]
    BY <1>1, <2>1
  <2>3. Running' = Running
    BY <1>1, <2>1, <2>2, RunningByThread DEF Running
  <2> QED
    BY <2>3, MapsToStutter DEF Construct
<1> QED
  BY <1>2, <1>3

LEMMA LeaveInnerMaps ==
  ASSUME TypeOK, NestInv, NEW t \in Thread, pc[t] # "idle",
         NEW l \in {"body", "throw"}, LeaveBlock(t, l), OtherInFlight(t),
         UNCHANGED <<mem, seen, wrote>>
  PROVE  UNCHANGED NestAsOne!avars
<1>1. Len(nest[t]) \in Nat /\ Len(nest[t]) > 1
  BY Inside, OthersAreInFlight DEF NestInv, Own
<1>2. /\ \A u \in Thread \ {t} : nest'[u] = nest[u]
      /\ nest'[t] # <<>>
      /\ \A i \in 1 .. Len(nest[t]) - 1 : nest'[t][i] = nest[t][i]
  BY <1>1, LeaveBlockNest, TwoOrMore
<1> QED
  BY <1>1, <1>2, InnerStepMaps, MapsToStutter

LEMMA RestartInFlightMaps ==
  ASSUME TypeOK, NestInv, NEW t \in Thread, RestartInFlight(t)
  PROVE  UNCHANGED NestAsOne!avars
<1>1. /\ Own(t) /\ pc[t] = "head"
      /\ Len(nest[t]) \in Nat /\ Len(nest[t]) >= 1
  BY Inside DEF NestInv, RestartInFlight
<1>2. nest[t][Len(nest[t])].kind # "atomic"
  BY <1>1, Inside DEF RestartInFlight
<1>3. Len(nest[t]) = 1
  BY <1>1, <1>2, AboveOne DEF Own, Shape
<1>4. seen[t] = NothingSeen /\ wrote[t] = NothingWritten
  BY <1>1, <1>3 DEF Own, Fresh
<1>5. UNCHANGED <<seen, wrote>>
  <2>1. CASE OtherInFlight(t)
    BY <2>1 DEF RestartInFlight, DeferredAbort
  <2>2. CASE ~OtherInFlight(t)
    BY <1>4, <2>2 DEF RestartInFlight, DeferredAbort, Forget, TypeOK
  <2> QED
    BY <2>1, <2>2
<1> QED
  BY <1>5, MapsToStutter DEF RestartInFlight, Running

LEMMA RestartMaps ==
  ASSUME TypeOK, NestInv, NEW t \in Thread, Restart(t)
  PROVE  [NestAsOne!Act]_(NestAsOne!avars)
<1>1. /\ Shape(t) /\ pc[t] # "idle" /\ ~InFlight(t)
      /\ Len(nest[t]) \in Nat /\ Len(nest[t]) >= 1
  BY Inside DEF NestInv, Own, Restart, InFlight
<1>2. /\ \A u \in Thread \ {t} : nest'[u] = nest[u]
      /\ nest'[t] # <<>>
      /\ \A i \in 1 .. Len(nest[t]) - 1 : nest'[t][i] = nest[t][i]
      /\ nest'[t][Len(nest[t])] = [kind |-> Top(t).kind, state |-> "inFlight"]
  BY <1>1, SetTopNest DEF Restart, BlockState
<1>3. CASE Len(nest[t]) = 1
  <2>1. t \notin Running
    <3>1. ~(Len(nest[t]) > 1)
      BY <1>3, OneIsNotMore
    <3>2. t \in Running <=> Len(nest[t]) > 1 \/ InFlight(t)
      BY <1>1, OutermostRuns
    <3> QED
      BY <1>1, <3>1, <3>2, Zenon
  <2>2. t \in Running'
    BY <1>2, <1>3 DEF Running
  <2>3. Running' = Running \cup {t}
    BY <1>2, <2>2, RunningByThread
  <2> QED
    BY <2>1, <2>3, MapsToBegin DEF Restart
<1>4. CASE Len(nest[t]) > 1
  BY <1>1, <1>2, <1>4, InnerStepMaps, MapsToStutter DEF Restart
<1> QED
  BY <1>1, <1>3, <1>4, AboveOne

LEMMA UnwindMaps ==
  ASSUME TypeOK, NestInv, NEW t \in Thread, Unwind(t)
  PROVE  [NestAsOne!Act]_(NestAsOne!avars)
<1>1. /\ Own(t) /\ pc[t] # "idle" /\ LeaveBlock(t, "throw")
      /\ Len(nest[t]) \in Nat /\ Len(nest[t]) >= 1
  BY Inside DEF NestInv, Unwind
<1>2. Len(nest[t]) = 1
  <2>1. nest[t][Len(nest[t])].kind # "atomic"
    BY <1>1, Inside DEF Unwind
  <2> QED
    BY <1>1, <2>1, AboveOne DEF Own, Shape
<1>3. nest'[t] = <<>> /\ \A u \in Thread \ {t} : nest'[u] = nest[u]
  BY <1>1, <1>2, LeaveBlockNest
<1>4. t \notin Running'
  BY <1>3 DEF Running
<1>5. CASE InFlight(t)
  BY <1>1, <1>2, <1>3, <1>4, <1>5, OneIsNotMore, AbortMaps DEF Unwind
<1>6. CASE ~InFlight(t)
  <2>1. t \notin Running
    <3>1. ~(Len(nest[t]) > 1)
      BY <1>2, OneIsNotMore
    <3>2. t \in Running <=> Len(nest[t]) > 1 \/ InFlight(t)
      BY <1>1, OutermostRuns DEF Own
    <3> QED
      BY <1>6, <3>1, <3>2, Zenon
  <2>2. Running' = Running
    BY <1>3, <1>4, <2>1, RunningByThread
  <2> QED
    BY <1>6, <2>2, MapsToStutter DEF Unwind
<1> QED
  BY <1>5, <1>6

LEMMA AccessMaps ==
  ASSUME TypeOK, NestInv, NEW t \in Thread, NEW x \in Obj,
         Read(t, x) \/ \E v \in Val : Write(t, x, v)
  PROVE  [NestAsOne!Act]_(NestAsOne!avars)
<1>1. t \in Running
  <2>1. pc[t] = "body" /\ Shape(t)
    BY DEF NestInv, Own, Read, Write
  <2>2. InFlight(t)
    BY <2>1, Inside DEF Shape, InFlight, Depth
  <2> QED
    BY <2>1, <2>2, OutermostRuns
<1>2. Running' = Running /\ mem' = mem
  BY DEF Running, Read, Write
<1>3. /\ wrote[t][x] \in Val \union {NoVal} /\ mem[x] \in Val
      /\ wrote = [wrote EXCEPT ![t][x] = wrote[t][x]]
      /\ seen = [seen EXCEPT ![t][x] = @ \union {}]
  BY DEF TypeOK
<1>4. ASSUME NEW r \in SUBSET Val, NEW w \in Val \union {NoVal},
             seen' = [seen EXCEPT ![t][x] = @ \union r],
             wrote' = [wrote EXCEPT ![t][x] = w]
      PROVE  NestAsOne!Act
  BY <1>1, <1>2, <1>4 DEF NestAsOne!Act, NestAsOne!Work, Running
<1>5. CASE Read(t, x)
  <2>1. CASE writeList[t][x] # NoVal
    BY <1>2, <1>5, <2>1, MapsToStutter DEF Read
  <2>2. CASE writeList[t][x] = NoVal
    <3>1. /\ seen' = [seen EXCEPT ![t][x] = @ \union {mem[x]}]
          /\ wrote' = [wrote EXCEPT ![t][x] = wrote[t][x]]
      BY <1>3, <1>5, <2>2 DEF Read
    <3> QED
      BY <1>3, <1>4, <3>1
  <2> QED
    BY <2>1, <2>2
<1>6. ASSUME NEW v \in Val, Write(t, x, v)
      PROVE  NestAsOne!Act
  <2>1. /\ wrote' = [wrote EXCEPT ![t][x] = v]
        /\ seen' = [seen EXCEPT ![t][x] = @ \union {}]
    BY <1>3, <1>6 DEF Write
  <2> QED
    BY <1>4, <2>1
<1> QED
  BY <1>5, <1>6

LEMMA AbortOnFlagMaps ==
  ASSUME TypeOK, NestInv, NEW t \in Thread, AbortOnFlag(t)
  PROVE  [NestAsOne!Act]_(NestAsOne!avars)
<1>1. pc[t] = "body" /\ Shape(t)
  BY DEF NestInv, Own, AbortOnFlag
<1>2. InFlight(t)
  BY <1>1, Inside DEF Shape, InFlight, Depth
<1>3. /\ \A u \in Thread \ {t} : nest'[u] = nest[u]
      /\ nest'[t] # <<>>
      /\ \A i \in 1 .. Len(nest[t]) - 1 : nest'[t][i] = nest[t][i]
      /\ nest'[t][Len(nest[t])] = [kind |-> Top(t).kind, state |-> "aborted"]
  BY <1>1, SetTopNest DEF BlockState, AbortOnFlag
<1>4. Len(nest[t]) = 1 => t \notin Running'
  BY <1>3 DEF Running
<1> QED
  BY <1>1, <1>2, <1>3, <1>4, AbortMaps DEF AbortOnFlag

(* The end of an outermost block is the commit of all of them.              *)
LEMMA CommitMaps ==
  ASSUME TypeOK, NestInv, NEW t \in Thread, Commit(t) \/ CommitReadOnly(t)
  PROVE  NestAsOne!Act
<1>1. /\ Own(t) /\ pc[t] # "idle" /\ InFlight(t) /\ ~forcedToAbort[t]
      /\ nest[t] # <<>> /\ Len(nest[t]) \in Nat /\ Len(nest[t]) >= 1
      /\ LeaveBlock(t, "body") /\ Forget(t)
  BY Inside DEF NestInv, Commit, CommitReadOnly, Ending
<1>2. Len(nest[t]) = 1
  <2>1. ~(Len(nest[t]) > 1)
    BY <1>1, OthersAreInFlight DEF Own, Commit, CommitReadOnly
  <2> QED
    BY <1>1, <2>1, AboveOne
<1>3. nest'[t] = <<>> /\ \A u \in Thread \ {t} : nest'[u] = nest[u]
  BY <1>1, <1>2, LeaveBlockNest
<1>4. t \in Running /\ t \notin Running'
  BY <1>1, <1>3, OutermostRuns DEF Own, Running
<1>5. NestAsOne!Stop(t)
  BY <1>1, <1>3, <1>4, RunningByThread, MapsToStop DEF Forget
<1>6. /\ \A x \in Obj : seen[t][x] \subseteq {mem[x]}
      /\ writeList[t] = wrote[t]
  BY <1>1 DEF Own, Keeps
<1>7. mem' = [x \in Obj |-> IF wrote[t][x] = NoVal THEN mem[x] ELSE wrote[t][x]]
  <2>1. CASE Commit(t)
    BY <1>6, <2>1 DEF Commit, Written
  <2>2. CASE CommitReadOnly(t)
    <3>1. \A x \in Obj : wrote[t][x] = NoVal
      BY <1>6, <2>2 DEF CommitReadOnly, Written
    <3> QED
      BY <2>2, <3>1 DEF CommitReadOnly, TypeOK
  <2> QED
    BY <2>1, <2>2
<1>8. NestAsOne!CommitTx(t)
  BY <1>5, <1>6, <1>7 DEF NestAsOne!CommitTx
<1> QED
  BY <1>8 DEF NestAsOne!Act

LEMMA RefinementStep ==
  ASSUME TypeOK, NestInv, [Next]_vars
  PROVE  [NestAsOne!Act]_(NestAsOne!avars)
<1>1. ASSUME NEW t \in Thread, NEW k \in Kind, Construct(t, k)
      PROVE  [NestAsOne!Act]_(NestAsOne!avars)
  BY <1>1, ConstructMaps
<1>2. ASSUME NEW t \in Thread,
             EnterBody(t) \/ Catch(t) \/ EndAborted(t) \/ ForceToAbort(t)
      PROVE  [NestAsOne!Act]_(NestAsOne!avars)
  BY <1>2, MapsToStutter
  DEF EnterBody, Catch, EndAborted, ForceToAbort, Running
<1>3. ASSUME NEW t \in Thread, ClosedNestingThrow(t) \/ HandOff(t)
      PROVE  [NestAsOne!Act]_(NestAsOne!avars)
  BY <1>3, LeaveInnerMaps DEF ClosedNestingThrow, HandOff, Ending
<1>4. ASSUME NEW t \in Thread, RestartInFlight(t)
      PROVE  [NestAsOne!Act]_(NestAsOne!avars)
  BY <1>4, RestartInFlightMaps
<1>5. ASSUME NEW t \in Thread, Restart(t)
      PROVE  [NestAsOne!Act]_(NestAsOne!avars)
  BY <1>5, RestartMaps
<1>6. ASSUME NEW t \in Thread, NEW x \in Obj,
             Read(t, x) \/ \E v \in Val : Write(t, x, v)
      PROVE  [NestAsOne!Act]_(NestAsOne!avars)
  BY <1>6, AccessMaps
<1>7. ASSUME NEW t \in Thread, AbortOnFlag(t)
      PROVE  [NestAsOne!Act]_(NestAsOne!avars)
  BY <1>7, AbortOnFlagMaps
<1>8. ASSUME NEW t \in Thread, Unwind(t)
      PROVE  [NestAsOne!Act]_(NestAsOne!avars)
  BY <1>8, UnwindMaps
<1>9. ASSUME NEW t \in Thread, EndDoomed(t) \/ CommitDenied(t)
      PROVE  [NestAsOne!Act]_(NestAsOne!avars)
  BY <1>9, AbortInEndMaps DEF EndDoomed, CommitDenied, Ending
<1>10. ASSUME NEW t \in Thread, Commit(t) \/ CommitReadOnly(t)
       PROVE  [NestAsOne!Act]_(NestAsOne!avars)
  BY <1>10, CommitMaps
<1>11. CASE UNCHANGED vars
  BY <1>11, MapsToStutter DEF vars, Running
<1> QED
  BY <1>1, <1>2, <1>3, <1>4, <1>5, <1>6, <1>7, <1>8, <1>9, <1>10, <1>11
  DEF Next, Step

(* Nested atomic blocks are one transaction of the atomic store, which      *)
(* takes effect at the outermost end(), however many threads, objects and   *)
(* levels there are.                                                        *)
THEOREM NestIsOneTransactionCorrect ==
  ASSUME OnlyAtomicInside
  PROVE  Spec => NestIsOneTransaction
<1>1. Init => NestAsOne!Start
  BY DEF Init, NestAsOne!Start, NestAsOne!Nothing, NestAsOne!Unread,
         NothingWritten, NothingSeen
<1>2. TypeOK /\ NestInv /\ [Next]_vars => [NestAsOne!Act]_(NestAsOne!avars)
  BY RefinementStep
<1> QED
  BY <1>1, <1>2, NestInvariant, PTL
  DEF Spec, NestIsOneTransaction, NestAsOne!ASpec
=============================================================================
