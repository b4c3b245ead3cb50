----------------------------- MODULE AtomicStore -----------------------------
(***************************************************************************)
(* What a software transactional memory promises (libs/stm/doc/            *)
(* overview.qbk): each transaction that commits takes effect at one        *)
(* instant between its start and its end.  A running transaction may see   *)
(* anything, because one that is about to be aborted is allowed to run on, *)
(* but it commits only when all it saw is the store of that instant.       *)
(***************************************************************************)
CONSTANTS Thread, Obj, Val, NoVal

VARIABLES
  store,    \* the committed value of each object
  running,  \* threads inside a transaction that has not yet been decided
  read,     \* the values each running transaction has observed
  written   \* what each running transaction will write, NoVal elsewhere

avars == <<store, running, read, written>>

Nothing == [x \in Obj |-> NoVal]
Unread  == [x \in Obj |-> {}]

Start ==
  /\ store \in [Obj -> Val]
  /\ running = {}
  /\ read = [t \in Thread |-> Unread]
  /\ written = [t \in Thread |-> Nothing]

Begin(t) ==
  /\ t \notin running
  /\ running' = running \cup {t}
  /\ UNCHANGED <<store, read, written>>

(* Observing objects, buffering writes, or both.                           *)
Work(t) ==
  /\ t \in running
  /\ UNCHANGED <<store, running>>
  /\ \E x \in Obj :
       /\ \E r \in SUBSET Val : read' = [read EXCEPT ![t][x] = @ \cup r]
       /\ \E w \in Val \cup {NoVal} : written' = [written EXCEPT ![t][x] = w]

Stop(t) ==
  /\ t \in running
  /\ running' = running \ {t}
  /\ read' = [read EXCEPT ![t] = Unread]
  /\ written' = [written EXCEPT ![t] = Nothing]

AbortTx(t) == Stop(t) /\ UNCHANGED store

CommitTx(t) ==
  /\ Stop(t)
  /\ \A x \in Obj : read[t][x] \subseteq {store[x]}
  /\ store' = [x \in Obj |->
       IF written[t][x] = NoVal THEN store[x] ELSE written[t][x]]

Act == \E t \in Thread : Begin(t) \/ Work(t) \/ AbortTx(t) \/ CommitTx(t)

ASpec == Start /\ [][Act]_avars
=============================================================================
