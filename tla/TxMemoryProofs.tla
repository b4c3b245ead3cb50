---------------------------- MODULE TxMemoryProofs ----------------------------
(* Theorems about TxMemory, for any threads and cells and any bound of the  *)
(* clock.                                                                   *)
EXTENDS TxMemory, FiniteSetTheorems, TLAPS

(* The cells that only the transaction of t knows, until it commits.        *)
Private(t) == newMemoryList[t] \cup Copies(t)
Buried(c) == \E b \in deletionBuffer : c \in b.cells

(* The objects a commit has removed and not yet put into the buffer.        *)
Removed(t) == IF pc[t] \in {"publish", "bury"} THEN deletedMemoryList[t] ELSE {}

(* A transaction deletes what it has references to, and a change to the     *)
(* structure is noted; Publish leaves it with its deletions only.           *)
ListsInv == \A t \in Thread :
  /\ pc[t] = "body" => deletedMemoryList[t] \subseteq holds[t]
  /\ pc[t] = "body" => newMemoryList[t] \cap Copies(t) = {}
  /\ ~rewired[t] => newMemoryList[t] = {}
  /\ ~rewired[t] /\ pc[t] = "body" => deletedMemoryList[t] = {}
  /\ pc[t] = "bury" => Private(t) \cup holds[t] = {}

(* Nobody knows of a cell that was not allocated.                           *)
UnusedInv == \A c \in Cell : heap[c] = "unused" =>
  /\ c \notin linked /\ ~Buried(c)
  /\ \A t \in Thread : c \notin holds[t] \cup deletedMemoryList[t] \cup Private(t)

(* New objects and copies are their transaction's own, until it ends.       *)
PrivateInv == \A t \in Thread : pc[t] = "body" => \A c \in Private(t) :
  /\ heap[c] = "live" /\ tag[c] = t
  /\ c \notin linked /\ ~Buried(c)
  /\ \A u \in Thread : c \notin Removed(u) /\ (u # t => c \notin holds[u])

(* A new object keeps its transaction's tag as long as it is listed.        *)
TagInv == \A t \in Thread : \A c \in newMemoryList[t] : tag[c] = t

(* What is linked is in no other place, and its tag is that of a commit     *)
(* which is about to take it off.                                           *)
LinkedInv == \A c \in linked :
  /\ heap[c] = "live" /\ ~Buried(c)
  /\ \A u \in Thread : c \notin Removed(u)
  /\ tag[c] # NoThread => pc[tag[c]] = "publish" /\ c \in newMemoryList[tag[c]]

(* What was removed and what is buried is there, and there once.            *)
RemovedInv == \A t \in Thread, c \in Cell \ misdeleted : c \in Removed(t) =>
  /\ heap[c] = "live" /\ ~Buried(c)
  /\ \A u \in Thread \ {t} : c \notin Removed(u)
BuriedInv == \A c \in Cell \ misdeleted, b, d \in deletionBuffer :
  c \in b.cells => heap[c] = "live" /\ (c \in d.cells => b = d)

(* A transaction that is not doomed has references to nothing else.         *)
HoldsInv == \A t \in Thread :
  pc[t] = "body" /\ ~forcedToAbort[t] => holds[t] \subseteq linked \cup Private(t)

(* Nothing leaks.                                                           *)
PlaceInv == \A c \in Cell \ misdeleted : heap[c] = "live" =>
  c \in linked \/ Buried(c) \/ \E t \in Thread : c \in Owed(t)

PlacesInv ==
  /\ ListsInv /\ UnusedInv /\ PrivateInv /\ TagInv /\ LinkedInv
  /\ RemovedInv /\ BuriedInv /\ HoldsInv /\ PlaceInv

(* What a transaction has a reference to was buried after its start.        *)
StartInv == \A t \in Thread : startTime[t] <= clock
HeldInv == \A t \in Thread, b \in deletionBuffer :
  b.cells \cap holds[t] # {} => startTime[t] <= b.time

(* A sweep knows the starts of all that were in flight when it scanned.     *)
ScanInv == \A s \in Thread, t \in transactionsInFlight :
  pc[s] = "sweep" /\ t \notin late[s] => earliest[s] <= startTime[t]

TimeInv == StartInv /\ HeldInv /\ ScanInv

-----------------------------------------------------------------------------
(* Types.                                                                   *)

NoCopies == [x \in Cell |-> NoCell]

LEMMA CopiesEffect ==
  ASSUME TypeOK
  PROVE  /\ \A t \in Thread : Copies(t) \subseteq Cell
         /\ \A t \in Thread : copyOf'[t] = copyOf[t] => Copies(t)' = Copies(t)
         /\ \A t \in Thread : copyOf'[t] = NoCopies => Copies(t)' = {}
BY DEF TypeOK, Types, Copies, NoCopies

(* Clear empties the lists of its thread and leaves those of the others.    *)
LEMMA ClearEffect ==
  ASSUME TypeOK, NEW t \in Thread, Clear(t)
  PROVE  /\ newMemoryList' \in [Thread -> SUBSET Cell]
         /\ copyOf' \in [Thread -> [Cell -> Cell \cup {NoCell}]]
         /\ rewired' \in [Thread -> BOOLEAN]
         /\ holds' \in [Thread -> SUBSET Cell]
         /\ newMemoryList'[t] = {} /\ holds'[t] = {} /\ Copies(t)' = {}
         /\ ~rewired'[t]
         /\ \A u \in Thread \ {t} :
              /\ newMemoryList'[u] = newMemoryList[u] /\ holds'[u] = holds[u]
              /\ Copies(u)' = Copies(u) /\ rewired'[u] = rewired[u]
<1>1. copyOf' = [copyOf EXCEPT ![t] = NoCopies]
  BY DEF Clear, NoCopies
<1>2. NoCopies \in [Cell -> Cell \cup {NoCell}]
  BY DEF NoCopies
<1>3. copyOf' \in [Thread -> [Cell -> Cell \cup {NoCell}]]
  BY <1>1, <1>2 DEF TypeOK, Types
<1>4. copyOf'[t] = NoCopies /\ \A u \in Thread \ {t} : copyOf'[u] = copyOf[u]
  BY <1>1 DEF TypeOK, Types
<1>5. Copies(t)' = {} /\ \A u \in Thread \ {t} : Copies(u)' = Copies(u)
  BY <1>4, CopiesEffect
<1> QED
  BY <1>3, <1>5 DEF Clear, TypeOK, Types

LEMMA TypeInit == Init => TypeOK /\ ListsInv
<1> SUFFICES ASSUME Init PROVE TypeOK /\ ListsInv
  OBVIOUS
<1>1. copyOf = [t \in Thread |-> NoCopies]
  BY DEF Init, NoCopies
<1>2. NoCopies \in [Cell -> Cell \cup {NoCell}]
  BY DEF NoCopies
<1>3. \A t \in Thread : Copies(t) = {}
  BY <1>1 DEF Copies, NoCopies
<1>4. TypeOK
  BY <1>1, <1>2, <1>3, MemoryAssumption DEF Init, TypeOK, Types, BodiesHaveLists, Time, Location
<1>5. ListsInv
  BY <1>3 DEF Init, ListsInv, Private
<1> QED
  BY <1>4, <1>5

LEMMA TypeStep == TypeOK /\ ListsInv /\ [Next]_vars => TypeOK'
<1> SUFFICES ASSUME TypeOK, ListsInv, [Next]_vars
             PROVE  Types' /\ BodiesHaveLists'
  BY DEF TypeOK
<1> USE MemoryAssumption DEF TypeOK, Types, Time, Location, Goto, txVars, lists,
        history
<1>1. ASSUME UNCHANGED vars
     PROVE  Types' /\ BodiesHaveLists'
  <2>1. Types'
    BY <1>1 DEF vars
  <2>2. BodiesHaveLists'
    BY <1>1, CopiesEffect DEF vars, BodiesHaveLists
  <2> QED
    BY <2>1, <2>2
<1>2. ASSUME Tick
     PROVE  Types' /\ BodiesHaveLists'
  <2>1. Types'
    BY <1>2 DEF Tick
  <2>2. BodiesHaveLists'
    BY <1>2, CopiesEffect DEF Tick, BodiesHaveLists
  <2> QED
    BY <2>1, <2>2
<1>3. ASSUME NEW t \in Thread, Construct(t)
     PROVE  Types' /\ BodiesHaveLists'
  <2>1. Types'
    BY <1>3 DEF Construct
  <2>2. BodiesHaveLists'
    BY <1>3, CopiesEffect DEF Construct, BodiesHaveLists
  <2> QED
    BY <2>1, <2>2
<1>4. ASSUME NEW t \in Thread, Scan(t)
     PROVE  Types' /\ BodiesHaveLists'
  <2>1. Types'
    BY <1>4 DEF Scan
  <2>2. BodiesHaveLists'
    BY <1>4, CopiesEffect DEF Scan, BodiesHaveLists
  <2> QED
    BY <2>1, <2>2
<1>5. ASSUME NEW t \in Thread, Sweep(t)
     PROVE  Types' /\ BodiesHaveLists'
  <2>1. Types'
    BY <1>5 DEF Sweep, Free, Due
  <2>2. BodiesHaveLists'
    BY <1>5, CopiesEffect DEF Sweep, BodiesHaveLists
  <2> QED
    BY <2>1, <2>2
<1>6. ASSUME NEW t \in Thread, Enter(t)
     PROVE  Types' /\ BodiesHaveLists'
  <2>1. Types'
    BY <1>6 DEF Enter, PutInFlight
  <2>2. BodiesHaveLists'
    BY <1>6, CopiesEffect DEF Enter, PutInFlight, BodiesHaveLists
  <2> QED
    BY <2>1, <2>2
<1>7. ASSUME NEW t \in Thread, NEW x \in Cell, Reach(t, x)
     PROVE  Types' /\ BodiesHaveLists'
  <2>1. Types'
    BY <1>7 DEF Reach
  <2>2. BodiesHaveLists'
    BY <1>7, CopiesEffect DEF Reach, BodiesHaveLists
  <2> QED
    BY <2>1, <2>2
<1>8. ASSUME NEW t \in Thread, NEW c \in Cell, New(t, c)
     PROVE  Types' /\ BodiesHaveLists'
  <2>1. Types'
    BY <1>8 DEF New
  <2>2. BodiesHaveLists'
    BY <1>8, CopiesEffect DEF New, BodiesHaveLists
  <2> QED
    BY <2>1, <2>2
<1>9. ASSUME NEW t \in Thread, NEW c \in Cell, Delete(t, c)
     PROVE  Types' /\ BodiesHaveLists'
  <2>1. Types'
    BY <1>9 DEF Delete
  <2>2. BodiesHaveLists'
    BY <1>9, CopiesEffect DEF Delete, BodiesHaveLists
  <2> QED
    BY <2>1, <2>2
<1>10. ASSUME NEW t \in Thread, NEW x \in Cell, NEW c \in Cell, Write(t, x, c)
      PROVE  Types' /\ BodiesHaveLists'
  <2>1. copyOf' \in [Thread -> [Cell -> Cell \cup {NoCell}]]
    BY <1>10 DEF Write
  <2>2. Types'
    BY <1>10, <2>1 DEF Write
  <2>3. \A u \in Thread \ {t} : Copies(u)' = Copies(u)
    BY <1>10, CopiesEffect DEF Write
  <2>4. BodiesHaveLists'
    BY <1>10, <2>3 DEF Write, BodiesHaveLists
  <2> QED
    BY <2>2, <2>4
<1>11. ASSUME NEW t \in Thread, Abort(t)
      PROVE  Types' /\ BodiesHaveLists'
  <2>1. Types'
    BY <1>11, ClearEffect DEF Abort, Free
  <2>2. BodiesHaveLists'
    BY <1>11, ClearEffect DEF Abort, BodiesHaveLists
  <2> QED
    BY <2>1, <2>2
<1>12. ASSUME NEW t \in Thread, Commit(t)
     PROVE  Types' /\ BodiesHaveLists'
  <2>1. Types'
    BY <1>12 DEF Commit, Free
  <2>2. BodiesHaveLists'
    BY <1>12, CopiesEffect DEF Commit, BodiesHaveLists
  <2> QED
    BY <2>1, <2>2
<1>13. ASSUME NEW t \in Thread, Publish(t)
      PROVE  Types' /\ BodiesHaveLists'
  <2>1. Types'
    BY <1>13, ClearEffect DEF Publish
  <2>2. BodiesHaveLists'
    BY <1>13, ClearEffect DEF Publish, BodiesHaveLists
  <2> QED
    BY <2>1, <2>2
<1>14. ASSUME NEW t \in Thread, Bury(t)
      PROVE  Types' /\ BodiesHaveLists'
  <2>1. \A b \in deletionBuffer' : b.time \in Time /\ b.cells \subseteq Cell
    BY <1>14 DEF Bury
  <2>2. Types'
    BY <1>14, <2>1 DEF Bury
  <2>3. BodiesHaveLists'
    BY <1>14, CopiesEffect DEF Bury, BodiesHaveLists, ListsInv, Private
  <2> QED
    BY <2>2, <2>3
<1> HIDE DEF TypeOK, Types, Time, Location, Goto, txVars, lists, history
<1> QED
  BY <1>1, <1>2, <1>3, <1>4, <1>5, <1>6, <1>7, <1>8, <1>9, <1>10, <1>11, <1>12,
     <1>13, <1>14 DEF Next

-----------------------------------------------------------------------------
(* Places: one lemma for each action.                                       *)

LEMMA PrivateCells ==
  ASSUME TypeOK
  PROVE  \A t \in Thread : Private(t) \subseteq Cell
BY CopiesEffect DEF Private, TypeOK, Types

(* The steps that neither allocate nor free, nor end a transaction.         *)
LEMMA QuietPlaces ==
  ASSUME TypeOK, PlacesInv, NEW t \in Thread,
         UNCHANGED <<heap, tag, linked, deletionBuffer, lists, misdeleted,
                     forcedToAbort>>,
         \/ UNCHANGED pc
         \/ /\ pc[t] \in {"out", "scan", "enter"}
            /\ \E l \in {"scan", "sweep", "body"} : pc' = [pc EXCEPT ![t] = l]
  PROVE  PlacesInv'
<1>1. /\ UNCHANGED <<heap, tag, linked, deletionBuffer, newMemoryList,
                     deletedMemoryList, holds, rewired, misdeleted>>
      /\ \A u \in Thread : Copies(u)' = Copies(u)
  BY CopiesEffect DEF lists
<1>2. \A u \in Thread :
        /\ pc'[u] = "publish" <=> pc[u] = "publish"
        /\ pc'[u] = "bury" <=> pc[u] = "bury"
        /\ pc'[u] = "body" => \/ pc[u] = "body"
                              \/ Private(u) \cup holds[u] \cup deletedMemoryList[u] = {}
  BY DEF TypeOK, Types, BodiesHaveLists, Private
<1>3. \A u \in Thread : Private(u)' = Private(u) /\ Removed(u)' = Removed(u)
                        /\ Owed(u)' = Owed(u)
  BY <1>1, <1>2 DEF Private, Removed, Owed
<1>4. \A c \in Cell : Buried(c)' = Buried(c)
  BY <1>1 DEF Buried
<1>5. ListsInv'
  BY <1>1, <1>2, <1>3 DEF PlacesInv, ListsInv, Private
<1>6. UnusedInv'
  BY <1>1, <1>3, <1>4 DEF PlacesInv, UnusedInv
<1>7. PrivateInv'
  BY <1>1, <1>2, <1>3, <1>4, PrivateCells DEF PlacesInv, PrivateInv
<1>8. LinkedInv'
  BY <1>1, <1>2, <1>3, <1>4 DEF PlacesInv, LinkedInv, TypeOK, Types
<1>9. RemovedInv'
  BY <1>1, <1>3, <1>4 DEF PlacesInv, RemovedInv
<1>10. BuriedInv'
  BY <1>1 DEF PlacesInv, BuriedInv
<1>11. HoldsInv'
  BY <1>1, <1>2, <1>3 DEF PlacesInv, HoldsInv
<1>12. PlaceInv'
  BY <1>1, <1>3, <1>4 DEF PlacesInv, PlaceInv
<1>13. TagInv'
  BY <1>1 DEF PlacesInv, TagInv
<1> QED
  BY <1>5, <1>6, <1>7, <1>8, <1>9, <1>10, <1>11, <1>12,
     <1>13 DEF PlacesInv

(* What a sweep frees was in the buffer, hence nowhere else.                *)
LEMMA SweepPlaces ==
  ASSUME TypeOK, PlacesInv, NEW t \in Thread, Sweep(t)
  PROVE  PlacesInv'
<1>1. /\ UNCHANGED <<tag, linked, newMemoryList, deletedMemoryList, holds,
                     rewired, misdeleted, forcedToAbort>>
      /\ \A u \in Thread : Copies(u)' = Copies(u)
  BY CopiesEffect DEF Sweep, lists, txVars
<1>2. \A u \in Thread :
        /\ pc'[u] = "publish" <=> pc[u] = "publish"
        /\ pc'[u] = "bury" <=> pc[u] = "bury"
        /\ pc'[u] = "body" <=> pc[u] = "body"
  BY DEF Sweep, Goto, TypeOK, Types
<1>3. \A u \in Thread : Private(u)' = Private(u) /\ Removed(u)' = Removed(u)
                        /\ Owed(u)' = Owed(u)
  BY <1>1, <1>2 DEF Private, Removed, Owed
<1>4. /\ deletionBuffer' \subseteq deletionBuffer
      /\ \A c \in Cell :
           \/ heap'[c] = heap[c] /\ ~\E b \in deletionBuffer \ deletionBuffer' : c \in b.cells
           \/ heap'[c] = "freed" /\ \E b \in deletionBuffer \ deletionBuffer' : c \in b.cells
  <2>1. deletionBuffer \ deletionBuffer' = Due(t)
    BY DEF Sweep, Due
  <2> QED
    BY <2>1 DEF Sweep, Free
<1>5. \A c \in Cell : (Buried(c)' => Buried(c)) /\ (~Buried(c) => heap'[c] = heap[c])
  BY <1>4 DEF Buried
<1>6. ListsInv'
  BY <1>1, <1>2, <1>3 DEF PlacesInv, ListsInv, Private
<1>7. UnusedInv'
  BY <1>1, <1>3, <1>4, <1>5 DEF PlacesInv, UnusedInv
<1>8. PrivateInv'
  BY <1>1, <1>2, <1>3, <1>5, PrivateCells DEF PlacesInv, PrivateInv
<1>9. LinkedInv'
  BY <1>1, <1>2, <1>3, <1>5 DEF PlacesInv, LinkedInv, TypeOK, Types
<1>10. RemovedInv'
  BY <1>1, <1>3, <1>5 DEF PlacesInv, RemovedInv
<1>11. BuriedInv'
  <2> SUFFICES ASSUME NEW c \in Cell, c \notin misdeleted,
                      NEW b \in deletionBuffer', NEW d \in deletionBuffer',
                      c \in b.cells
               PROVE  heap'[c] = "live" /\ (c \in d.cells => b = d)
    BY <1>1 DEF BuriedInv
  <2>1. heap[c] = "live" /\ \A e \in deletionBuffer : c \in e.cells => b = e
    BY <1>4 DEF PlacesInv, BuriedInv
  <2> QED
    BY <1>4, <2>1
<1>12. HoldsInv'
  BY <1>1, <1>2, <1>3 DEF PlacesInv, HoldsInv
<1>13. PlaceInv'
  <2> SUFFICES ASSUME NEW c \in Cell, c \notin misdeleted, heap'[c] = "live",
                      c \notin linked, \A u \in Thread : c \notin Owed(u)
               PROVE  Buried(c)'
    BY <1>1, <1>3 DEF PlaceInv
  <2>1. heap[c] = "live" /\ ~\E b \in deletionBuffer \ deletionBuffer' : c \in b.cells
    BY <1>4
  <2> QED
    BY <2>1 DEF PlacesInv, PlaceInv, Buried
<1>14. TagInv'
  BY <1>1 DEF PlacesInv, TagInv
<1> QED
  BY <1>6, <1>7, <1>8, <1>9, <1>10, <1>11, <1>12, <1>13,
     <1>14 DEF PlacesInv

LEMMA ReachPlaces ==
  ASSUME TypeOK, PlacesInv, NEW t \in Thread, NEW x \in Cell, Reach(t, x)
  PROVE  PlacesInv'
<1> DEFINE c == IF copyOf[t][x] = NoCell THEN x ELSE copyOf[t][x]
<1>1. /\ UNCHANGED <<heap, tag, linked, deletionBuffer, newMemoryList, pc,
                     deletedMemoryList, rewired, misdeleted, forcedToAbort>>
      /\ \A u \in Thread : Copies(u)' = Copies(u)
  BY CopiesEffect DEF Reach, txVars, history
<1>2. c \in linked \cup Private(t) /\ pc[t] = "body" /\ heap[c] = "live"
  <2>1. copyOf[t][x] # NoCell => copyOf[t][x] \in Private(t)
    BY DEF Private, Copies
  <2> QED
    BY <2>1 DEF Reach, PlacesInv, PrivateInv, LinkedInv
<1>3. /\ holds'[t] = holds[t] \cup {c}
      /\ \A u \in Thread \ {t} : holds'[u] = holds[u]
  BY DEF Reach, TypeOK, Types
<1> HIDE DEF c
<1>4. \A u \in Thread : Private(u)' = Private(u) /\ Removed(u)' = Removed(u)
                        /\ Owed(u)' = Owed(u)
  BY <1>1 DEF Private, Removed, Owed
<1>5. \A d \in Cell : Buried(d)' = Buried(d)
  BY <1>1 DEF Buried
<1>6. ListsInv'
  BY <1>1, <1>2, <1>3, <1>4 DEF PlacesInv, ListsInv, Private
<1>7. UnusedInv'
  BY <1>1, <1>2, <1>3, <1>4, <1>5 DEF PlacesInv, UnusedInv
<1>8. PrivateInv'
  <2>1. \A u \in Thread \ {t} : pc[u] = "body" => c \notin Private(u)
    BY <1>2 DEF PlacesInv, PrivateInv
  <2>2. \A u \in Thread : Private(u) \subseteq Cell
    BY PrivateCells
  <2> QED
    BY <1>1, <1>3, <1>4, <1>5, <2>1, <2>2 DEF PlacesInv, PrivateInv
<1>9. LinkedInv'
  BY <1>1, <1>4, <1>5 DEF PlacesInv, LinkedInv, TypeOK, Types
<1>10. RemovedInv'
  BY <1>1, <1>4, <1>5 DEF PlacesInv, RemovedInv
<1>11. BuriedInv'
  BY <1>1 DEF PlacesInv, BuriedInv
<1>12. HoldsInv'
  BY <1>1, <1>2, <1>3, <1>4 DEF PlacesInv, HoldsInv
<1>13. PlaceInv'
  BY <1>1, <1>4, <1>5 DEF PlacesInv, PlaceInv
<1>14. TagInv'
  BY <1>1 DEF PlacesInv, TagInv
<1> QED
  BY <1>6, <1>7, <1>8, <1>9, <1>10, <1>11, <1>12, <1>13,
     <1>14 DEF PlacesInv

(* A cell that was unused becomes a new object or a copy.                   *)
LEMMA AllocatePlaces ==
  ASSUME TypeOK, PlacesInv, NEW t \in Thread, NEW c \in Cell,
         pc[t] = "body", heap[c] = "unused",
         heap' = [heap EXCEPT ![c] = "live"], tag' = [tag EXCEPT ![c] = t],
         holds' = [holds EXCEPT ![t] = holds[t] \cup {c}],
         UNCHANGED <<linked, deletionBuffer, deletedMemoryList, misdeleted,
                     forcedToAbort, pc>>,
         \A u \in Thread \ {t} :
           /\ newMemoryList'[u] = newMemoryList[u] /\ Copies(u)' = Copies(u)
           /\ rewired'[u] = rewired[u],
         \/ /\ newMemoryList'[t] = newMemoryList[t] \cup {c}
            /\ Copies(t)' = Copies(t) /\ rewired'[t]
         \/ /\ newMemoryList'[t] = newMemoryList[t]
            /\ Copies(t)' = Copies(t) \cup {c} /\ rewired'[t] = rewired[t]
  PROVE  PlacesInv'
<1>1. /\ \A d \in Cell \ {c} : heap'[d] = heap[d] /\ tag'[d] = tag[d]
      /\ heap'[c] = "live" /\ tag'[c] = t
      /\ holds'[t] = holds[t] \cup {c}
      /\ \A u \in Thread \ {t} : holds'[u] = holds[u]
  BY DEF TypeOK, Types
<1>2. /\ Private(t)' = Private(t) \cup {c}
      /\ \A u \in Thread \ {t} : Private(u)' = Private(u)
      /\ \A u \in Thread : Removed(u)' = Removed(u)
  BY DEF Private, Removed
<1>3. \A d \in Cell : Buried(d)' = Buried(d)
  BY DEF Buried
<1>4. /\ c \notin linked /\ ~Buried(c)
      /\ \A u \in Thread :
           /\ c \notin holds[u] \cup deletedMemoryList[u] \cup Private(u)
           /\ c \notin Removed(u)
  BY DEF PlacesInv, UnusedInv, Removed
<1>5. \A u \in Thread : Private(u) \subseteq Cell
  BY PrivateCells
<1>6. ListsInv'
  <2>1. newMemoryList'[t] \cap Copies(t)' = {}
    BY <1>4 DEF PlacesInv, ListsInv, Private
  <2> QED
    BY <1>1, <1>2, <2>1 DEF PlacesInv, ListsInv
<1>7. UnusedInv'
  BY <1>1, <1>2, <1>3 DEF PlacesInv, UnusedInv
<1>8. PrivateInv'
  <2> SUFFICES ASSUME NEW u \in Thread, pc[u] = "body", NEW d \in Private(u)'
               PROVE  /\ heap'[d] = "live" /\ tag'[d] = u
                      /\ d \notin linked /\ ~Buried(d)'
                      /\ \A w \in Thread : d \notin Removed(w) /\ (w # u => d \notin holds'[w])
    BY <1>2 DEF PrivateInv
  <2>1. CASE d = c
    <3>1. u = t
      BY <1>2, <1>4, <2>1
    <3> QED
      BY <1>1, <1>3, <1>4, <2>1, <3>1
  <2>2. CASE d # c
    <3>1. d \in Private(u) /\ d \in Cell
      BY <1>2, <1>5, <2>2
    <3> QED
      BY <1>1, <1>3, <2>2, <3>1 DEF PlacesInv, PrivateInv
  <2> QED
    BY <2>1, <2>2
<1>9. TagInv'
  <2>1. \A u \in Thread : newMemoryList[u] \subseteq Cell
    BY DEF TypeOK, Types
  <2>2. \A u \in Thread : c \notin newMemoryList[u]
    BY <1>4 DEF Private
  <2> QED
    BY <1>1, <2>1, <2>2 DEF PlacesInv, TagInv
<1>10. LinkedInv'
  <2> SUFFICES ASSUME NEW d \in linked
               PROVE  /\ heap'[d] = "live" /\ ~Buried(d)'
                      /\ \A u \in Thread : d \notin Removed(u)'
                      /\ tag'[d] # NoThread =>
                           pc[tag'[d]] = "publish" /\ d \in newMemoryList'[tag'[d]]
    BY DEF LinkedInv
  <2>1. d \in Cell \ {c} /\ tag[d] \in Thread \cup {NoThread}
    BY <1>4 DEF TypeOK, Types
  <2>2. tag[d] # NoThread =>
          pc[tag[d]] = "publish" /\ d \in newMemoryList[tag[d]] /\ tag[d] # t
    BY DEF PlacesInv, LinkedInv
  <2> QED
    BY <1>1, <1>2, <1>3, <2>1, <2>2 DEF PlacesInv, LinkedInv
<1>11. RemovedInv'
  BY <1>1, <1>2, <1>3, <1>4 DEF PlacesInv, RemovedInv
<1>12. BuriedInv'
  BY <1>1, <1>4 DEF PlacesInv, BuriedInv
<1>13. HoldsInv'
  BY <1>1, <1>2 DEF PlacesInv, HoldsInv
<1>14. PlaceInv'
  <2>1. \A u \in Thread : Owed(u) \subseteq Owed(u)'
    BY <1>2 DEF Owed, Private
  <2>2. c \in Owed(t)'
    BY <1>2 DEF Owed, Private
  <2> QED
    BY <1>1, <1>3, <2>1, <2>2 DEF PlacesInv, PlaceInv
<1> QED
  BY <1>6, <1>7, <1>8, <1>9, <1>10, <1>11, <1>12, <1>13, <1>14 DEF PlacesInv

LEMMA NewPlaces ==
  ASSUME TypeOK, PlacesInv, NEW t \in Thread, NEW c \in Cell, New(t, c)
  PROVE  PlacesInv'
<1>1. /\ newMemoryList'[t] = newMemoryList[t] \cup {c} /\ rewired'[t]
      /\ \A u \in Thread \ {t} :
           newMemoryList'[u] = newMemoryList[u] /\ rewired'[u] = rewired[u]
  BY DEF New, TypeOK, Types
<1>2. \A u \in Thread : Copies(u)' = Copies(u)
  BY CopiesEffect DEF New
<1> QED
  BY <1>1, <1>2, AllocatePlaces DEF New, txVars, history

LEMMA WritePlaces ==
  ASSUME TypeOK, PlacesInv, NEW t \in Thread, NEW x \in Cell, NEW c \in Cell,
         Write(t, x, c)
  PROVE  PlacesInv'
<1>1. \A u \in Thread \ {t} : Copies(u)' = Copies(u)
  BY CopiesEffect DEF Write, TypeOK, Types
<1>2. Copies(t)' = Copies(t) \cup {c}
  <2>1. copyOf[t][x] = NoCell /\ c # NoCell
    BY MemoryAssumption DEF Write
  <2>2. \A y \in Cell : copyOf'[t][y] = IF y = x THEN c ELSE copyOf[t][y]
    BY DEF Write, TypeOK, Types
  <2> QED
    BY <2>1, <2>2 DEF Copies
<1> QED
  BY <1>1, <1>2, AllocatePlaces DEF Write, txVars, history

LEMMA DeletePlaces ==
  ASSUME TypeOK, PlacesInv, NEW t \in Thread, NEW c \in Cell, Delete(t, c)
  PROVE  PlacesInv'
<1>1. /\ UNCHANGED <<heap, tag, linked, deletionBuffer, newMemoryList, pc,
                     holds, misdeleted, forcedToAbort>>
      /\ \A u \in Thread : Copies(u)' = Copies(u)
      /\ pc[t] = "body" /\ c \in holds[t]
  BY CopiesEffect DEF Delete, txVars, history
<1>2. /\ deletedMemoryList'[t] = deletedMemoryList[t] \cup {c} /\ rewired'[t]
      /\ \A u \in Thread \ {t} :
           deletedMemoryList'[u] = deletedMemoryList[u] /\ rewired'[u] = rewired[u]
  BY DEF Delete, TypeOK, Types
<1>3. \A u \in Thread : Private(u)' = Private(u) /\ Removed(u)' = Removed(u)
                        /\ Owed(u)' = Owed(u)
  BY <1>1, <1>2 DEF Private, Removed, Owed
<1>4. \A d \in Cell : Buried(d)' = Buried(d)
  BY <1>1 DEF Buried
<1>5. ListsInv'
  BY <1>1, <1>2, <1>3 DEF PlacesInv, ListsInv
<1>6. UnusedInv'
  BY <1>1, <1>2, <1>3, <1>4 DEF PlacesInv, UnusedInv
<1>7. PrivateInv'
  <2>1. \A u \in Thread : Private(u) \subseteq Cell
    BY PrivateCells
  <2> QED
    BY <1>1, <1>3, <1>4, <2>1 DEF PlacesInv, PrivateInv
<1>8. TagInv'
  BY <1>1 DEF PlacesInv, TagInv
<1>9. LinkedInv'
  BY <1>1, <1>3, <1>4 DEF PlacesInv, LinkedInv, TypeOK, Types
<1>10. RemovedInv'
  BY <1>1, <1>3, <1>4 DEF PlacesInv, RemovedInv
<1>11. BuriedInv'
  BY <1>1 DEF PlacesInv, BuriedInv
<1>12. HoldsInv'
  BY <1>1, <1>3 DEF PlacesInv, HoldsInv
<1>13. PlaceInv'
  BY <1>1, <1>3, <1>4 DEF PlacesInv, PlaceInv
<1> QED
  BY <1>5, <1>6, <1>7, <1>8, <1>9, <1>10, <1>11, <1>12, <1>13 DEF PlacesInv

(* An abort frees what is private to its transaction.                       *)
LEMMA AbortPlaces ==
  ASSUME TypeOK, PlacesInv, NEW t \in Thread, Abort(t)
  PROVE  PlacesInv'
<1>1. /\ UNCHANGED <<tag, linked, deletionBuffer, misdeleted>>
      /\ pc[t] = "body" /\ pc'[t] \in {"enter", "out"}
      /\ newMemoryList'[t] = {} /\ holds'[t] = {} /\ Copies(t)' = {}
      /\ deletedMemoryList'[t] = {} /\ ~rewired'[t]
      /\ \A u \in Thread \ {t} :
           /\ newMemoryList'[u] = newMemoryList[u] /\ holds'[u] = holds[u]
           /\ Copies(u)' = Copies(u) /\ rewired'[u] = rewired[u]
           /\ deletedMemoryList'[u] = deletedMemoryList[u]
           /\ pc'[u] = pc[u] /\ forcedToAbort'[u] = forcedToAbort[u]
  BY ClearEffect DEF Abort, Goto, TypeOK, Types
<1>2. \A c \in Cell : heap'[c] = IF c \in Private(t) THEN "freed" ELSE heap[c]
  BY DEF Abort, Free, Private
<1>3. /\ Private(t)' = {} /\ Removed(t)' = {} /\ Removed(t) = {}
      /\ Owed(t) = Private(t)
      /\ \A u \in Thread \ {t} :
           Private(u)' = Private(u) /\ Removed(u)' = Removed(u) /\ Owed(u)' = Owed(u)
  BY <1>1 DEF Private, Removed, Owed
<1>4. \A c \in Cell : Buried(c)' = Buried(c)
  BY <1>1 DEF Buried
<1>5. \A c \in Private(t) :
        /\ c \in Cell /\ heap[c] = "live" /\ tag[c] = t /\ c \notin linked
        /\ ~Buried(c) /\ \A u \in Thread : c \notin Removed(u)
  BY <1>1, PrivateCells DEF PlacesInv, PrivateInv
<1>6. ListsInv'
  BY <1>1, <1>3 DEF PlacesInv, ListsInv
<1>7. UnusedInv'
  BY <1>1, <1>2, <1>3, <1>4 DEF PlacesInv, UnusedInv
<1>8. PrivateInv'
  <2> SUFFICES ASSUME NEW u \in Thread, pc'[u] = "body", NEW c \in Private(u)'
               PROVE  /\ heap'[c] = "live" /\ tag[c] = u
                      /\ c \notin linked /\ ~Buried(c)'
                      /\ \A w \in Thread : c \notin Removed(w)' /\ (w # u => c \notin holds'[w])
    BY <1>1 DEF PrivateInv
  <2>1. u # t /\ c \in Private(u) /\ c \in Cell /\ pc[u] = "body"
    BY <1>1, <1>3, PrivateCells
  <2>2. tag[c] = u /\ c \notin Private(t)
    BY <1>5, <2>1 DEF PlacesInv, PrivateInv
  <2> QED
    BY <1>1, <1>2, <1>3, <1>4, <2>1, <2>2 DEF PlacesInv, PrivateInv
<1>9. TagInv'
  BY <1>1 DEF PlacesInv, TagInv
<1>10. LinkedInv'
  <2> SUFFICES ASSUME NEW c \in linked
               PROVE  /\ heap'[c] = "live" /\ ~Buried(c)'
                      /\ \A u \in Thread : c \notin Removed(u)'
                      /\ tag[c] # NoThread =>
                           pc'[tag[c]] = "publish" /\ c \in newMemoryList'[tag[c]]
    BY <1>1 DEF LinkedInv
  <2>1. c \in Cell /\ tag[c] \in Thread \cup {NoThread} /\ c \notin Private(t)
    BY <1>5 DEF TypeOK, Types
  <2>2. tag[c] # t
    BY <1>1, MemoryAssumption DEF PlacesInv, LinkedInv
  <2> QED
    BY <1>1, <1>2, <1>3, <1>4, <2>1, <2>2 DEF PlacesInv, LinkedInv
<1>11. RemovedInv'
  BY <1>1, <1>2, <1>3, <1>4, <1>5 DEF PlacesInv, RemovedInv
<1>12. BuriedInv'
  BY <1>1, <1>2, <1>5 DEF PlacesInv, BuriedInv, Buried
<1>13. HoldsInv'
  BY <1>1, <1>3 DEF PlacesInv, HoldsInv
<1>14. PlaceInv'
  BY <1>1, <1>2, <1>3, <1>4 DEF PlacesInv, PlaceInv
<1> QED
  BY <1>6, <1>7, <1>8, <1>9, <1>10, <1>11, <1>12, <1>13, <1>14 DEF PlacesInv

(* The objects that leave the structure by a commit, and those that it      *)
(* knows only by their copies.                                              *)
Leaving(t) == {x \in Cell : deletedMemoryList[t] \cap {x, copyOf[t][x]} # {}}
Mistaken(t) ==
  {x \in Cell : Copies(t) \cap deletedMemoryList[t] \cap {x, copyOf[t][x]} # {}}

LEMMA CommitPlaces ==
  ASSUME TypeOK, PlacesInv, NEW t \in Thread, Commit(t)
  PROVE  PlacesInv'
<1>1. /\ UNCHANGED <<tag, deletionBuffer, newMemoryList, deletedMemoryList, holds,
                     rewired>>
      /\ \A u \in Thread : Copies(u)' = Copies(u)
      /\ pc[t] = "body" /\ pc'[t] = "publish" /\ ~forcedToAbort[t]
      /\ \A u \in Thread \ {t} : pc'[u] = pc[u]
      /\ linked' = (linked \cup newMemoryList[t]) \ Leaving(t)
      /\ misdeleted' = misdeleted \cup Mistaken(t)
  BY CopiesEffect DEF Commit, Goto, lists, TypeOK, Types, Leaving, Mistaken
<1>2. \A c \in Cell : heap'[c] = IF c \in Copies(t) THEN "freed" ELSE heap[c]
  BY DEF Commit, Free
<1>3. /\ Removed(t)' = deletedMemoryList[t] /\ Removed(t) = {}
      /\ Owed(t) = Private(t) /\ Owed(t)' = deletedMemoryList[t]
      /\ \A u \in Thread : Private(u)' = Private(u)
      /\ \A u \in Thread \ {t} : Removed(u)' = Removed(u) /\ Owed(u)' = Owed(u)
  BY <1>1 DEF Private, Removed, Owed
<1>4. \A c \in Cell : Buried(c)' = Buried(c)
  BY <1>1 DEF Buried
<1>5. \A c \in Private(t) :
        /\ c \in Cell /\ heap[c] = "live" /\ tag[c] = t /\ c \notin linked
        /\ ~Buried(c) /\ \A u \in Thread : c \notin Removed(u)
  BY <1>1, PrivateCells DEF PlacesInv, PrivateInv
<1>6. /\ newMemoryList[t] \subseteq Private(t) /\ Copies(t) \subseteq Private(t)
      /\ newMemoryList[t] \cap Copies(t) = {}
      /\ Private(t) = newMemoryList[t] \cup Copies(t)
  BY <1>1 DEF Private, PlacesInv, ListsInv
<1>7. deletedMemoryList[t] \subseteq linked \cup Private(t)
  BY <1>1 DEF PlacesInv, ListsInv, HoldsInv
<1>8. deletedMemoryList[t] \subseteq Leaving(t)
  BY DEF Leaving, TypeOK, Types
<1>9. deletedMemoryList[t] \cap Copies(t) \subseteq misdeleted'
  BY <1>1 DEF Mistaken, TypeOK, Types
<1>10. Leaving(t) \subseteq deletedMemoryList[t] \cup misdeleted'
  <2> SUFFICES ASSUME NEW x \in Leaving(t), x \notin deletedMemoryList[t]
               PROVE  x \in Mistaken(t)
    BY <1>1
  <2>1. x \in Cell /\ copyOf[t][x] \in deletedMemoryList[t]
    BY DEF Leaving
  <2>2. copyOf[t][x] \in Copies(t)
    BY <2>1, MemoryAssumption DEF Copies, TypeOK, Types
  <2> QED
    BY <2>1, <2>2 DEF Mistaken
<1>11. ListsInv'
  BY <1>1, <1>3 DEF PlacesInv, ListsInv
<1>12. UnusedInv'
  BY <1>1, <1>2, <1>3, <1>4, <1>5, <1>6 DEF PlacesInv, UnusedInv
<1>13. PrivateInv'
  <2> SUFFICES ASSUME NEW u \in Thread, pc'[u] = "body", NEW c \in Private(u)
               PROVE  /\ heap'[c] = "live" /\ tag[c] = u
                      /\ c \notin linked' /\ ~Buried(c)'
                      /\ \A w \in Thread : c \notin Removed(w)' /\ (w # u => c \notin holds[w])
    BY <1>1, <1>3 DEF PrivateInv
  <2>1. u # t /\ c \in Cell /\ pc[u] = "body"
    BY <1>1, PrivateCells
  <2>2. /\ heap[c] = "live" /\ tag[c] = u /\ c \notin linked /\ ~Buried(c)
        /\ \A w \in Thread : c \notin Removed(w) /\ (w # u => c \notin holds[w])
    BY <2>1 DEF PlacesInv, PrivateInv
  <2>3. c \notin Private(t)
    BY <1>5, <2>1, <2>2
  <2>4. c \notin deletedMemoryList[t]
    BY <1>1, <2>1, <2>2 DEF PlacesInv, ListsInv
  <2> QED
    BY <1>1, <1>2, <1>3, <1>4, <1>6, <2>1, <2>2, <2>3, <2>4
<1>14. TagInv'
  BY <1>1 DEF PlacesInv, TagInv
<1>15. LinkedInv'
  <2> SUFFICES ASSUME NEW c \in linked'
               PROVE  /\ heap'[c] = "live" /\ ~Buried(c)'
                      /\ \A u \in Thread : c \notin Removed(u)'
                      /\ tag[c] # NoThread =>
                           pc'[tag[c]] = "publish" /\ c \in newMemoryList[tag[c]]
    BY <1>1 DEF LinkedInv
  <2>1. c \in linked \cup newMemoryList[t] /\ c \notin deletedMemoryList[t] /\ c \in Cell
    BY <1>1, <1>8 DEF TypeOK, Types
  <2>2. CASE c \in newMemoryList[t]
    BY <1>1, <1>2, <1>3, <1>4, <1>5, <1>6, <2>1, <2>2
  <2>3. CASE c \in linked
    <3>1. /\ heap[c] = "live" /\ ~Buried(c)
          /\ \A u \in Thread : c \notin Removed(u)
          /\ tag[c] # NoThread => pc[tag[c]] = "publish" /\ c \in newMemoryList[tag[c]]
      BY <2>3 DEF PlacesInv, LinkedInv
    <3>2. c \notin Copies(t) /\ tag[c] \in Thread \cup {NoThread}
      BY <1>5, <1>6, <2>1, <2>3 DEF TypeOK, Types
    <3> QED
      BY <1>1, <1>2, <1>3, <1>4, <2>1, <3>1, <3>2
  <2> QED
    BY <2>1, <2>2, <2>3
<1>16. RemovedInv'
  <2> SUFFICES ASSUME NEW u \in Thread, NEW c \in Cell, c \notin misdeleted',
                      c \in Removed(u)'
               PROVE  /\ heap'[c] = "live" /\ ~Buried(c)'
                      /\ \A w \in Thread \ {u} : c \notin Removed(w)'
    BY DEF RemovedInv
  <2>1. CASE u = t
    <3>1. c \in deletedMemoryList[t] /\ c \notin Copies(t)
      BY <1>3, <1>9, <2>1
    <3>2. /\ heap[c] = "live" /\ ~Buried(c)
          /\ \A w \in Thread : c \notin Removed(w)
      BY <1>5, <1>7, <3>1 DEF PlacesInv, LinkedInv
    <3> QED
      BY <1>2, <1>3, <1>4, <2>1, <3>1, <3>2
  <2>2. CASE u # t
    <3>1. c \in Removed(u) /\ c \notin misdeleted
      BY <1>1, <1>3, <2>2
    <3>2. c \notin Private(t) /\ c \notin linked
      BY <1>5, <3>1 DEF PlacesInv, LinkedInv
    <3> QED
      BY <1>2, <1>3, <1>4, <1>6, <1>7, <2>2, <3>1, <3>2 DEF PlacesInv, RemovedInv
  <2> QED
    BY <2>1, <2>2
<1>17. BuriedInv'
  BY <1>1, <1>2, <1>5, <1>6 DEF PlacesInv, BuriedInv, Buried
<1>18. HoldsInv'
  <2> SUFFICES ASSUME NEW u \in Thread, pc'[u] = "body", ~forcedToAbort'[u],
                      NEW c \in holds[u]
               PROVE  c \in linked' \cup Private(u)
    BY <1>1, <1>3 DEF HoldsInv
  <2>1. u # t /\ pc[u] = "body"
    BY <1>1
  <2>2. u \in transactionsInFlight
    BY <2>1 DEF TypeOK, BodiesHaveLists
  <2>3. ~forcedToAbort[u] /\ ~rewired[t]
    BY <2>1, <2>2 DEF Commit
  <2>4. newMemoryList[t] = {} /\ deletedMemoryList[t] = {}
    BY <1>1, <2>3 DEF PlacesInv, ListsInv
  <2>5. linked' = linked
    BY <1>1, <2>4 DEF Leaving
  <2> QED
    BY <2>1, <2>3, <2>5 DEF PlacesInv, HoldsInv
<1>19. PlaceInv'
  <2> SUFFICES ASSUME NEW c \in Cell, c \notin misdeleted', heap'[c] = "live",
                      ~Buried(c), \A u \in Thread : c \notin Owed(u)'
               PROVE  c \in linked'
    BY <1>4 DEF PlaceInv
  <2>1. c \notin Copies(t) /\ heap[c] = "live" /\ c \notin misdeleted
    BY <1>1, <1>2
  <2>2. c \in linked \/ \E u \in Thread : c \in Owed(u)
    BY <2>1 DEF PlacesInv, PlaceInv
  <2>3. c \in linked \cup newMemoryList[t]
    BY <1>3, <1>6, <2>1, <2>2
  <2>4. c \notin Leaving(t)
    BY <1>3, <1>10
  <2> QED
    BY <1>1, <2>3, <2>4
<1> QED
  BY <1>11, <1>12, <1>13, <1>14, <1>15, <1>16, <1>17, <1>18, <1>19 DEF PlacesInv

LEMMA PublishPlaces ==
  ASSUME TypeOK, PlacesInv, NEW t \in Thread, Publish(t)
  PROVE  PlacesInv'
<1>1. /\ UNCHANGED <<heap, linked, deletionBuffer, misdeleted, forcedToAbort,
                     deletedMemoryList>>
      /\ pc[t] = "publish" /\ pc'[t] = "bury"
      /\ newMemoryList'[t] = {} /\ holds'[t] = {} /\ Copies(t)' = {}
      /\ ~rewired'[t]
      /\ \A u \in Thread \ {t} :
           /\ newMemoryList'[u] = newMemoryList[u] /\ holds'[u] = holds[u]
           /\ Copies(u)' = Copies(u) /\ rewired'[u] = rewired[u]
           /\ pc'[u] = pc[u]
  BY ClearEffect DEF Publish, Goto, txVars, history, TypeOK, Types
<1>2. \A c \in Cell : tag'[c] = IF c \in newMemoryList[t] THEN NoThread ELSE tag[c]
  BY DEF Publish
<1>3. /\ Private(t)' = {}
      /\ \A u \in Thread : Removed(u)' = Removed(u) /\ Owed(u)' = Owed(u)
      /\ \A u \in Thread \ {t} : Private(u)' = Private(u)
  BY <1>1 DEF Private, Removed, Owed
<1>4. \A c \in Cell : Buried(c)' = Buried(c)
  BY <1>1 DEF Buried
<1>5. \A c \in newMemoryList[t] : tag[c] = t
  BY DEF PlacesInv, TagInv
<1>6. ListsInv'
  BY <1>1, <1>3 DEF PlacesInv, ListsInv
<1>7. UnusedInv'
  BY <1>1, <1>3, <1>4 DEF PlacesInv, UnusedInv
<1>8. PrivateInv'
  <2> SUFFICES ASSUME NEW u \in Thread, pc'[u] = "body", NEW c \in Private(u)'
               PROVE  /\ heap[c] = "live" /\ tag'[c] = u
                      /\ c \notin linked /\ ~Buried(c)'
                      /\ \A w \in Thread : c \notin Removed(w)' /\ (w # u => c \notin holds'[w])
    BY <1>1 DEF PrivateInv
  <2>1. u # t /\ c \in Private(u) /\ c \in Cell /\ pc[u] = "body"
    BY <1>1, <1>3, PrivateCells
  <2>2. tag[c] = u
    BY <2>1 DEF PlacesInv, PrivateInv
  <2> QED
    BY <1>1, <1>2, <1>3, <1>4, <1>5, <2>1, <2>2 DEF PlacesInv, PrivateInv
<1>9. TagInv'
  <2> SUFFICES ASSUME NEW u \in Thread, NEW c \in newMemoryList'[u]
               PROVE  tag'[c] = u
    BY DEF TagInv
  <2>1. u # t /\ c \in newMemoryList[u] /\ c \in Cell
    BY <1>1 DEF TypeOK, Types
  <2> QED
    BY <1>2, <1>5, <2>1 DEF PlacesInv, TagInv
<1>10. LinkedInv'
  <2> SUFFICES ASSUME NEW c \in linked
               PROVE  /\ heap[c] = "live" /\ ~Buried(c)'
                      /\ \A u \in Thread : c \notin Removed(u)'
                      /\ tag'[c] # NoThread =>
                           pc'[tag'[c]] = "publish" /\ c \in newMemoryList'[tag'[c]]
    BY <1>1 DEF LinkedInv
  <2>1. c \in Cell /\ tag[c] \in Thread \cup {NoThread}
    BY DEF TypeOK, Types
  <2>2. /\ heap[c] = "live" /\ ~Buried(c)
        /\ \A u \in Thread : c \notin Removed(u)
        /\ tag[c] # NoThread => pc[tag[c]] = "publish" /\ c \in newMemoryList[tag[c]]
    BY DEF PlacesInv, LinkedInv
  <2>3. tag'[c] # NoThread => tag'[c] = tag[c] /\ tag[c] # t
    BY <1>2, <2>1, <2>2
  <2> QED
    BY <1>1, <1>3, <1>4, <2>1, <2>2, <2>3
<1>11. RemovedInv'
  BY <1>1, <1>3, <1>4 DEF PlacesInv, RemovedInv
<1>12. BuriedInv'
  BY <1>1 DEF PlacesInv, BuriedInv
<1>13. HoldsInv'
  BY <1>1, <1>3 DEF PlacesInv, HoldsInv
<1>14. PlaceInv'
  BY <1>1, <1>3, <1>4 DEF PlacesInv, PlaceInv
<1> QED
  BY <1>6, <1>7, <1>8, <1>9, <1>10, <1>11, <1>12, <1>13, <1>14 DEF PlacesInv

LEMMA BuryPlaces ==
  ASSUME TypeOK, PlacesInv, NEW t \in Thread, Bury(t)
  PROVE  PlacesInv'
<1>1. /\ UNCHANGED <<heap, tag, linked, misdeleted, forcedToAbort, newMemoryList,
                     holds, rewired>>
      /\ \A u \in Thread : Copies(u)' = Copies(u)
      /\ pc[t] = "bury" /\ pc'[t] = "out" /\ deletedMemoryList'[t] = {}
      /\ \A u \in Thread \ {t} :
           pc'[u] = pc[u] /\ deletedMemoryList'[u] = deletedMemoryList[u]
  BY CopiesEffect DEF Bury, Goto, txVars, history, TypeOK, Types
<1> DEFINE entry == [time |-> clock, cells |-> deletedMemoryList[t]]
<1>2. /\ entry.cells = deletedMemoryList[t]
      /\ \/ deletionBuffer' = deletionBuffer /\ deletedMemoryList[t] = {}
         \/ deletionBuffer' = deletionBuffer \cup {entry}
  BY DEF Bury
<1> HIDE DEF entry
<1>3. \A c \in Cell : Buried(c)' <=> Buried(c) \/ c \in deletedMemoryList[t]
  BY <1>2 DEF Buried
<1>4. /\ Removed(t) = deletedMemoryList[t] /\ Removed(t)' = {}
      /\ Owed(t) = deletedMemoryList[t]
      /\ \A u \in Thread : Private(u)' = Private(u)
      /\ \A u \in Thread \ {t} : Removed(u)' = Removed(u) /\ Owed(u)' = Owed(u)
  BY <1>1 DEF Private, Removed, Owed
<1>5. ListsInv'
  BY <1>1, <1>4 DEF PlacesInv, ListsInv
<1>6. UnusedInv'
  BY <1>1, <1>3, <1>4 DEF PlacesInv, UnusedInv
<1>7. PrivateInv'
  BY <1>1, <1>3, <1>4, PrivateCells DEF PlacesInv, PrivateInv
<1>8. TagInv'
  BY <1>1 DEF PlacesInv, TagInv
<1>9. LinkedInv'
  <2>1. \A c \in linked : tag[c] \in Thread \cup {NoThread} /\ c \in Cell
    BY DEF TypeOK, Types
  <2> QED
    BY <1>1, <1>3, <1>4, <2>1 DEF PlacesInv, LinkedInv
<1>10. RemovedInv'
  BY <1>1, <1>3, <1>4 DEF PlacesInv, RemovedInv
<1>11. BuriedInv'
  <2> SUFFICES ASSUME NEW c \in Cell, c \notin misdeleted,
                      NEW b \in deletionBuffer', NEW d \in deletionBuffer',
                      c \in b.cells
               PROVE  heap[c] = "live" /\ (c \in d.cells => b = d)
    BY <1>1 DEF BuriedInv
  <2>1. CASE c \in deletedMemoryList[t]
    <3>1. heap[c] = "live" /\ ~Buried(c)
      BY <1>4, <2>1 DEF PlacesInv, RemovedInv
    <3>2. \A e \in deletionBuffer' : c \in e.cells => e = entry
      BY <1>2, <3>1 DEF Buried
    <3> QED
      BY <3>1, <3>2
  <2>2. CASE c \notin deletedMemoryList[t]
    <3>1. \A e \in deletionBuffer' : c \in e.cells => e \in deletionBuffer
      BY <1>2, <2>2
    <3> QED
      BY <3>1 DEF PlacesInv, BuriedInv
  <2> QED
    BY <2>1, <2>2
<1>12. HoldsInv'
  BY <1>1, <1>4 DEF PlacesInv, HoldsInv
<1>13. PlaceInv'
  BY <1>1, <1>3, <1>4 DEF PlacesInv, PlaceInv
<1> QED
  BY <1>5, <1>6, <1>7, <1>8, <1>9, <1>10, <1>11, <1>12, <1>13 DEF PlacesInv

LEMMA PlacesInit == Init => PlacesInv
<1> SUFFICES ASSUME Init PROVE PlacesInv
  OBVIOUS
<1>1. TypeOK /\ ListsInv
  BY TypeInit
<1>2. \A t \in Thread : Private(t) = {} /\ holds[t] = {} /\ deletedMemoryList[t] = {}
                        /\ Removed(t) = {} /\ newMemoryList[t] = {}
  BY <1>1 DEF TypeOK, BodiesHaveLists, Private, Removed, Init
<1>3. \A c \in Cell : ~Buried(c)
  BY DEF Init, Buried
<1> QED
  BY <1>1, <1>2, <1>3 DEF PlacesInv, Init, UnusedInv, PrivateInv, TagInv,
     LinkedInv, RemovedInv, BuriedInv, HoldsInv, PlaceInv

LEMMA PlacesStep == TypeOK /\ PlacesInv /\ [Next]_vars => PlacesInv'
<1> SUFFICES ASSUME TypeOK, PlacesInv, [Next]_vars
             PROVE  PlacesInv'
  OBVIOUS
<1>1. CASE Thread = {}
  <2>1. UNCHANGED <<heap, tag, linked, deletionBuffer, lists, misdeleted>>
    BY <1>1 DEF Next, Tick, vars, history
  <2> QED
    BY <1>1, <2>1 DEF PlacesInv, ListsInv, UnusedInv, PrivateInv, TagInv,
       LinkedInv, RemovedInv, BuriedInv, HoldsInv, PlaceInv, Buried, TypeOK, Types
<1>2. ASSUME NEW t \in Thread, UNCHANGED vars \/ Tick
      PROVE  PlacesInv'
  BY <1>2, QuietPlaces DEF vars, Tick, txVars, history
<1>3. ASSUME NEW t \in Thread, Construct(t) \/ Scan(t) \/ Enter(t)
      PROVE  PlacesInv'
  BY <1>3, QuietPlaces DEF Construct, Scan, Enter, PutInFlight, Goto, txVars,
     history
<1> QED
  BY <1>1, <1>2, <1>3, SweepPlaces, ReachPlaces, NewPlaces, DeletePlaces,
     WritePlaces, AbortPlaces, CommitPlaces, PublishPlaces, BuryPlaces DEF Next

(* The types, and the lists of a thread that runs no transaction are empty. *)
THEOREM TypeCorrect == Spec => []TypeOK
<1>1. Init => TypeOK /\ PlacesInv
  BY TypeInit, PlacesInit
<1>2. TypeOK /\ PlacesInv /\ [Next]_vars => (TypeOK /\ PlacesInv)'
  BY TypeStep, PlacesStep DEF PlacesInv
<1> QED
  BY <1>1, <1>2, PTL DEF Spec

(* Every cell is where the lists and the buffer say, and only there.        *)
THEOREM PlacesCorrect == Spec => []PlacesInv
<1>1. Init => PlacesInv
  BY PlacesInit
<1>2. TypeOK /\ PlacesInv /\ [Next]_vars => PlacesInv'
  BY PlacesStep
<1> QED
  BY <1>1, <1>2, TypeCorrect, PTL DEF Spec

(* What the structure links was not freed, and only a commit that is still  *)
(* in its critical section leaves a tag on it.                              *)
THEOREM LinkedIsSharedCorrect == Spec => []LinkedIsShared
<1>1. PlacesInv => LinkedIsShared
  BY DEF PlacesInv, LinkedInv, LinkedIsShared
<1> QED
  BY <1>1, PlacesCorrect, PTL

-----------------------------------------------------------------------------
(* What is freed, and when.                                                 *)

(* A set whose members are all the same one.                                *)
LEMMA OnePlace ==
  ASSUME NEW S, NEW e, e \in S, \A d \in S : d = e
  PROVE  Cardinality(S) = 1
<1>1. S = {e}
  OBVIOUS
<1> QED
  BY <1>1, FS_Singleton

LEMMA PlacesCount == TypeOK /\ PlacesInv => FreedOnce
<1> SUFFICES ASSUME TypeOK, PlacesInv, NEW c \in Cell, c \notin misdeleted
             PROVE  Cardinality({b \in deletionBuffer : c \in b.cells})
                      + Cardinality({t \in Thread : c \in Owed(t)})
                      + (IF c \in linked THEN 1 ELSE 0)
                    = (IF heap[c] = "live" THEN 1 ELSE 0)
  BY DEF FreedOnce
<1> DEFINE buried == {b \in deletionBuffer : c \in b.cells}
           owing == {t \in Thread : c \in Owed(t)}
<1>1. c \in linked => heap[c] = "live" /\ ~Buried(c) /\ owing = {}
  <2>1. \A t \in Thread : c \in Owed(t) => c \in Removed(t)
                                           \/ (pc[t] = "body" /\ c \in Private(t))
    BY DEF Owed, Removed, Private, TypeOK, Types, BodiesHaveLists, Location
  <2> QED
    BY <2>1 DEF PlacesInv, LinkedInv, PrivateInv
<1>2. \A t \in owing :
        heap[c] = "live" /\ ~Buried(c) /\ \A u \in owing : u = t
  <2>1. \A t \in owing : c \in Removed(t) \/ (pc[t] = "body" /\ c \in Private(t))
    BY DEF Owed, Removed, Private, TypeOK, Types, BodiesHaveLists, Location
  <2> QED
    BY <2>1 DEF PlacesInv, PrivateInv, RemovedInv
<1>3. \A b \in buried : heap[c] = "live" /\ \A d \in buried : d = b
  BY DEF PlacesInv, BuriedInv
<1>4. CASE buried # {}
  <2>1. Cardinality(buried) = 1 /\ heap[c] = "live"
    BY <1>3, <1>4, OnePlace
  <2>2. owing = {} /\ c \notin linked
    BY <1>1, <1>2, <1>4 DEF Buried
  <2>3. Cardinality(owing) = 0
    BY <2>2, FS_EmptySet
  <2> HIDE DEF buried, owing
  <2>4. Cardinality(buried) + Cardinality(owing) + (IF c \in linked THEN 1 ELSE 0)
          = (IF heap[c] = "live" THEN 1 ELSE 0)
    BY <2>1, <2>2, <2>3
  <2> QED
    BY <2>4 DEF buried, owing
<1>5. CASE buried = {} /\ owing # {}
  <2>1. Cardinality(owing) = 1 /\ heap[c] = "live"
    BY <1>2, <1>5, OnePlace
  <2>2. c \notin linked
    BY <1>1, <1>5
  <2>3. Cardinality(buried) = 0
    BY <1>5, FS_EmptySet
  <2> HIDE DEF buried, owing
  <2>4. Cardinality(buried) + Cardinality(owing) + (IF c \in linked THEN 1 ELSE 0)
          = (IF heap[c] = "live" THEN 1 ELSE 0)
    BY <2>1, <2>2, <2>3
  <2> QED
    BY <2>4 DEF buried, owing
<1>6. CASE buried = {} /\ owing = {}
  <2>1. heap[c] = "live" <=> c \in linked
    BY <1>1, <1>6 DEF PlacesInv, PlaceInv, Buried
  <2>2. Cardinality(buried) = 0 /\ Cardinality(owing) = 0
    BY <1>6, FS_EmptySet
  <2> HIDE DEF buried, owing
  <2>3. Cardinality(buried) + Cardinality(owing) + (IF c \in linked THEN 1 ELSE 0)
          = (IF heap[c] = "live" THEN 1 ELSE 0)
    BY <2>1, <2>2
  <2> QED
    BY <2>3 DEF buried, owing
<1> QED
  BY <1>4, <1>5, <1>6

(* Between them, aborts, commits and sweeps owe every cell that is there to *)
(* one of them, once, and they owe nothing that is not there.               *)
THEOREM FreedOnceCorrect == Spec => []FreedOnce
  BY PlacesCount, TypeCorrect, PlacesCorrect, PTL

LEMMA StartStep == TypeOK /\ StartInv /\ [Next]_vars => StartInv'
<1> SUFFICES ASSUME TypeOK, StartInv, [Next]_vars, NEW t \in Thread
             PROVE  startTime'[t] <= clock'
  BY DEF StartInv
<1>1. startTime[t] <= clock /\ startTime[t] \in Nat /\ clock \in Nat
  BY MemoryAssumption DEF StartInv, TypeOK, Types, Time
<1>2. CASE UNCHANGED vars \/ Tick
  BY <1>1, <1>2 DEF vars, Tick, txVars
<1>3. ASSUME NEW u \in Thread, Construct(u)
      PROVE  startTime'[t] <= clock'
  BY <1>1, <1>3 DEF Construct, TypeOK, Types
<1>4. ASSUME NEW u \in Thread,
             \/ Scan(u) \/ Sweep(u) \/ Enter(u) \/ Abort(u) \/ Commit(u)
             \/ Publish(u) \/ Bury(u)
             \/ \E c \in Cell : Reach(u, c) \/ New(u, c) \/ Delete(u, c)
             \/ \E x, c \in Cell : Write(u, x, c)
      PROVE  UNCHANGED <<startTime, clock>>
  BY <1>4 DEF Scan, Sweep, Enter, Abort, Commit, Publish, Bury, Reach, New,
     Delete, Write, txVars
<1> QED
  BY <1>1, <1>2, <1>3, <1>4 DEF Next

(* A reference is to a cell that is not buried yet when it is made.         *)
LEMMA HeldStep ==
  TypeOK /\ PlacesInv /\ StartInv /\ HeldInv /\ [Next]_vars => HeldInv'
<1> SUFFICES ASSUME TypeOK, PlacesInv, StartInv, HeldInv, [Next]_vars,
                    NEW t \in Thread, NEW b \in deletionBuffer',
                    NEW c \in b.cells, c \in holds'[t]
             PROVE  startTime'[t] <= b.time
  BY DEF HeldInv
<1>1. startTime[t] <= clock
  BY DEF StartInv
<1>2. b \in deletionBuffer /\ c \in holds[t] => startTime[t] <= b.time
  BY DEF HeldInv
<1>3. b \in deletionBuffer => Buried(c)
  BY DEF Buried
<1>4. CASE UNCHANGED vars \/ Tick
  BY <1>2, <1>4 DEF vars, Tick, txVars, lists
<1>5. ASSUME NEW u \in Thread, Construct(u)
      PROVE  startTime'[t] <= b.time
  <2>1. holds[u] = {}
    BY <1>5 DEF Construct, TypeOK, BodiesHaveLists
  <2> QED
    BY <1>2, <1>5, <2>1 DEF Construct, lists, TypeOK, Types
<1>6. ASSUME NEW u \in Thread,
             \/ Scan(u) \/ Sweep(u) \/ Enter(u) \/ Commit(u)
             \/ \E x \in Cell : Delete(u, x)
      PROVE  startTime'[t] <= b.time
  <2>1. UNCHANGED <<startTime, holds>> /\ deletionBuffer' \subseteq deletionBuffer
    BY <1>6 DEF Scan, Sweep, Enter, Commit, Delete, txVars, lists
  <2> QED
    BY <1>2, <2>1
<1>7. ASSUME NEW u \in Thread, Abort(u) \/ Publish(u)
      PROVE  startTime'[t] <= b.time
  <2>1. UNCHANGED <<startTime, deletionBuffer>> /\ holds'[t] \subseteq holds[t]
    BY <1>7, ClearEffect DEF Abort, Publish, txVars
  <2> QED
    BY <1>2, <2>1
<1>8. ASSUME NEW u \in Thread, Bury(u)
      PROVE  startTime'[t] <= b.time
  <2>1. UNCHANGED <<startTime, holds>>
    BY <1>8 DEF Bury, txVars
  <2>2. b \in deletionBuffer \/ b.time = clock
    BY <1>8 DEF Bury
  <2> QED
    BY <1>1, <1>2, <2>1, <2>2
<1>9. ASSUME NEW u \in Thread, NEW x \in Cell, Reach(u, x)
      PROVE  startTime'[t] <= b.time
  <2>1. UNCHANGED <<startTime, deletionBuffer>>
    BY <1>9 DEF Reach, txVars
  <2>2. c \in holds[t] \/ c = IF copyOf[u][x] = NoCell THEN x ELSE copyOf[u][x]
    BY <1>9 DEF Reach, TypeOK, Types
  <2>3. copyOf[u][x] # NoCell => copyOf[u][x] \in Private(u)
    BY <1>9 DEF Private, Copies
  <2>4. c \in holds[t] \/ c \in linked \/ c \in Private(u)
    BY <1>9, <2>2, <2>3 DEF Reach
  <2>5. c \in holds[t]
    BY <1>3, <1>9, <2>1, <2>4 DEF Reach, PlacesInv, LinkedInv, PrivateInv
  <2> QED
    BY <1>2, <2>1, <2>5
<1>10. ASSUME NEW u \in Thread, NEW d \in Cell,
              New(u, d) \/ \E x \in Cell : Write(u, x, d)
       PROVE  startTime'[t] <= b.time
  <2>1. UNCHANGED <<startTime, deletionBuffer>> /\ heap[d] = "unused"
    BY <1>10 DEF New, Write, txVars
  <2>2. c \in holds[t] \/ c = d
    BY <1>10 DEF New, Write, TypeOK, Types
  <2>3. c \in holds[t]
    BY <1>3, <2>1, <2>2 DEF PlacesInv, UnusedInv
  <2> QED
    BY <1>2, <2>1, <2>3
<1> QED
  BY <1>4, <1>5, <1>6, <1>7, <1>8, <1>9, <1>10 DEF Next

LEMMA ScanStep == TypeOK /\ ScanInv /\ [Next]_vars => ScanInv'
<1> SUFFICES ASSUME TypeOK, ScanInv, [Next]_vars, NEW s \in Thread,
                    NEW t \in transactionsInFlight', pc'[s] = "sweep",
                    t \notin late'[s]
             PROVE  earliest'[s] <= startTime'[t]
  BY DEF ScanInv
<1>1. t \in transactionsInFlight /\ pc[s] = "sweep" /\ t \notin late[s]
        => earliest[s] <= startTime[t]
  BY DEF ScanInv
<1> USE DEF TypeOK, Types, Goto, txVars, lists, history
<1>2. CASE UNCHANGED vars \/ Tick
  BY <1>1, <1>2 DEF vars, Tick
<1>3. ASSUME NEW u \in Thread, Construct(u)
      PROVE  earliest'[s] <= startTime'[t]
  <2>1. t # u /\ s # u
    BY <1>3 DEF Construct, BodiesHaveLists
  <2> QED
    BY <1>1, <1>3, <2>1 DEF Construct
<1>4. ASSUME NEW u \in Thread, Scan(u)
      PROVE  earliest'[s] <= startTime'[t]
  BY <1>1, <1>4 DEF Scan
<1>5. ASSUME NEW u \in Thread, Sweep(u)
      PROVE  earliest'[s] <= startTime'[t]
  BY <1>1, <1>5 DEF Sweep
<1>6. ASSUME NEW u \in Thread, Enter(u)
      PROVE  earliest'[s] <= startTime'[t]
  BY <1>1, <1>6 DEF Enter, PutInFlight
<1>7. ASSUME NEW u \in Thread,
             \/ Abort(u) \/ Commit(u) \/ Publish(u) \/ Bury(u)
             \/ \E c \in Cell : Reach(u, c) \/ New(u, c) \/ Delete(u, c)
             \/ \E x, c \in Cell : Write(u, x, c)
      PROVE  earliest'[s] <= startTime'[t]
  <2>1. /\ UNCHANGED <<earliest, startTime, late>>
        /\ transactionsInFlight' \subseteq transactionsInFlight
    BY <1>7 DEF Abort, Commit, Publish, Bury, Reach, New, Delete, Write
  <2>2. pc[s] = "sweep"
    BY <1>7 DEF Abort, Commit, Publish, Bury, Reach, New, Delete, Write
  <2> QED
    BY <1>1, <2>1, <2>2
<1> HIDE DEF TypeOK, Types, Goto, txVars, lists, history
<1> QED
  BY <1>2, <1>3, <1>4, <1>5, <1>6, <1>7 DEF Next

(* Who was in flight at a scan started no earlier than the scan says, and   *)
(* what a transaction holds was buried after its start.                     *)
THEOREM TimeCorrect == Spec => []TimeInv
<1>1. Init => TimeInv
  BY DEF Init, TimeInv, StartInv, HeldInv, ScanInv
<1>2. TypeOK /\ PlacesInv /\ TimeInv /\ [Next]_vars => TimeInv'
  BY StartStep, HeldStep, ScanStep DEF TimeInv
<1> QED
  BY <1>1, <1>2, TypeCorrect, PlacesCorrect, PTL DEF Spec

(* Who frees a cell.                                                        *)
LEMMA FreeingStep ==
  ASSUME TypeOK, PlacesInv, [Next]_vars, NEW c \in Cell, heap[c] = "live",
         heap'[c] = "freed"
  PROVE  \E u \in Thread :
           \/ Sweep(u) /\ \E b \in Due(u) : c \in b.cells
           \/ u \notin transactionsInFlight' /\ pc[u] = "body" /\ c \in Private(u)
<1>1. ASSUME NEW u \in Thread, Sweep(u)
      PROVE  \E b \in Due(u) : c \in b.cells
  BY <1>1 DEF Sweep, Free
<1>2. ASSUME NEW u \in Thread, Abort(u) \/ Commit(u)
      PROVE  u \notin transactionsInFlight' /\ pc[u] = "body" /\ c \in Private(u)
  BY <1>2 DEF Abort, Commit, Free, Private
<1>3. ASSUME NEW u \in Thread,
             \/ Construct(u) \/ Scan(u) \/ Enter(u) \/ Publish(u) \/ Bury(u)
             \/ \E x \in Cell : Reach(u, x) \/ Delete(u, x)
      PROVE  FALSE
  BY <1>3 DEF Construct, Scan, Enter, Publish, Bury, Reach, Delete
<1>4. ASSUME NEW u \in Thread, NEW d \in Cell,
             New(u, d) \/ \E x \in Cell : Write(u, x, d)
      PROVE  FALSE
  BY <1>4 DEF New, Write, TypeOK, Types
<1>5. CASE UNCHANGED vars \/ Tick
  BY <1>5 DEF vars, Tick
<1> QED
  BY <1>1, <1>2, <1>3, <1>4, <1>5 DEF Next

(* The deletion buffer frees nothing under a transaction that its scan has  *)
(* seen, and neither do the aborts and commits of others.                   *)
THEOREM BufferProtectsCorrect == Spec => BufferProtects
<1> DEFINE Protects ==
      \A t \in transactionsInFlight \cap transactionsInFlight', c \in Cell :
        c \in holds[t] /\ heap[c] = "live" /\ heap'[c] = "freed"
          => \E s \in Thread : pc[s] = "sweep" /\ pc'[s] # "sweep" /\ t \in late[s]
<1>1. TypeOK /\ PlacesInv /\ TimeInv /\ [Next]_vars => [Protects]_vars
  <2> SUFFICES ASSUME TypeOK, PlacesInv, TimeInv, [Next]_vars,
                      NEW t \in transactionsInFlight, t \in transactionsInFlight',
                      NEW c \in Cell, c \in holds[t], heap[c] = "live",
                      heap'[c] = "freed"
               PROVE  \E s \in Thread :
                        pc[s] = "sweep" /\ pc'[s] # "sweep" /\ t \in late[s]
    OBVIOUS
  <2>1. t \in Thread
    BY DEF TypeOK, Types
  <2>2. \A u \in Thread : pc[u] = "body" /\ c \in Private(u) => u = t
    BY <2>1 DEF PlacesInv, PrivateInv
  <2>3. PICK s \in Thread : Sweep(s) /\ \E b \in Due(s) : c \in b.cells
    BY <2>2, FreeingStep
  <2>4. PICK b \in deletionBuffer : earliest[s] > b.time /\ c \in b.cells
    BY <2>3 DEF Due
  <2>5. startTime[t] <= b.time
    BY <2>1, <2>4 DEF TimeInv, HeldInv
  <2>6. startTime[t] \in Int /\ b.time \in Int /\ earliest[s] \in Int
    BY <2>1, <2>4, MemoryAssumption DEF TypeOK, Types, Time
  <2>7. ~(earliest[s] <= startTime[t])
    BY <2>4, <2>5, <2>6
  <2>8. pc[s] = "sweep" /\ pc'[s] # "sweep"
    BY <2>3 DEF Sweep, Goto, TypeOK, Types
  <2> QED
    BY <2>7, <2>8 DEF TimeInv, ScanInv
<1>2. BufferProtects <=> [][Protects]_vars
  BY PTL DEF BufferProtects
<1> HIDE DEF Protects
<1> QED
  BY <1>1, <1>2, TypeCorrect, PlacesCorrect, TimeCorrect, PTL DEF Spec
=============================================================================
