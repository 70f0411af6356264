--------------------------- MODULE Ingestion_proofs ---------------------------
(***************************************************************************)
(* Safety of module Ingestion for every number of deliveries, chunks and   *)
(* faults.                                                                 *)
(***************************************************************************)
EXTENDS Ingestion, TLAPS

\* A delivery that was never disturbed is the only one at work, starts from the
\* first chunk, and has so far inserted all the chunks there are.
CleanInv ==
    \A j \in Jobs :
      /\ pc[j] \in {"loaded", "preparing", "deleting"} => index[j] = 0
      /\ clean[j] =>
            /\ pc[j] \notin {"failing", "error"}
            /\ Working(j) => \A k \in Jobs \ {j} : ~Working(k)
            /\ pc[j] = "inserting" => chunks = {[index |-> i, by |-> j] : i \in 0..(index[j] - 1)}

\* Deliveries that have deleted.
Begun == \E j \in Jobs : pc[j] \in {"inserting", "failing", "ready", "error"}

\* Delivery j will come to chunk i without meeting a chunk of another one.
WillReach(j, i) ==
    /\ pc[j] = "inserting" /\ index[j] <= i
    /\ \A m \in index[j]..i : ~Stored(m)

\* Without faults: from the first delete on somebody will reach each missing
\* chunk, and whoever inserted the last one reports the file as ready.
FrontierInv ==
    faults = 0 =>
      /\ Begun => \A i \in AllIndexes : Stored(i) \/ \E j \in Jobs : WillReach(j, i)
      /\ \A c \in chunks : c.index = NChunks - 1 =>
            count = NChunks \/ (pc[c.by] = "inserting" /\ index[c.by] = NChunks)

IInv == TypeOK /\ CleanInv /\ FrontierInv

-----------------------------------------------------------------------------
LEMMA InitIInv == Init => IInv
BY IngestionAssumption DEF Init, IInv, TypeOK, CleanInv, FrontierInv, Working, Begun, AllIndexes

\* The types of a state and of its successor, and the uniqueness of an index.
LEMMA StepKeepsTypes ==
    ASSUME TypeOK, [Next]_vars
    PROVE  TypeOK'
<1> USE IngestionAssumption DEF TypeOK, Goto, AllIndexes, Faulty
<1>1. ASSUME NEW j \in Jobs, Deliver(j)  PROVE TypeOK'
  <2>1. clean' \in [Jobs -> BOOLEAN]
    BY <1>1, Zenon DEF Deliver
  <2> QED  BY <1>1, <2>1 DEF Deliver
<1>2. ASSUME NEW j \in Jobs, SetProcessing(j)  PROVE TypeOK'
  BY <1>2 DEF SetProcessing
<1>3. ASSUME NEW j \in Jobs, Prepare(j) \/ DeleteAll(j)  PROVE TypeOK'
  BY <1>3 DEF Prepare, DeleteAll
<1>4. ASSUME NEW j \in Jobs, Insert(j)  PROVE TypeOK'
  BY <1>4 DEF Insert, Stored
<1>5. ASSUME NEW j \in Jobs, InsertConflicts(j) \/ Finish(j) \/ Fail(j)  PROVE TypeOK'
  BY <1>5 DEF InsertConflicts, Finish, Fail
<1>6. ASSUME NEW j \in Jobs, StepFails(j) \/ Lost(j)  PROVE TypeOK'
  <2>1. clean' \in [Jobs -> BOOLEAN]
    BY <1>6, Zenon DEF StepFails, Lost
  <2>2. UNCHANGED <<status, count, chunks, index>> /\ faults' \in Nat
    BY <1>6 DEF StepFails, Lost
  <2>3. pc' \in [Jobs -> {"queued", "loaded", "preparing", "deleting", "inserting",
                         "failing", "ready", "error"}]
    BY <1>6 DEF StepFails, Lost
  <2> QED  BY <2>1, <2>2, <2>3
<1>7. CASE UNCHANGED vars  BY <1>7 DEF vars
<1> QED  BY <1>1, <1>2, <1>3, <1>4, <1>5, <1>6, <1>7 DEF Next, Step

\* A step keeps an undisturbed delivery alone, and its chunks the only ones.
LEMMA StepKeepsClean ==
    ASSUME TypeOK, TypeOK', CleanInv, [Next]_vars
    PROVE  CleanInv'
<1> USE IngestionAssumption DEF TypeOK, CleanInv, Goto, AllIndexes, Faulty, Working
<1>1. ASSUME NEW j \in Jobs, Deliver(j)  PROVE CleanInv'
  BY <1>1 DEF Deliver
<1>2. ASSUME NEW j \in Jobs, SetProcessing(j)  PROVE CleanInv'
  BY <1>2 DEF SetProcessing
<1>3. ASSUME NEW j \in Jobs, Prepare(j)  PROVE CleanInv'
  BY <1>3 DEF Prepare
<1>4. ASSUME NEW j \in Jobs, DeleteAll(j)  PROVE CleanInv'
  BY <1>4 DEF DeleteAll
<1>5. ASSUME NEW j \in Jobs, Insert(j)  PROVE CleanInv'
  <2> SUFFICES ASSUME NEW k \in Jobs, clean[k], pc[k] = "inserting"
               PROVE  chunks' = {[index |-> i, by |-> k] : i \in 0..(index'[k] - 1)}
    BY <1>5 DEF Insert
  <2>1. k = j
    BY <1>5 DEF Insert
  <2>2. 0..(index'[j] - 1) = 0..(index[j] - 1) \cup {index[j]}
    BY <1>5 DEF Insert
  <2>3. chunks = {[index |-> i, by |-> j] : i \in 0..(index[j] - 1)}
    BY <2>1
  <2> QED  BY <1>5, <2>1, <2>2, <2>3 DEF Insert
<1>6. ASSUME NEW j \in Jobs, InsertConflicts(j)  PROVE CleanInv'
  BY <1>6 DEF InsertConflicts, Stored
<1>7. ASSUME NEW j \in Jobs, Finish(j)  PROVE CleanInv'
  BY <1>7 DEF Finish
<1>8. ASSUME NEW j \in Jobs, Fail(j)  PROVE CleanInv'
  BY <1>8 DEF Fail
<1>9. ASSUME NEW j \in Jobs, StepFails(j) \/ Lost(j)  PROVE CleanInv'
  BY <1>9 DEF StepFails, Lost
<1>10. CASE UNCHANGED vars  BY <1>10 DEF vars
<1> QED
  BY <1>1, <1>2, <1>3, <1>4, <1>5, <1>6, <1>7, <1>8, <1>9, <1>10 DEF Next, Step

\* A step that is no fault keeps somebody on the way to every missing chunk.
LEMMA StepKeepsFrontier ==
    ASSUME TypeOK, TypeOK', CleanInv, FrontierInv, [Next]_vars
    PROVE  FrontierInv'
<1> SUFFICES ASSUME faults' = 0 PROVE FrontierInv'
  BY DEF FrontierInv
<1> USE IngestionAssumption DEF TypeOK, FrontierInv, Goto, AllIndexes, Begun
<1>1. ASSUME NEW j \in Jobs, Deliver(j) \/ SetProcessing(j) \/ Prepare(j)  PROVE FrontierInv'
  BY <1>1 DEF Deliver, SetProcessing, Prepare, WillReach, Stored
<1>2. ASSUME NEW j \in Jobs, DeleteAll(j)  PROVE FrontierInv'
  <2>1. chunks' = {} /\ pc'[j] = "inserting"
    BY <1>2 DEF DeleteAll
  <2>2. CASE index[j] = 0
    BY <1>2, <2>1, <2>2 DEF DeleteAll, WillReach, Stored
  <2> QED  BY <1>2, <2>2 DEF DeleteAll, CleanInv
<1>3. ASSUME NEW j \in Jobs, Insert(j)  PROVE FrontierInv'
  <2>1. \A m : Stored(m)' <=> Stored(m) \/ m = index[j]
    <3>1. chunks' = chunks \cup {[index |-> index[j], by |-> j]}
      BY <1>3 DEF Insert
    <3>2. [index |-> index[j], by |-> j].index = index[j]
      OBVIOUS
    <3> QED  BY <3>1, <3>2, Zenon DEF Stored
  <2>2. ASSUME NEW i \in AllIndexes, ~Stored(i)'  PROVE \E k \in Jobs : WillReach(k, i)'
    <3>1. PICK k \in Jobs : WillReach(k, i)
      BY <1>3, <2>1, <2>2 DEF Insert
    <3>2. index' = [index EXCEPT ![j] = @ + 1] /\ pc' = pc /\ pc[j] = "inserting"
      BY <1>3 DEF Insert
    <3>3. CASE k = j \/ index[j] \in index[k]..i
      <4>1. WillReach(j, i)'
        BY <2>1, <2>2, <3>1, <3>2, <3>3 DEF WillReach
      <4> QED  BY <4>1
    <3>4. CASE k # j /\ index[j] \notin index[k]..i
      <4>1. WillReach(k, i)'
        BY <2>1, <3>1, <3>2, <3>4 DEF WillReach
      <4> QED  BY <4>1
    <3> QED  BY <3>3, <3>4
  <2>3. ASSUME NEW c \in chunks', c.index = NChunks - 1
        PROVE  (count = NChunks \/ (pc[c.by] = "inserting" /\ index[c.by] = NChunks))'
    BY <1>3, <2>3 DEF Insert
  <2> QED  BY <2>2, <2>3
<1>4. ASSUME NEW j \in Jobs, InsertConflicts(j)  PROVE FrontierInv'
  BY <1>4 DEF InsertConflicts, WillReach, Stored
<1>5. ASSUME NEW j \in Jobs, Finish(j)  PROVE FrontierInv'
  BY <1>5 DEF Finish, WillReach, Stored
<1>6. ASSUME NEW j \in Jobs, Fail(j)  PROVE FrontierInv'
  BY <1>6 DEF Fail, WillReach, Stored
<1>7. ASSUME NEW j \in Jobs, StepFails(j) \/ Lost(j)  PROVE FALSE
  BY <1>7 DEF StepFails, Lost, Faulty
<1>8. CASE UNCHANGED vars  BY <1>8 DEF vars, WillReach, Stored
<1> QED  BY <1>1, <1>2, <1>3, <1>4, <1>5, <1>6, <1>7, <1>8 DEF Next, Step

\* The inductive invariant of the deliveries.
THEOREM Invariance == Spec => []IInv
<1>1. IInv /\ [Next]_vars => IInv'
  BY StepKeepsTypes, StepKeepsClean, StepKeepsFrontier DEF IInv
<1> QED  BY InitIInv, <1>1, PTL DEF Spec

(* The types of the state; no index is stored twice. *)
THEOREM TypeCorrect == Spec => []TypeOK
<1>1. IInv => TypeOK  BY DEF IInv
<1> QED  BY Invariance, <1>1, PTL

(* A delivery that runs alone does not fail, and the chunks of the file are its
   own, whatever earlier deliveries left behind. *)
THEOREM RedeliveryRepairsHolds == Spec => []RedeliveryRepairs
<1>1. IInv => RedeliveryRepairs  BY DEF IInv, CleanInv, RedeliveryRepairs
<1> QED  BY Invariance, <1>1, PTL

(* When the deliveries of a file have disturbed only each other, it ends with
   every chunk and with their count. *)
THEOREM SettledCompleteHolds == Spec => []SettledComplete
<1>1. IInv => SettledComplete
  <2> SUFFICES ASSUME IInv, Settled, faults = 0
               PROVE  Indexes = AllIndexes /\ count = NChunks
    BY DEF SettledComplete
  <2> USE IngestionAssumption DEF IInv, TypeOK
  <2>1. Begun
    BY DEF Settled, Begun
  <2>2. \A i \in AllIndexes : Stored(i)
    BY <2>1 DEF FrontierInv, WillReach, Settled
  <2>3. Indexes = AllIndexes
    BY <2>2 DEF Stored, Indexes
  <2>4. PICK c \in chunks : c.index = NChunks - 1
    BY <2>2 DEF Stored, AllIndexes
  <2>5. count = NChunks
    BY <2>4 DEF FrontierInv, Settled
  <2> QED  BY <2>3, <2>5
<1> QED  BY Invariance, <1>1, PTL

-----------------------------------------------------------------------------
(***************************************************************************)
(* Why the status settles.  As long as it is neither ready nor error a     *)
(* delivery is still to come or at work; and a delivery is at most         *)
(* Remaining(j) steps from its end, which only a fault can lengthen.       *)
(***************************************************************************)
StatusInv ==
    status \in {"ready", "error"} \/ \E j \in Jobs : pc[j] \notin {"ready", "error"}

(* A file whose deliveries have all been answered is ready or in error: whatever
   the last of them to write the status was, it is never left in processing. *)
THEOREM SettledStatus == Spec => [](Settled => status \in {"ready", "error"})
<1>1. Init => StatusInv
  BY IngestionAssumption DEF Init, StatusInv
<1>2. TypeOK /\ StatusInv /\ [Next]_vars => StatusInv'
  <2> SUFFICES ASSUME TypeOK, StatusInv, [Next]_vars PROVE StatusInv'
    OBVIOUS
  <2> USE DEF TypeOK, StatusInv, Goto
  <2>1. ASSUME NEW j \in Jobs,
               \/ Deliver(j) \/ SetProcessing(j) \/ Prepare(j) \/ DeleteAll(j)
               \/ InsertConflicts(j) \/ StepFails(j) \/ Lost(j)
        PROVE  pc'[j] \notin {"ready", "error"}
    BY <2>1 DEF Deliver, SetProcessing, Prepare, DeleteAll, InsertConflicts, StepFails, Lost
  <2>2. ASSUME NEW j \in Jobs, Finish(j) \/ Fail(j)  PROVE status' \in {"ready", "error"}
    BY <2>2 DEF Finish, Fail
  <2>3. ASSUME NEW j \in Jobs, Insert(j)  PROVE UNCHANGED <<status, pc>>
    BY <2>3 DEF Insert
  <2>4. CASE UNCHANGED <<status, pc>>
    BY <2>4
  <2> QED  BY <2>1, <2>2, <2>3, <2>4 DEF Next, Step, vars
<1>3. StatusInv => (Settled => status \in {"ready", "error"})
  BY DEF StatusInv, Settled
<1>4. IInv => TypeOK
  BY DEF IInv
<1> QED  BY <1>1, <1>2, <1>3, <1>4, Invariance, PTL DEF Spec

\* The steps delivery j is at most from its end.
Remaining(j) ==
    CASE pc[j] = "queued" -> NChunks + 6
      [] pc[j] = "loaded" -> NChunks + 5
      [] pc[j] = "preparing" -> NChunks + 4
      [] pc[j] = "deleting" -> NChunks + 3
      [] pc[j] = "inserting" -> (NChunks - index[j]) + 2
      [] pc[j] = "failing" -> 1
      [] pc[j] \in {"ready", "error"} -> 0

\* A step takes one delivery on and leaves the others where they are, or is a fault.
Advance ==
    \/ faults < MaxFaults /\ faults' = faults + 1
    \/ /\ faults' = faults
       /\ \E j \in Jobs : /\ Remaining(j)' < Remaining(j)
                          /\ \A k \in Jobs \ {j} : Remaining(k)' = Remaining(k)

(* Deliveries run out: none of them goes round in circles, so that with the faults
   bounded no delivery can keep the file in processing for ever. *)
THEOREM DeliveriesRunOut ==
    Spec => /\ [](\A j \in Jobs : /\ Remaining(j) \in Nat
                                 /\ Remaining(j) = 0 <=> pc[j] \in {"ready", "error"})
            /\ [][Advance]_vars
<1> USE IngestionAssumption
<1>1. TypeOK => \A j \in Jobs : /\ Remaining(j) \in Nat
                               /\ Remaining(j) = 0 <=> pc[j] \in {"ready", "error"}
  <2> SUFFICES ASSUME TypeOK, NEW j \in Jobs
               PROVE  /\ Remaining(j) \in Nat
                      /\ Remaining(j) = 0 <=> pc[j] \in {"ready", "error"}
    OBVIOUS
  <2>1. pc[j] \in {"queued", "loaded", "preparing", "deleting", "inserting", "failing",
                   "ready", "error"} /\ index[j] \in 0..NChunks
    BY DEF TypeOK
  <2> QED  BY <2>1 DEF Remaining
<1>2. IInv /\ IInv' /\ [Next]_vars => [Advance]_vars
  <2> SUFFICES ASSUME IInv, IInv', Next PROVE Advance
    OBVIOUS
  <2> USE DEF Goto
  <2>1. TypeOK /\ CleanInv
    BY DEF IInv
  <2>2. PICK j \in Jobs : Step(j) \/ StepFails(j) \/ Lost(j)
    BY DEF Next
  <2>3. CASE StepFails(j) \/ Lost(j)
    BY <2>3 DEF StepFails, Lost, Faulty, Advance
  <2>4. CASE Step(j)
    <3>1. /\ faults' = faults
          /\ \A k \in Jobs \ {j} : pc'[k] = pc[k] /\ index'[k] = index[k]
      BY <2>1, <2>4
         DEF Step, Deliver, SetProcessing, Prepare, DeleteAll, Insert, InsertConflicts, Finish,
             Fail, TypeOK
    <3>2. \A k \in Jobs \ {j} : Remaining(k)' = Remaining(k)
      BY <3>1 DEF Remaining
    <3>3. index[j] \in 0..NChunks
      BY <2>1 DEF TypeOK
    <3>4. CASE Deliver(j) \/ SetProcessing(j) \/ Prepare(j)
      <4>1. \/ pc[j] = "queued" /\ pc'[j] = "loaded"
            \/ pc[j] = "loaded" /\ pc'[j] = "preparing"
            \/ pc[j] = "preparing" /\ pc'[j] = "deleting"
        BY <2>1, <3>4 DEF Deliver, SetProcessing, Prepare, TypeOK
      <4>2. Remaining(j)' = Remaining(j) - 1 /\ Remaining(j) \in Nat
        BY <4>1 DEF Remaining
      <4>3. Remaining(j)' < Remaining(j)
        BY <4>2
      <4> QED  BY <3>1, <3>2, <4>3 DEF Advance
    <3>5. CASE DeleteAll(j)
      <4>1. pc[j] = "deleting" /\ pc'[j] = "inserting" /\ index'[j] = 0
        BY <2>1, <3>5 DEF DeleteAll, TypeOK, CleanInv
      <4>2. Remaining(j) = NChunks + 3
        BY <4>1 DEF Remaining
      <4>3. Remaining(j)' = NChunks + 2
        BY <4>1 DEF Remaining
      <4> QED  BY <4>2, <4>3, <3>1, <3>2 DEF Advance
    <3>6. CASE Insert(j)
      <4>1. pc[j] = "inserting" /\ pc'[j] = "inserting" /\ index'[j] = index[j] + 1
        BY <2>1, <3>6 DEF Insert, TypeOK
      <4>2. Remaining(j) = (NChunks - index[j]) + 2
        BY <4>1 DEF Remaining
      <4>3. Remaining(j)' = (NChunks - (index[j] + 1)) + 2
        BY <4>1 DEF Remaining
      <4> QED  BY <3>1, <3>2, <3>3, <4>2, <4>3 DEF Advance
    <3>7. CASE InsertConflicts(j) \/ Finish(j)
      <4>1. pc[j] = "inserting" /\ pc'[j] \in {"failing", "ready"}
        BY <2>1, <3>7 DEF InsertConflicts, Finish, TypeOK
      <4>2. Remaining(j) = (NChunks - index[j]) + 2
        BY <4>1 DEF Remaining
      <4>3. Remaining(j)' \in {0, 1}
        BY <4>1 DEF Remaining
      <4> QED  BY <3>1, <3>2, <3>3, <4>2, <4>3 DEF Advance
    <3>8. CASE Fail(j)
      <4>1. pc[j] = "failing" /\ pc'[j] = "error"
        BY <2>1, <3>8 DEF Fail, TypeOK
      <4>2. Remaining(j) = 1 /\ Remaining(j)' = 0
        BY <4>1 DEF Remaining
      <4> QED  BY <3>1, <3>2, <4>2 DEF Advance
    <3> QED  BY <2>4, <3>4, <3>5, <3>6, <3>7, <3>8 DEF Step
  <2> QED  BY <2>2, <2>3, <2>4
<1>3. IInv => TypeOK
  BY DEF IInv
<1> QED  BY <1>1, <1>2, <1>3, Invariance, PTL DEF Spec
=============================================================================
