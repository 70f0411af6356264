--------------------------- MODULE Payments_proofs ---------------------------
(***************************************************************************)
(* Safety of module Payments for every number of calls, charges and orders *)
(* and whatever statuses the gateway reports.                              *)
(***************************************************************************)
EXTENDS Payments, FiniteSetTheorems, TLAPS

GhostType ==
    /\ since \in [Calls -> Nat] /\ written \in [Charges -> Nat]
    /\ fresh \in [Calls -> BOOLEAN] /\ before \in [Calls -> SUBSET Calls]
    /\ unrecorded \in SUBSET Charges /\ blind \in SUBSET Calls /\ shown \in SUBSET Calls

Types == TypeOK /\ GhostType

\* Call c works with a charge, and its answer is a status that one has had.
HasAnswer(c) == charge[c] \in Charges /\ at[c] \in 1..Len(gateway[charge[c]])

\* Where a call is says what it does and what it has in hand; an answer is not
\* older than the moment the call took its charge up.
CallInv ==
    \A c \in Calls :
      /\ pc[c] \in {"posting", "posted"} => kind[c] = "generate"
      /\ pc[c] \in {"lookup", "fetching", "fetched"} => kind[c] = "check"
      /\ pc[c] = "fetching" =>
            charge[c] \in Charges /\ Exists(charge[c]) /\ since[c] <= Len(gateway[charge[c]])
      /\ pc[c] \in {"posted", "fetched", "showing"} => HasAnswer(c) /\ since[c] <= at[c]
      /\ pc[c] = "ok" /\ kind[c] = "check" => HasAnswer(c) /\ since[c] <= at[c]
      /\ pc[c] = "posted" => orderOf[charge[c]] = asked[c]

\* A QR code shown again is that of a pending answer.
ShownInv ==
    \A c \in shown : pc[c] = "ok" /\ (kind[c] = "check" => Answer(c) = "pending")

\* A row that nobody has written is at place 0.
BookInv == BookFollowsGateway /\ \A x \in Charges : ~Recorded(x) => written[x] = 0

\* What no row was written over is at least as new as the row.
FreshInv ==
    \A c \in Calls : pc[c] \in {"posted", "fetched"} /\ fresh[c] => written[charge[c]] <= at[c]

\* A charge that was announced is in the book under its order, unless its INSERT
\* failed, and a call that was over stays so.
OrderInv ==
    /\ \A g \in Calls : kind[g] = "generate" /\ pc[g] \in {"showing", "ok"} =>
          \/ charge[g] \in unrecorded
          \/ charge[g] \in Charges /\ Recorded(charge[g]) /\ table[charge[g]].order = asked[g]
    /\ \A c \in Calls : \A g \in before[c] : pc[g] \in Over /\ kind[g] = "generate"

IInv == Types /\ CallInv /\ ShownInv /\ BookInv /\ FreshInv /\ OrderInv /\ NoneNeedsAFault

-----------------------------------------------------------------------------
(* Lemmas. *)

\* Whatever the gateway reports becomes one of the five statuses.
LEMMA StatusOfType == ASSUME NEW raw PROVE StatusOf(raw) \in Statuses
BY DEF StatusOf, StatusMap, Statuses

\* The place a new row takes is a positive number.
LEMMA BornType == Cardinality({x \in Charges : Recorded(x)}) + 1 \in Nat \ {0}
<1>1. IsFiniteSet({x \in Charges : Recorded(x)})
  BY PaymentsAssumption, FS_Subset
<1> QED  BY <1>1, FS_CardinalityType

LEMMA InitIInv == Init => IInv
<1> SUFFICES ASSUME Init PROVE IInv  OBVIOUS
<1> USE PaymentsAssumption
<1>1. gateway \in [Charges -> Seq(RawStatuses)]
  BY DEF Init
<1>2. fresh \in [Calls -> BOOLEAN]
  BY Zenon DEF Init
<1>3. Types
  BY <1>1, <1>2 DEF Init, Types, TypeOK, GhostType, Rows, NoRow, Over
<1>4. \A x \in Charges : ~Recorded(x)
  BY DEF Init, Recorded, NoRow
<1> QED
  BY <1>3, <1>4 DEF Init, IInv, CallInv, ShownInv, BookInv, BookFollowsGateway, FreshInv,
                    OrderInv, NoneNeedsAFault

-----------------------------------------------------------------------------
\* The types of a state and of its successor.  A statement, an answer of the
\* gateway and a call that begins are the steps that change more than a label.
LEMMA StepKeepsTypes ==
    ASSUME IInv, [Next]_vars
    PROVE  Types'
<1> DEFINE Labels == Over \cup {"idle", "posting", "posted", "lookup", "fetching",
                                "fetched", "showing"}
<1> USE PaymentsAssumption DEF IInv, Types, TypeOK, GhostType, Goto, Over, ghosts, calls
<1>1. ASSUME NEW x \in Charges, Move(x)  PROVE Types'
  <2>1. gateway' \in [Charges -> Seq(RawStatuses)]
    BY <1>1 DEF Move
  <2> QED  BY <1>1, <2>1 DEF Move
<1>2. ASSUME NEW c \in Calls, GatewayCreates(c)  PROVE Types'
  <2>1. gateway' \in [Charges -> Seq(RawStatuses)]
    <3>1. PICK x \in Charges, raw \in RawStatuses : gateway' = [gateway EXCEPT ![x] = <<raw>>]
      BY <1>2 DEF GatewayCreates
    <3> QED  BY <3>1
  <2>2. fresh' \in [Calls -> BOOLEAN]
    BY <1>2, Zenon DEF GatewayCreates
  <2> QED  BY <1>2, <2>1, <2>2 DEF GatewayCreates
<1>3. ASSUME NEW c \in Calls, NEW k \in {"generate", "check"}, NEW o \in Orders \cup {NoOrder},
             NEW label \in Labels, Begin(c, k, o, label),
             charge' \in [Calls -> Charges \cup {NoCharge}], since' \in [Calls -> Nat]
      PROVE  Types'
  BY <1>3 DEF Begin, Finished
<1>4. ASSUME NEW c \in Calls, NEW o \in Orders \cup {NoOrder}, Generate(c, o)  PROVE Types'
  BY <1>3, <1>4 DEF Generate
<1>5. ASSUME NEW c \in Calls, RefuseCall(c)  PROVE Types'
  BY <1>3, <1>5 DEF RefuseCall
<1>6. ASSUME NEW c \in Calls, NEW x \in Charges, CheckById(c, x)  PROVE Types'
  <2>1. charge' \in [Calls -> Charges \cup {NoCharge}] /\ since' \in [Calls -> Nat]
    BY <1>6 DEF CheckById, Take
  <2>2. Begin(c, "check", NoOrder, "fetching")
    BY <1>6 DEF CheckById
  <2> QED  BY <1>3, <2>1, <2>2
<1>7. ASSUME NEW c \in Calls, NEW o \in Orders, CheckByOrder(c, o)  PROVE Types'
  BY <1>3, <1>7 DEF CheckByOrder
<1>8. ASSUME NEW c \in Calls, LookUp(c)  PROVE Types'
  BY <1>8 DEF LookUp, RowsOf, Take
<1>9. ASSUME NEW c \in Calls, Fetch(c)  PROVE Types'
  <2>1. fresh' \in [Calls -> BOOLEAN]
    BY <1>9, Zenon DEF Fetch
  <2>2. at' \in [Calls -> Nat]
    BY <1>9 DEF Fetch, CallInv
  <2> QED  BY <1>9, <2>1, <2>2 DEF Fetch
<1>10. ASSUME NEW c \in Calls, Note(c), charge[c] \in Charges
       PROVE  written' \in [Charges -> Nat] /\ fresh' \in [Calls -> BOOLEAN]
  <2>1. written' \in [Charges -> Nat]
    BY <1>10 DEF Note
  <2>2. fresh' \in [Calls -> BOOLEAN]
    BY <1>10, Zenon DEF Note
  <2> QED  BY <2>1, <2>2
<1>11. ASSUME NEW c \in Calls, Record(c)  PROVE Types'
  <2>1. charge[c] \in Charges
    BY <1>11 DEF Record, CallInv, HasAnswer
  <2>2. Answer(c) \in Statuses
    BY StatusOfType DEF Answer
  <2>3. table' \in [Charges -> Rows]
    <3> DEFINE new == IF Recorded(charge[c])
                      THEN [table[charge[c]] EXCEPT !.status = Answer(c)]
                      ELSE [order |-> asked[c], status |-> Answer(c),
                            born |-> Cardinality({x \in Charges : Recorded(x)}) + 1]
    <3>1. CASE Recorded(charge[c])
      <4>1. table[charge[c]] \in [order : Orders \cup {NoOrder}, status : Statuses, born : Nat \ {0}]
        BY <2>1, <3>1 DEF Recorded, Rows, NoRow
      <4> QED  BY <1>11, <2>1, <2>2, <3>1, <4>1 DEF Record, Rows
    <3>2. CASE ~Recorded(charge[c])
      <4>1. table' = [table EXCEPT ![charge[c]] =
                        [order |-> asked[c], status |-> Answer(c),
                         born |-> Cardinality({x \in Charges : Recorded(x)}) + 1]]
        BY <1>11, <3>2 DEF Record
      <4> QED  BY <2>1, <2>2, <4>1, BornType DEF Rows
    <3> QED  BY <3>1, <3>2
  <2> QED  BY <1>10, <1>11, <2>1, <2>3 DEF Record
<1>12. ASSUME NEW c \in Calls, RecordFails(c)  PROVE Types'
  BY <1>12 DEF RecordFails, CallInv, HasAnswer
<1>13. ASSUME NEW c \in Calls, Sync(c)  PROVE Types'
  <2>1. charge[c] \in Charges
    BY <1>13 DEF Sync, CallInv, HasAnswer
  <2>2. CASE Recorded(charge[c])
    <3>1. table[charge[c]] \in [order : Orders \cup {NoOrder}, status : Statuses, born : Nat \ {0}]
      BY <2>1, <2>2 DEF Recorded, Rows, NoRow
    <3>2. table' = [table EXCEPT ![charge[c]].status = Answer(c)] /\ Answer(c) \in Statuses
      BY <1>13, <2>2, StatusOfType DEF Sync, Answer
    <3>3. table' \in [Charges -> Rows]
      BY <2>1, <3>1, <3>2 DEF Rows
    <3> QED  BY <1>10, <1>13, <2>1, <2>2, <3>3 DEF Sync
  <2>3. CASE ~Recorded(charge[c])
    BY <1>13, <2>3 DEF Sync
  <2> QED  BY <2>2, <2>3
<1>14. ASSUME NEW c \in Calls, FindNone(c)  PROVE Types'
  BY <1>14 DEF FindNone
<1>15. ASSUME NEW c \in Calls,
              PostFails(c) \/ FetchFails(c) \/ SyncFails(c) \/ PublishQr(c) \/ AnswerWithoutQr(c)
       PROVE  Types'
  BY <1>15, ZenonT(30) DEF PostFails, FetchFails, SyncFails, PublishQr, AnswerWithoutQr
<1>16. CASE UNCHANGED vars  BY <1>16 DEF vars
<1> QED
  BY <1>1, <1>2, <1>4, <1>5, <1>6, <1>7, <1>8, <1>9, <1>11, <1>12, <1>13, <1>14, <1>15, <1>16
     DEF Next

-----------------------------------------------------------------------------
(* The steps of one call, grouped by what they leave of it. *)

Begins(c) ==
    \/ \E o \in Orders \cup {NoOrder} : Generate(c, o)
    \/ \E x \in Charges : CheckById(c, x)
    \/ \E o \in Orders : CheckByOrder(c, o)
    \/ RefuseCall(c)

Goes(c) ==
    \/ PostFails(c) \/ Record(c) \/ RecordFails(c) \/ FindNone(c) \/ FetchFails(c)
    \/ Sync(c) \/ SyncFails(c) \/ PublishQr(c) \/ AnswerWithoutQr(c)

StepOf(c) == Begins(c) \/ Goes(c) \/ GatewayCreates(c) \/ LookUp(c) \/ Fetch(c)

\* Every step is the gateway's, or that of one call, or none.
LEMMA StepsOfNext ==
    [Next]_vars => \/ \E x \in Charges : Move(x)
                   \/ \E c \in Calls : StepOf(c)
                   \/ UNCHANGED vars
BY Zenon DEF Next, StepOf, Begins, Goes

-----------------------------------------------------------------------------
\* The gateway forgets nothing: the statuses a charge has had keep their places,
\* and a charge keeps its order.
LEMMA GatewayGrows ==
    ASSUME TypeOK, [Next]_vars, NEW x \in Charges
    PROVE  /\ Len(gateway[x]) <= Len(gateway'[x])
           /\ \A i \in 1..Len(gateway[x]) : gateway'[x][i] = gateway[x][i]
           /\ Exists(x) => Exists(x)' /\ orderOf'[x] = orderOf[x]
<1> USE DEF TypeOK, Exists
<1>1. ASSUME NEW y \in Charges, Move(y)
      PROVE  /\ Len(gateway[x]) <= Len(gateway'[x])
             /\ \A i \in 1..Len(gateway[x]) : gateway'[x][i] = gateway[x][i]
             /\ Exists(x) => Exists(x)' /\ orderOf'[x] = orderOf[x]
  <2>1. PICK raw \in RawStatuses : gateway' = [gateway EXCEPT ![y] = Append(@, raw)]
    BY <1>1 DEF Move
  <2>2. gateway[x] \in Seq(RawStatuses) /\ orderOf' = orderOf
    BY <1>1 DEF Move
  <2>3. CASE x = y
    <3>1. gateway'[x] = Append(gateway[x], raw)
      BY <2>1, <2>3
    <3>2. Len(gateway'[x]) = Len(gateway[x]) + 1
          /\ \A i \in 1..Len(gateway[x]) : gateway'[x][i] = gateway[x][i]
      BY <2>2, <3>1
    <3>3. gateway'[x] # <<>>
      BY <2>2, <3>2
    <3> QED  BY <2>2, <3>2, <3>3
  <2>4. CASE x # y
    BY <2>1, <2>2, <2>4
  <2> QED  BY <2>3, <2>4
<1>2. ASSUME NEW c \in Calls, GatewayCreates(c)
      PROVE  /\ Len(gateway[x]) <= Len(gateway'[x])
             /\ \A i \in 1..Len(gateway[x]) : gateway'[x][i] = gateway[x][i]
             /\ Exists(x) => Exists(x)' /\ orderOf'[x] = orderOf[x]
  <2>1. PICK y \in Charges, raw \in RawStatuses :
            /\ gateway[y] = <<>>
            /\ gateway' = [gateway EXCEPT ![y] = <<raw>>]
            /\ orderOf' = [orderOf EXCEPT ![y] = asked[c]]
    BY <1>2 DEF GatewayCreates
  <2> QED  BY <2>1
<1>3. CASE UNCHANGED <<gateway, orderOf>>
  BY <1>3
<1> QED
  BY <1>1, <1>2, <1>3
     DEF Next, vars, Generate, RefuseCall, Begin, CheckById, CheckByOrder, PostFails, Record,
         RecordFails, LookUp, FindNone, Fetch, FetchFails, Sync, SyncFails, PublishQr,
         AnswerWithoutQr

\* A call that has an answer keeps it, whoever else takes a step.
LEMMA AnswerStays ==
    ASSUME TypeOK, [Next]_vars, NEW c \in Calls, HasAnswer(c),
           charge'[c] = charge[c], at'[c] = at[c]
    PROVE  HasAnswer(c)' /\ Answer(c)' = Answer(c)
<1>1. Len(gateway[charge[c]]) <= Len(gateway'[charge[c]])
      /\ gateway'[charge[c]][at[c]] = gateway[charge[c]][at[c]]
  BY GatewayGrows DEF HasAnswer
<1>2. Len(gateway[charge[c]]) \in Nat /\ Len(gateway'[charge[c]]) \in Nat
  BY <1>1 DEF HasAnswer, TypeOK
<1> QED  BY <1>1, <1>2 DEF HasAnswer, Answer

-----------------------------------------------------------------------------
\* A step keeps what calls have in hand.  The call that takes it is the only one
\* whose label changes; the others rest on the two lemmas above.
LEMMA StepKeepsCalls ==
    ASSUME IInv, Types', [Next]_vars
    PROVE  CallInv'
<1> USE DEF IInv, Types, TypeOK, Goto, Over
<1> DEFINE Holds(d) ==
      /\ pc'[d] \in {"posting", "posted"} => kind'[d] = "generate"
      /\ pc'[d] \in {"lookup", "fetching", "fetched"} => kind'[d] = "check"
      /\ pc'[d] = "fetching" =>
            charge'[d] \in Charges /\ Exists(charge[d])' /\ since'[d] <= Len(gateway'[charge'[d]])
      /\ pc'[d] \in {"posted", "fetched", "showing"} => HasAnswer(d)' /\ since'[d] <= at'[d]
      /\ pc'[d] = "ok" /\ kind'[d] = "check" => HasAnswer(d)' /\ since'[d] <= at'[d]
      /\ pc'[d] = "posted" => orderOf'[charge'[d]] = asked'[d]
<1> SUFFICES ASSUME NEW d \in Calls PROVE Holds(d)
  BY DEF CallInv
\* Nothing of call d changes but, perhaps, from a label to one that asks less.
<1>1. ASSUME UNCHANGED <<charge[d], at[d], since[d], kind[d], asked[d]>>,
             \/ pc'[d] = pc[d]
             \/ pc'[d] \in {"error", "none"}
             \/ pc[d] \in {"posted", "fetched"} /\ pc'[d] = "showing"
             \/ pc[d] = "showing" /\ pc'[d] = "ok"
      PROVE  Holds(d)
  <2>1. HasAnswer(d) => HasAnswer(d)'
    BY <1>1, AnswerStays
  <2>2. charge[d] \in Charges /\ Exists(charge[d]) =>
            /\ Exists(charge[d])' /\ orderOf'[charge[d]] = orderOf[charge[d]]
            /\ Len(gateway[charge[d]]) <= Len(gateway'[charge[d]])
    BY <1>1, GatewayGrows DEF Exists
  <2>3. HasAnswer(d) => charge[d] \in Charges /\ Exists(charge[d])
    BY DEF HasAnswer, Exists
  <2>4. since[d] \in Nat /\ (charge[d] \in Charges =>
            Len(gateway[charge[d]]) \in Nat /\ Len(gateway'[charge[d]]) \in Nat)
    BY DEF GhostType
  <2> QED  BY <1>1, <2>1, <2>2, <2>3, <2>4 DEF CallInv
<1>2. CASE Begins(d)
  BY <1>2 DEF Begins, Generate, CheckByOrder, RefuseCall, CheckById, Begin, Take, Exists, GhostType
<1>3. CASE LookUp(d)
  <2>1. PICK x \in RowsOf(asked[d]) : Take(d, x)
    BY <1>3 DEF LookUp
  <2>2. x \in Charges /\ Exists(x)
    <3>1. x \in Charges /\ written[x] \in 1..Len(gateway[x])
      BY <2>1 DEF RowsOf, BookInv, BookFollowsGateway
    <3> QED  BY <3>1 DEF Exists
  <2> QED  BY <1>3, <2>1, <2>2 DEF LookUp, Take, Exists, GhostType, CallInv
<1>4. CASE Fetch(d)
  BY <1>4 DEF Fetch, CallInv, HasAnswer, Exists
<1>5. CASE GatewayCreates(d)
  <2>1. PICK x \in Charges, raw \in RawStatuses :
            /\ gateway' = [gateway EXCEPT ![x] = <<raw>>]
            /\ orderOf' = [orderOf EXCEPT ![x] = asked[d]]
            /\ charge' = [charge EXCEPT ![d] = x]
    BY <1>5 DEF GatewayCreates
  <2> QED  BY <1>5, <2>1 DEF GatewayCreates, HasAnswer, CallInv, GhostType
<1> HIDE DEF Holds
<1>6. CASE \E x \in Charges : Move(x)
  BY <1>1, <1>6 DEF Move, calls, ghosts
<1>7. ASSUME NEW c \in Calls, c # d, StepOf(c)  PROVE Holds(d)
  <2>1. CASE Begins(c)
    BY <1>1, <1>7, <2>1 DEF Begins, Generate, RefuseCall, Begin, CheckById, CheckByOrder, Take,
                            GhostType
  <2>2. CASE GatewayCreates(c) \/ LookUp(c)
    BY <1>1, <1>7, <2>2 DEF GatewayCreates, LookUp, Take, GhostType
  <2>3. CASE Goes(c)
    BY <1>1, <1>7, <2>3 DEF Goes, PostFails, Record, RecordFails, FindNone, FetchFails, Sync,
                            SyncFails, PublishQr, AnswerWithoutQr, ghosts
  <2>4. CASE Fetch(c)
    BY <1>1, <1>7, <2>4 DEF Fetch
  <2> QED  BY <1>7, <2>1, <2>2, <2>3, <2>4 DEF StepOf
<1>8. CASE Goes(d)
  BY <1>1, <1>8 DEF Goes, PostFails, Record, RecordFails, FindNone, FetchFails, Sync, SyncFails,
                    PublishQr, AnswerWithoutQr, ghosts
<1>9. CASE UNCHANGED vars
  BY <1>1, <1>9 DEF vars, calls, ghosts
<1>10. ASSUME StepOf(d)  PROVE Holds(d)
  BY <1>2, <1>3, <1>4, <1>5, <1>8, <1>10, Zenon DEF StepOf
<1>11. Holds(d)
  BY <1>6, <1>7, <1>9, <1>10, StepsOfNext, Zenon
<1> QED  BY <1>11

-----------------------------------------------------------------------------
\* Only a statement changes a row, and it writes what the gateway has said.
LEMMA StepKeepsBook ==
    ASSUME IInv, Types', [Next]_vars
    PROVE  BookInv'
<1> USE DEF IInv, Types, TypeOK, GhostType, Goto
<1> DEFINE Holds(x) ==
      /\ ~Recorded(x)' => written'[x] = 0
      /\ Recorded(x)' => /\ written'[x] \in 1..Len(gateway'[x])
                         /\ table'[x].status = StatusOf(gateway'[x][written'[x]])
                         /\ table'[x].order = orderOf'[x]
<1> SUFFICES ASSUME NEW x \in Charges PROVE Holds(x)
  BY DEF BookInv, BookFollowsGateway
<1>1. ASSUME table'[x] = table[x], written'[x] = written[x]  PROVE Holds(x)
  <2>1. /\ Len(gateway[x]) <= Len(gateway'[x])
        /\ \A i \in 1..Len(gateway[x]) : gateway'[x][i] = gateway[x][i]
        /\ Exists(x) => orderOf'[x] = orderOf[x]
    BY GatewayGrows
  <2>2. Len(gateway[x]) \in Nat /\ Len(gateway'[x]) \in Nat
    OBVIOUS
  <2>3. CASE Recorded(x)
    <3>1. /\ written[x] \in 1..Len(gateway[x])
          /\ table[x].status = StatusOf(gateway[x][written[x]])
          /\ table[x].order = orderOf[x]
      BY <2>3 DEF BookInv, BookFollowsGateway
    <3>2. Exists(x) /\ orderOf'[x] = orderOf[x]
      BY <2>1, <3>1 DEF Exists
    <3>3. gateway'[x][written[x]] = gateway[x][written[x]]
      BY <2>1, <3>1
    <3>4. written[x] \in 1..Len(gateway'[x])
      BY <2>1, <2>2, <3>1
    <3> QED  BY <1>1, <2>3, <3>1, <3>2, <3>3, <3>4 DEF Recorded
  <2>4. CASE ~Recorded(x)
    BY <1>1, <2>4 DEF BookInv, Recorded
  <2> QED  BY <2>3, <2>4
<1>2. ASSUME NEW c \in Calls, charge[c] = x, HasAnswer(c), UNCHANGED <<gateway, orderOf>>,
             table'[x].status = Answer(c), table'[x].order = orderOf[x], written'[x] = at[c]
      PROVE  Holds(x)
  <2>1. table'[x].status # "none"
    BY <1>2, StatusOfType DEF Answer, Statuses
  <2> QED  BY <1>2, <2>1 DEF Recorded, HasAnswer, Answer
<1> HIDE DEF Holds
<1>3. ASSUME NEW c \in Calls, Record(c)  PROVE Holds(x)
  <2>1. HasAnswer(c) /\ orderOf[charge[c]] = asked[c]
    BY <1>3 DEF Record, CallInv
  <2>2. CASE charge[c] = x
    <3>1. written'[x] = at[c] /\ UNCHANGED <<gateway, orderOf>>
      BY <1>3, <2>2 DEF Record, Note
    <3>2. CASE Recorded(x)
      <4>1. table'[x] = [table[x] EXCEPT !.status = Answer(c)] /\ table[x].order = orderOf[x]
        BY <1>3, <2>2, <3>2 DEF Record, BookInv, BookFollowsGateway
      <4>2. table[x] \in [order : Orders \cup {NoOrder}, status : Statuses, born : Nat \ {0}]
        BY <3>2 DEF Recorded, Rows, NoRow
      <4> QED  BY <1>2, <2>1, <2>2, <3>1, <4>1, <4>2
    <3>3. CASE ~Recorded(x)
      <4>1. table'[x] = [order |-> asked[c], status |-> Answer(c),
                         born |-> Cardinality({y \in Charges : Recorded(y)}) + 1]
        BY <1>3, <2>2, <3>3 DEF Record
      <4> QED  BY <1>2, <2>1, <2>2, <3>1, <4>1
    <3> QED  BY <3>2, <3>3
  <2>3. CASE charge[c] # x
    BY <1>1, <1>3, <2>1, <2>3 DEF Record, Note, HasAnswer
  <2> QED  BY <2>2, <2>3
<1>4. ASSUME NEW c \in Calls, Sync(c)  PROVE Holds(x)
  <2>1. HasAnswer(c)
    BY <1>4 DEF Sync, CallInv
  <2>2. CASE charge[c] = x /\ Recorded(x)
    <3>1. written'[x] = at[c] /\ UNCHANGED <<gateway, orderOf>>
      BY <1>4, <2>2 DEF Sync, Note
    <3>2. table'[x] = [table[x] EXCEPT !.status = Answer(c)] /\ table[x].order = orderOf[x]
      BY <1>4, <2>2 DEF Sync, BookInv, BookFollowsGateway
    <3>3. table[x] \in [order : Orders \cup {NoOrder}, status : Statuses, born : Nat \ {0}]
      BY <2>2 DEF Recorded, Rows, NoRow
    <3> QED  BY <1>2, <2>1, <2>2, <3>1, <3>2, <3>3
  <2>3. CASE ~(charge[c] = x /\ Recorded(x))
    BY <1>1, <1>4, <2>1, <2>3 DEF Sync, Note, HasAnswer
  <2> QED  BY <2>2, <2>3
<1>5. CASE UNCHANGED <<table, written>>
  BY <1>1, <1>5
<1> QED
  BY <1>3, <1>4, <1>5
     DEF Next, vars, ghosts, Move, GatewayCreates, Generate, RefuseCall, Begin, CheckById,
         CheckByOrder, PostFails, RecordFails, LookUp, FindNone, Fetch, FetchFails, SyncFails,
         PublishQr, AnswerWithoutQr

\* Only a statement writes a row over, and it makes the other calls' answers stale.
LEMMA StepKeepsFresh ==
    ASSUME IInv, Types', [Next]_vars
    PROVE  FreshInv'
<1> USE DEF IInv, Types, TypeOK, GhostType, Goto
<1> DEFINE Holds(d) ==
      pc'[d] \in {"posted", "fetched"} /\ fresh'[d] => written'[charge'[d]] <= at'[d]
<1> SUFFICES ASSUME NEW d \in Calls PROVE Holds(d)
  BY DEF FreshInv
<1>1. \A x \in Charges : written[x] <= Len(gateway[x])
                         /\ (gateway[x] = <<>> => written[x] = 0)
  BY DEF BookInv, BookFollowsGateway
<1>2. CASE Fetch(d)
  BY <1>1, <1>2 DEF Fetch, CallInv
<1>3. CASE GatewayCreates(d)
  BY <1>1, <1>3 DEF GatewayCreates, Exists
<1>4. ASSUME UNCHANGED <<charge[d], at[d], fresh[d], written>>,
             pc'[d] = pc[d] \/ pc'[d] \notin {"posted", "fetched"}
      PROVE  Holds(d)
  BY <1>4 DEF FreshInv
<1>5. ASSUME NEW c \in Calls, c # d, Note(c), UNCHANGED <<pc[d], charge, at>>, charge[c] \in Charges
      PROVE  Holds(d)
  <2>1. fresh'[d] => fresh[d] /\ charge[d] # charge[c]
    BY <1>5 DEF Note
  <2>2. \A x : x # charge[c] => written'[x] = written[x]
    BY <1>5 DEF Note
  <2> QED  BY <1>5, <2>1, <2>2 DEF FreshInv
<1> HIDE DEF Holds
<1>6. ASSUME NEW c \in Calls, Record(c) \/ Sync(c)  PROVE Holds(d)
  <2>1. charge[c] \in Charges
    BY <1>6 DEF Record, Sync, CallInv, HasAnswer
  <2>2. CASE c = d
    BY <1>6, <2>2 DEF Record, Sync, Holds
  <2>3. CASE c # d /\ Note(c)
    BY <1>5, <1>6, <2>1, <2>3 DEF Record, Sync
  <2>4. CASE c # d /\ UNCHANGED <<written, fresh>>
    BY <1>4, <1>6, <2>4 DEF Record, Sync
  <2> QED  BY <1>6, <2>2, <2>3, <2>4 DEF Record, Sync
<1>7. ASSUME NEW c \in Calls, c # d, GatewayCreates(c) \/ LookUp(c) \/ Fetch(c) \/ Begins(c)
      PROVE  Holds(d)
  BY <1>4, <1>7, SMTT(30) DEF GatewayCreates, LookUp, Take, Fetch, Begins, Begin, Generate, RefuseCall,
                    CheckById, CheckByOrder
<1>8. ASSUME LookUp(d) \/ Begins(d)  PROVE Holds(d)
  BY <1>8 DEF LookUp, Begins, Begin, Generate, RefuseCall, CheckById, CheckByOrder, Holds
<1>9. ASSUME NEW c \in Calls,
             \/ PostFails(c) \/ RecordFails(c) \/ FindNone(c) \/ FetchFails(c)
             \/ SyncFails(c) \/ PublishQr(c) \/ AnswerWithoutQr(c)
      PROVE  Holds(d)
  BY <1>4, <1>9 DEF PostFails, RecordFails, FindNone, FetchFails, SyncFails, PublishQr,
                    AnswerWithoutQr, ghosts
<1>10. ASSUME NEW c \in Calls, StepOf(c)  PROVE Holds(d)
  BY <1>2, <1>3, <1>6, <1>7, <1>8, <1>9, <1>10 DEF StepOf, Goes
<1>11. CASE (\E x \in Charges : Move(x)) \/ UNCHANGED vars
  BY <1>4, <1>11 DEF Move, vars, calls, ghosts
<1> QED  BY <1>10, <1>11, StepsOfNext

\* A QR code that is on the screen stays that of the answer it was shown for.
LEMMA StepKeepsShown ==
    ASSUME IInv, CallInv', [Next]_vars
    PROVE  ShownInv'
<1> USE DEF IInv, Types, TypeOK, GhostType, Goto
<1> DEFINE Holds(d) == d \in shown' => pc'[d] = "ok" /\ (kind'[d] = "check" => Answer(d)' = "pending")
<1> SUFFICES ASSUME NEW d \in Calls PROVE Holds(d)
  <2>1. shown' \subseteq Calls
    BY ZenonT(30) DEF Next, vars, ghosts, Move, GatewayCreates, Generate, RefuseCall, Begin, CheckById,
           CheckByOrder, PostFails, Record, RecordFails, LookUp, FindNone, Fetch, FetchFails,
           Sync, SyncFails, PublishQr, AnswerWithoutQr
  <2> QED  BY <2>1 DEF ShownInv
<1>1. ASSUME UNCHANGED <<charge[d], at[d], kind[d]>>, d \in shown' => d \in shown,
             d \in shown => pc'[d] = pc[d]
      PROVE  Holds(d)
  <2>1. HasAnswer(d) => Answer(d)' = Answer(d)
    BY <1>1, AnswerStays
  <2> QED  BY <1>1, <2>1 DEF ShownInv, CallInv
<1>2. CASE PublishQr(d)
  BY <1>2 DEF PublishQr, Payable, Answer
<1> HIDE DEF Holds
<1>3. ASSUME NEW c \in Calls, PublishQr(c), c # d  PROVE Holds(d)
  BY <1>1, <1>3 DEF PublishQr
<1>4. ASSUME NEW c \in Calls, Begins(c) \/ GatewayCreates(c) \/ LookUp(c) \/ Fetch(c)
      PROVE  Holds(d)
  <2>1. c = d => d \notin shown
    BY <1>4 DEF ShownInv, Begins, Begin, Generate, RefuseCall, CheckById, CheckByOrder,
                GatewayCreates, LookUp, Fetch
  <2>2. c # d => UNCHANGED <<charge[d], at[d], kind[d], pc[d]>>
    BY <1>4 DEF Begins, Begin, Generate, RefuseCall, CheckById, CheckByOrder, Take,
                GatewayCreates, LookUp, Fetch
  <2>3. shown' = shown
    BY <1>4 DEF Begins, Begin, Generate, RefuseCall, CheckById, CheckByOrder,
                GatewayCreates, LookUp, Fetch
  <2>4. d \notin shown' => Holds(d)
    BY DEF Holds
  <2> QED  BY <1>1, <2>1, <2>2, <2>3, <2>4
<1>5. ASSUME NEW c \in Calls,
             \/ PostFails(c) \/ Record(c) \/ RecordFails(c) \/ FindNone(c) \/ FetchFails(c)
             \/ Sync(c) \/ SyncFails(c) \/ AnswerWithoutQr(c)
      PROVE  Holds(d)
  BY <1>1, <1>5 DEF ShownInv, PostFails, Record, RecordFails, FindNone, FetchFails, Sync, SyncFails,
                    AnswerWithoutQr, ghosts
<1>6. ASSUME NEW c \in Calls, StepOf(c)  PROVE Holds(d)
  BY <1>2, <1>3, <1>4, <1>5, <1>6 DEF StepOf, Goes
<1>7. CASE (\E x \in Charges : Move(x)) \/ UNCHANGED vars
  BY <1>1, <1>7 DEF Move, vars, calls, ghosts
<1> QED  BY <1>6, <1>7, StepsOfNext

\* A call that is over stays so.
LEMMA OverStays ==
    ASSUME IInv, [Next]_vars, NEW g \in Calls, pc[g] \in Over
    PROVE  UNCHANGED <<pc[g], kind[g], asked[g], charge[g]>>
<1> USE DEF IInv, Types, TypeOK, Goto, Over
<1>1. ASSUME NEW c \in Calls, Begins(c) \/ GatewayCreates(c) \/ LookUp(c) \/ Fetch(c)
      PROVE  UNCHANGED <<pc[g], kind[g], asked[g], charge[g]>>
  BY <1>1 DEF Begins, Begin, Generate, RefuseCall, CheckById, CheckByOrder, Take,
              GatewayCreates, LookUp, Fetch
<1>2. ASSUME NEW c \in Calls, Goes(c)
      PROVE  UNCHANGED <<pc[g], kind[g], asked[g], charge[g]>>
  BY <1>2 DEF Goes, PostFails, Record, RecordFails, FindNone, FetchFails, Sync, SyncFails, PublishQr,
              AnswerWithoutQr
<1>3. CASE (\E x \in Charges : Move(x)) \/ UNCHANGED vars
  BY <1>3 DEF Move, vars, calls
<1> QED  BY <1>1, <1>2, <1>3, StepsOfNext DEF StepOf

\* A row stays in the book, under its order.
LEMMA RowStays ==
    ASSUME IInv, [Next]_vars, NEW x \in Charges, Recorded(x)
    PROVE  Recorded(x)' /\ table'[x].order = table[x].order /\ unrecorded \subseteq unrecorded'
<1> USE DEF IInv, Types, TypeOK, GhostType
<1>1. table[x] \in [order : Orders \cup {NoOrder}, status : Statuses, born : Nat \ {0}]
  BY DEF Recorded, Rows, NoRow
<1>2. ASSUME NEW c \in Calls, Record(c) \/ Sync(c)
      PROVE  /\ Recorded(x)' /\ table'[x].order = table[x].order
             /\ unrecorded' = unrecorded
  <2>1. charge[c] \in Charges
    BY <1>2 DEF Record, Sync, CallInv, HasAnswer
  <2>2. CASE charge[c] = x
    <3>1. table'[x] = [table[x] EXCEPT !.status = Answer(c)] /\ unrecorded' = unrecorded
      BY <1>2, <2>2 DEF Record, Sync
    <3>2. Answer(c) # "none"
      BY StatusOfType DEF Answer, Statuses
    <3> QED  BY <1>1, <3>1, <3>2 DEF Recorded
  <2>3. CASE charge[c] # x
    <3>1. table'[x] = table[x] /\ unrecorded' = unrecorded
      BY <1>2, <2>1, <2>3 DEF Record, Sync
    <3> QED  BY <3>1 DEF Recorded
  <2> QED  BY <2>2, <2>3
<1>3. CASE UNCHANGED table /\ unrecorded \subseteq unrecorded'
  BY <1>3 DEF Recorded
<1> QED
  BY <1>2, <1>3
     DEF Next, vars, ghosts, Move, GatewayCreates, Generate, RefuseCall, Begin, CheckById,
         CheckByOrder, PostFails, RecordFails, LookUp, FindNone, Fetch, FetchFails, SyncFails,
         PublishQr, AnswerWithoutQr

\* An announced charge comes from an INSERT that was made or that failed.
LEMMA StepKeepsOrders ==
    ASSUME IInv, Types', [Next]_vars
    PROVE  OrderInv'
<1> USE DEF IInv, Types, TypeOK, GhostType, Goto
<1> DEFINE Booked(g) == \/ charge[g] \in unrecorded
                        \/ charge[g] \in Charges /\ Recorded(charge[g]) /\ table[charge[g]].order = asked[g]
<1> DEFINE Announced(g) == kind[g] = "generate" /\ pc[g] \in {"showing", "ok"}
<1>1. \A g \in Calls : Announced(g) => Booked(g)
  BY DEF OrderInv
<1>2. unrecorded \subseteq unrecorded'
  BY ZenonT(30) DEF Next, vars, ghosts, Move, GatewayCreates, Generate, RefuseCall, Begin, CheckById,
         CheckByOrder, PostFails, Record, RecordFails, LookUp, FindNone, Fetch, FetchFails, Sync,
         SyncFails, PublishQr, AnswerWithoutQr
<1>3. ASSUME NEW g \in Calls, Booked(g), UNCHANGED <<charge[g], asked[g]>>  PROVE Booked(g)'
  BY <1>2, <1>3, RowStays
<1>4. ASSUME NEW g \in Calls, Announced(g)'  PROVE Booked(g)'
  <2>1. CASE Announced(g) /\ UNCHANGED <<charge[g], asked[g]>>
    BY <1>1, <1>3, <2>1
  <2>2. CASE Record(g)
    <3>1. charge[g] \in Charges /\ orderOf[charge[g]] = asked[g]
      BY <2>2 DEF Record, CallInv, HasAnswer
    <3>2. CASE Recorded(charge[g])
      <4>1. Booked(g)
        BY <3>1, <3>2 DEF BookInv, BookFollowsGateway
      <4> QED  BY <1>3, <2>2, <4>1 DEF Record
    <3>3. CASE ~Recorded(charge[g])
      <4>1. table'[charge[g]] = [order |-> asked[g], status |-> Answer(g),
                                 born |-> Cardinality({y \in Charges : Recorded(y)}) + 1]
        BY <2>2, <3>1, <3>3 DEF Record
      <4>2. Answer(g) # "none"
        BY StatusOfType DEF Answer, Statuses
      <4> QED  BY <2>2, <3>1, <4>1, <4>2 DEF Record, Recorded
    <3> QED  BY <3>2, <3>3
  <2>3. CASE RecordFails(g)
    BY <2>3 DEF RecordFails
  <2>4. CASE PostFails(g) \/ FindNone(g) \/ FetchFails(g) \/ Sync(g) \/ SyncFails(g)
    BY <1>4, <2>4 DEF PostFails, FindNone, FetchFails, Sync, SyncFails, ghosts, CallInv
  <2>5. CASE PublishQr(g) \/ AnswerWithoutQr(g)
    BY <1>4, <2>1, <2>5 DEF PublishQr, AnswerWithoutQr, ghosts
  <2>6. CASE Begins(g)
    BY <1>4, <2>6 DEF Begins, Begin, Generate, RefuseCall, CheckById, CheckByOrder
  <2>7. CASE GatewayCreates(g) \/ LookUp(g) \/ Fetch(g)
    BY <1>4, <2>7 DEF GatewayCreates, LookUp, Fetch
  <2>8. ASSUME NEW c \in Calls, c # g, StepOf(c)  PROVE Booked(g)'
    <3>1. UNCHANGED <<charge[g], asked[g], kind[g], pc[g]>>
      <4>1. CASE Goes(c)
        BY <2>8, <4>1 DEF Goes, PostFails, Record, RecordFails, FindNone, FetchFails, Sync,
                          SyncFails, PublishQr, AnswerWithoutQr
      <4>2. CASE Begins(c)
        BY <2>8, <4>2 DEF Begins, Begin, Generate, RefuseCall, CheckById, CheckByOrder, Take
      <4>3. CASE GatewayCreates(c) \/ LookUp(c) \/ Fetch(c)
        BY <2>8, <4>3 DEF GatewayCreates, LookUp, Take, Fetch
      <4> QED  BY <2>8, <4>1, <4>2, <4>3 DEF StepOf
    <3> QED  BY <1>1, <1>3, <1>4, <3>1
  <2>9. CASE (\E x \in Charges : Move(x)) \/ UNCHANGED vars
    BY <1>4, <2>1, <2>9 DEF Move, vars, calls
  <2> QED  BY <2>2, <2>3, <2>4, <2>5, <2>6, <2>7, <2>8, <2>9, StepsOfNext DEF StepOf, Goes
<1>5. ASSUME NEW c \in Calls, NEW g \in before'[c]  PROVE g \in Calls /\ pc'[g] \in Over /\ kind'[g] = "generate"
  <2>1. g \in before[c] \/ g \in Finished
    <3>1. ASSUME NEW d \in Calls, Begins(d)  PROVE before' = [before EXCEPT ![d] = Finished]
      BY <3>1 DEF Begins, Begin, Generate, RefuseCall, CheckById, CheckByOrder
    <3>2. ASSUME NEW d \in Calls, Goes(d)  PROVE UNCHANGED before
      BY <3>2 DEF Goes, ghosts, PostFails, Record, RecordFails, FindNone, FetchFails, Sync,
                  SyncFails, PublishQr, AnswerWithoutQr
    <3>3. ASSUME NEW d \in Calls, GatewayCreates(d) \/ LookUp(d) \/ Fetch(d)
          PROVE  UNCHANGED before
      BY <3>3 DEF GatewayCreates, LookUp, Fetch
    <3>4. CASE (\E x \in Charges : Move(x)) \/ UNCHANGED vars
      BY <1>5, <3>4 DEF Move, vars, ghosts
    <3>5. CASE \E d \in Calls : StepOf(d)
      BY <1>5, <3>1, <3>2, <3>3, <3>5 DEF StepOf
    <3> QED  BY <3>4, <3>5, StepsOfNext
  <2>2. g \in Calls /\ pc[g] \in Over /\ kind[g] = "generate"
    BY <2>1 DEF Finished, OrderInv
  <2> QED  BY <2>2, OverStays
<1> QED  BY <1>4, <1>5 DEF OrderInv

\* A look-up that finds no row finds none of a charge announced before.
LEMMA StepKeepsNone ==
    ASSUME IInv, Types', [Next]_vars
    PROVE  NoneNeedsAFault'
<1> USE DEF IInv, Types, TypeOK, GhostType, Goto
<1> SUFFICES ASSUME NEW c \in Calls, pc'[c] = "none", c \notin blind',
                    NEW g \in before'[c], pc'[g] = "ok", asked'[g] = asked'[c]
             PROVE  charge'[g] \in unrecorded'
  BY DEF NoneNeedsAFault
<1>1. unrecorded \subseteq unrecorded' /\ blind \subseteq blind'
  BY DEF Next, vars, ghosts, Move, GatewayCreates, Generate, RefuseCall, Begin, CheckById,
         CheckByOrder, PostFails, Record, RecordFails, LookUp, FindNone, Fetch, FetchFails, Sync,
         SyncFails, PublishQr, AnswerWithoutQr
<1>2. ASSUME UNCHANGED before[c], pc[c] # "none" => FindNone(c), pc[c] = "none" => UNCHANGED asked[c]
      PROVE  charge'[g] \in unrecorded'
  <2>1. g \in Calls /\ pc[g] \in Over /\ kind[g] = "generate"
    BY <1>2 DEF OrderInv
  <2>2. UNCHANGED <<pc[g], asked[g], charge[g]>>
    BY <2>1, OverStays
  <2>3. CASE pc[c] = "none"
    BY <1>1, <1>2, <2>2, <2>3 DEF NoneNeedsAFault
  <2>4. CASE FindNone(c)
    <3>1. RowsOf(asked[c]) = {} /\ UNCHANGED asked
      BY <2>4 DEF FindNone
    <3>2. charge[g] \in unrecorded \/ charge[g] \in RowsOf(asked[g])
      BY <2>1, <2>2 DEF OrderInv, RowsOf
    <3> QED  BY <1>1, <2>2, <3>1, <3>2
  <2> QED  BY <1>2, <2>3, <2>4
<1>3. UNCHANGED before[c] /\ (pc[c] # "none" => FindNone(c))
  <2>1. ASSUME NEW d \in Calls, Begins(d) \/ GatewayCreates(d) \/ LookUp(d) \/ Fetch(d)
        PROVE  UNCHANGED before[c] /\ (pc[c] # "none" => FindNone(c))
    BY <2>1, SMTT(30) DEF Begins, Begin, Generate, RefuseCall, CheckById, CheckByOrder, GatewayCreates,
                LookUp, Fetch
  <2>2. ASSUME NEW d \in Calls, Goes(d), ~FindNone(d)
        PROVE  UNCHANGED before[c] /\ (pc[c] # "none" => FindNone(c))
    BY <2>2 DEF Goes, PostFails, Record, RecordFails, FetchFails, Sync, SyncFails, PublishQr,
                AnswerWithoutQr, ghosts
  <2>3. ASSUME NEW d \in Calls, FindNone(d)
        PROVE  UNCHANGED before[c] /\ (pc[c] # "none" => FindNone(c))
    <3>1. UNCHANGED before /\ (c # d => pc'[c] = pc[c])
      BY <2>3 DEF FindNone
    <3> QED  BY <2>3, <3>1
  <2>4. CASE (\E x \in Charges : Move(x)) \/ UNCHANGED vars
    BY <2>4 DEF Move, vars, calls, ghosts
  <2> QED  BY <2>1, <2>2, <2>3, <2>4, StepsOfNext DEF StepOf
<1>4. pc[c] = "none" => UNCHANGED asked[c]
  BY OverStays DEF Over
<1> QED  BY <1>2, <1>3, <1>4

-----------------------------------------------------------------------------
\* The inductive invariant of charges, book and calls.
THEOREM Invariance == Spec => []IInv
<1>1. IInv /\ [Next]_vars => IInv'
  <2> SUFFICES ASSUME IInv, [Next]_vars PROVE IInv'
    OBVIOUS
  <2>1. Types'     BY StepKeepsTypes
  <2>2. CallInv'   BY <2>1, StepKeepsCalls
  <2>3. ShownInv'  BY <2>2, StepKeepsShown
  <2>4. BookInv' /\ FreshInv' /\ OrderInv' /\ NoneNeedsAFault'
    BY <2>1, StepKeepsBook, StepKeepsFresh, StepKeepsOrders, StepKeepsNone
  <2> QED  BY <2>1, <2>2, <2>3, <2>4 DEF IInv
<1> QED  BY InitIInv, <1>1, PTL DEF Spec

(* The types of the state: the book knows the five statuses and no other. *)
THEOREM TypeCorrect == Spec => []TypeOK
<1>1. IInv => TypeOK  BY DEF IInv, Types
<1> QED  BY Invariance, <1>1, PTL

(* No status lands on another charge, and a row keeps the order it was made for. *)
THEOREM BookFollowsGatewayHolds == Spec => []BookFollowsGateway
<1>1. IInv => BookFollowsGateway  BY DEF IInv, BookInv
<1> QED  BY Invariance, <1>1, PTL

(* What a check tells, and the QR code it shows again, rest on a status the charge
   had while the check was running. *)
THEOREM CheckIsCurrentHolds == Spec => []CheckIsCurrent
<1>1. IInv => CheckIsCurrent
  <2> SUFFICES ASSUME IInv, NEW c \in Calls, pc[c] = "ok", kind[c] = "check"
               PROVE  /\ at[c] \in since[c]..Len(gateway[charge[c]]) /\ at[c] > 0
                      /\ c \in shown => StatusOf(gateway[charge[c]][at[c]]) = "pending"
    BY DEF CheckIsCurrent, Answer
  <2> QED  BY DEF IInv, Types, TypeOK, GhostType, CallInv, HasAnswer, ShownInv, Answer
<1> QED  BY Invariance, <1>1, PTL

(* A look-up that finds nothing for an order charged before had a fault. *)
THEOREM NoneNeedsAFaultHolds == Spec => []NoneNeedsAFault
<1>1. IInv => NoneNeedsAFault  BY DEF IInv
<1> QED  BY Invariance, <1>1, PTL

(* A row goes back to an older status only through the answer of a call during
   which another call has written that row. *)
THEOREM RegressionNeedsOverlapHolds == Spec => RegressionNeedsOverlap
<1> DEFINE A == \A x \in Charges : written'[x] < written[x] =>
          \E c \in Calls : charge[c] = x /\ pc[c] \in {"posted", "fetched"} /\ ~fresh[c]
                           /\ pc'[c] = "showing"
<1>1. IInv /\ [Next]_vars => [A]_vars
  <2> SUFFICES ASSUME IInv, Next, NEW x \in Charges, written'[x] < written[x]
               PROVE  \E c \in Calls : charge[c] = x /\ pc[c] \in {"posted", "fetched"}
                                       /\ ~fresh[c] /\ pc'[c] = "showing"
    BY DEF vars
  <2> USE DEF IInv, Types, TypeOK, GhostType
  <2>1. PICK c \in Calls : (Record(c) \/ Sync(c)) /\ Note(c)
    <3>1. ~UNCHANGED written
      OBVIOUS
    <3>2. ASSUME NEW d \in Calls, Goes(d)  PROVE (Record(d) \/ Sync(d)) /\ Note(d)
      BY <3>1, <3>2 DEF Goes, ghosts, PostFails, Record, RecordFails, FindNone, FetchFails, Sync,
                        SyncFails, PublishQr, AnswerWithoutQr
    <3>3. ASSUME NEW d \in Calls, Begins(d) \/ GatewayCreates(d) \/ LookUp(d) \/ Fetch(d)
          PROVE  UNCHANGED written
      BY <3>3 DEF Begins, Begin, Generate, RefuseCall, CheckById, CheckByOrder, GatewayCreates,
                  LookUp, Fetch
    <3>4. (\E y \in Charges : Move(y)) \/ UNCHANGED vars => UNCHANGED written
      BY DEF Move, vars, ghosts
    <3>5. PICK d \in Calls : StepOf(d)
      BY <3>1, <3>4, StepsOfNext
    <3> QED  BY <3>1, <3>2, <3>3, <3>5 DEF StepOf
  <2>2. charge[c] = x /\ written'[x] = at[c]
    BY <2>1 DEF Note
  <2>3. pc[c] \in {"posted", "fetched"} /\ pc'[c] = "showing"
    BY <2>1 DEF Record, Sync, Goto
  <2>4. ~fresh[c]
    BY <2>2, <2>3 DEF FreshInv
  <2> QED  BY <2>2, <2>3, <2>4
<1> QED  BY Invariance, <1>1, PTL DEF Spec, RegressionNeedsOverlap
=============================================================================
