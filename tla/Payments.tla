------------------------------ MODULE Payments ------------------------------
(***************************************************************************)
(* PIX charges (app/payments.py; generate_pix_charge, check_payment_status *)
(* and _publicar_qr in app/tools.py): the gateway's charges, the table     *)
(* payment_charges and the tool calls between them.  Calls of different    *)
(* turns run side by side, each await is a step of its own, and a POST, a  *)
(* GET or a statement may fail or lose its answer.                         *)
(***************************************************************************)
EXTENDS Integers, FiniteSets, Sequences

CONSTANTS
    Calls,        \* tool calls, each made once
    Orders,       \* business references
    NoOrder,      \* the empty reference_id
    Charges,      \* payment ids the gateway gives out
    NoCharge,
    RawStatuses,  \* statuses the gateway reports
    MaxStatuses   \* bound: statuses one charge goes through

ASSUME PaymentsAssumption ==
    /\ NoOrder \notin Orders /\ NoCharge \notin Charges
    /\ MaxStatuses \in Nat \ {0} /\ IsFiniteSet(Charges)

VARIABLES
    gateway,   \* gateway[x]: statuses charge x has had, the last is its own; <<>> if none
    orderOf,   \* external_reference of a charge
    table,     \* payment_charges: NoRow or [order, status, born], born for created_at
    pc,        \* where call c is
    kind,      \* generate or check
    asked,     \* the reference call c was given
    charge,    \* the payment id call c works with
    at         \* the answer call c has, as a place in gateway[charge[c]]

(* History variables. *)
VARIABLES
    since,       \* since[c]: the place of charge[c] when the call took it up
    written,     \* written[x]: the place the row of x tells
    fresh,       \* fresh[c]: nobody has written that row since the answer of c
    before,      \* before[c]: charging calls that were over when c began
    unrecorded,  \* charges whose INSERT failed
    blind,       \* calls whose look-up failed
    shown        \* calls that published a QR code

calls == <<pc, kind, asked, charge, at>>
ghosts == <<since, written, fresh, before, unrecorded, blind, shown>>
vars == <<gateway, orderOf, table, calls, ghosts>>

NoRow == [order |-> NoOrder, status |-> "none", born |-> 0]

Init ==
    /\ gateway = [x \in Charges |-> <<>>] /\ orderOf = [x \in Charges |-> NoOrder]
    /\ table = [x \in Charges |-> NoRow]
    /\ pc = [c \in Calls |-> "idle"] /\ kind = [c \in Calls |-> "check"]
    /\ asked = [c \in Calls |-> NoOrder] /\ charge = [c \in Calls |-> NoCharge]
    /\ at = [c \in Calls |-> 0]
    /\ since = [c \in Calls |-> 0] /\ written = [x \in Charges |-> 0]
    /\ fresh = [c \in Calls |-> FALSE] /\ before = [c \in Calls |-> {}]
    /\ unrecorded = {} /\ blind = {} /\ shown = {}

Over == {"ok", "error", "none"}
Goto(c, label) == pc' = [pc EXCEPT ![c] = label]
Finished == {c \in Calls : pc[c] \in Over /\ kind[c] = "generate"}

StatusMap ==
    [approved |-> "paid", authorized |-> "pending", in_process |-> "pending",
     in_mediation |-> "pending", pending |-> "pending", rejected |-> "failed",
     cancelled |-> "cancelled", refunded |-> "refunded", charged_back |-> "refunded"]

\* Fault: the gateway's own word is kept.
RawStatus(raw) == raw

\* STATUS_MAP.get(raw, "pending")
StatusOf(raw) == IF raw \in DOMAIN StatusMap THEN StatusMap[raw] ELSE "pending"

Exists(x) == gateway[x] # <<>>
Recorded(x) == table[x].status # "none"
Answer(c) == StatusOf(gateway[charge[c]][at[c]])

-----------------------------------------------------------------------------
(* The gateway. *)

\* The customer pays, the charge expires, a dispute is opened...
Move(x) ==
    /\ Exists(x) /\ Len(gateway[x]) < MaxStatuses
    /\ \E raw \in RawStatuses : gateway' = [gateway EXCEPT ![x] = Append(@, raw)]
    /\ UNCHANGED <<orderOf, table, calls, ghosts>>

\* The POST arrives: every attempt has an idempotency key of its own, so each
\* is a new charge.
GatewayCreates(c) ==
    /\ pc[c] = "posting"
    /\ \E x \in Charges, raw \in RawStatuses :
          /\ ~Exists(x)
          /\ gateway' = [gateway EXCEPT ![x] = <<raw>>]
          /\ orderOf' = [orderOf EXCEPT ![x] = asked[c]]
          /\ charge' = [charge EXCEPT ![c] = x]
    /\ Goto(c, "posted")
    /\ at' = [at EXCEPT ![c] = 1] /\ since' = [since EXCEPT ![c] = 1]
    /\ fresh' = [fresh EXCEPT ![c] = TRUE]
    /\ UNCHANGED <<table, kind, asked, written, before, unrecorded, blind, shown>>

-----------------------------------------------------------------------------
(* generate_pix_charge. *)

Begin(c, k, o, label) ==
    /\ pc[c] = "idle"
    /\ Goto(c, label)
    /\ kind' = [kind EXCEPT ![c] = k] /\ asked' = [asked EXCEPT ![c] = o]
    /\ before' = [before EXCEPT ![c] = Finished]
    /\ UNCHANGED <<gateway, orderOf, table, at, written, fresh, unrecorded, blind, shown>>

Generate(c, o) == Begin(c, "generate", o, "posting") /\ UNCHANGED <<charge, since>>

\* No credential, no amount above zero, or neither id nor reference.
RefuseCall(c) == Begin(c, "check", NoOrder, "error") /\ UNCHANGED <<charge, since>>

\* The gateway refuses, is not reached, or its answer is lost or late.
PostFails(c) ==
    /\ pc[c] \in {"posting", "posted"}
    /\ Goto(c, "error")
    /\ UNCHANGED <<gateway, orderOf, table, kind, asked, charge, at, ghosts>>

\* A row is written: the other calls' answers are no longer the newest word.
Note(c) ==
    /\ written' = [written EXCEPT ![charge[c]] = at[c]]
    /\ fresh' = [d \in Calls |-> fresh[d] /\ (d = c \/ charge[d] # charge[c])]

\* INSERT ... ON CONFLICT DO UPDATE SET status
Record(c) ==
    /\ pc[c] = "posted"
    /\ Goto(c, "showing")
    /\ table' = [table EXCEPT ![charge[c]] =
          IF Recorded(charge[c])
          THEN [@ EXCEPT !.status = Answer(c)]
          ELSE [order |-> asked[c], status |-> Answer(c),
                born |-> Cardinality({x \in Charges : Recorded(x)}) + 1]]
    /\ Note(c)
    /\ UNCHANGED <<gateway, orderOf, kind, asked, charge, at, since, before,
                   unrecorded, blind, shown>>

\* The charge exists: recording it is best effort.
RecordFails(c) ==
    /\ pc[c] = "posted"
    /\ Goto(c, "showing")
    /\ unrecorded' = unrecorded \cup {charge[c]}
    /\ UNCHANGED <<gateway, orderOf, table, kind, asked, charge, at, since, written,
                   fresh, before, blind, shown>>

-----------------------------------------------------------------------------
(* check_payment_status. *)

Take(c, x) ==
    /\ charge' = [charge EXCEPT ![c] = x]
    /\ since' = [since EXCEPT ![c] = Len(gateway[x])]

CheckById(c, x) == Exists(x) /\ Begin(c, "check", NoOrder, "fetching") /\ Take(c, x)

CheckByOrder(c, o) == Begin(c, "check", o, "lookup") /\ UNCHANGED <<charge, since>>

\* Fault: only open charges are looked up.
RowsOfOpen(o) == {x \in Charges : Recorded(x) /\ table[x].order = o /\ table[x].status = "pending"}

RowsOf(o) == {x \in Charges : Recorded(x) /\ table[x].order = o}

\* ORDER BY created_at DESC LIMIT 1
LookUp(c) ==
    /\ pc[c] = "lookup"
    /\ \E x \in RowsOf(asked[c]) :
          /\ \A y \in RowsOf(asked[c]) : table[y].born <= table[x].born
          /\ Take(c, x)
    /\ Goto(c, "fetching")
    /\ UNCHANGED <<gateway, orderOf, table, kind, asked, at, written, fresh, before,
                   unrecorded, blind, shown>>

\* No row, or the statement failed: the model is told there is no charge.
FindNone(c) ==
    /\ pc[c] = "lookup"
    /\ \/ RowsOf(asked[c]) = {} /\ UNCHANGED blind
       \/ blind' = blind \cup {c}
    /\ Goto(c, "none")
    /\ UNCHANGED <<gateway, orderOf, table, kind, asked, charge, at, since, written,
                   fresh, before, unrecorded, shown>>

\* Fault: the gateway's answer to another call is used again.
FetchCached(c) ==
    /\ pc[c] = "fetching"
    /\ Goto(c, "fetched")
    /\ \E i \in {Len(gateway[charge[c]])} \cup {at[d] : d \in {e \in Calls : charge[e] = charge[c] /\ at[e] > 0}} :
          at' = [at EXCEPT ![c] = i]
    /\ fresh' = [fresh EXCEPT ![c] = TRUE]
    /\ UNCHANGED <<gateway, orderOf, table, kind, asked, charge, since, written, before,
                   unrecorded, blind, shown>>

Fetch(c) ==
    /\ pc[c] = "fetching"
    /\ Goto(c, "fetched")
    /\ at' = [at EXCEPT ![c] = Len(gateway[charge[c]])]
    /\ fresh' = [fresh EXCEPT ![c] = TRUE]
    /\ UNCHANGED <<gateway, orderOf, table, kind, asked, charge, since, written, before,
                   unrecorded, blind, shown>>

FetchFails(c) ==
    /\ pc[c] = "fetching"
    /\ Goto(c, "error")
    /\ UNCHANGED <<gateway, orderOf, table, kind, asked, charge, at, ghosts>>

\* Fault: the status goes to every charge of the order.
SyncOrder(c) ==
    /\ pc[c] = "fetched"
    /\ Goto(c, "showing")
    /\ table' = [x \in Charges |-> IF Recorded(x) /\ table[x].order = table[charge[c]].order
                                   THEN [table[x] EXCEPT !.status = Answer(c)] ELSE table[x]]
    /\ IF Recorded(charge[c]) THEN Note(c) ELSE UNCHANGED <<written, fresh>>
    /\ UNCHANGED <<gateway, orderOf, kind, asked, charge, at, since, before, unrecorded,
                   blind, shown>>

\* UPDATE ... WHERE external_id, whatever the row says now; none if there is no row.
Sync(c) ==
    /\ pc[c] = "fetched"
    /\ Goto(c, "showing")
    /\ IF Recorded(charge[c])
       THEN table' = [table EXCEPT ![charge[c]].status = Answer(c)] /\ Note(c)
       ELSE UNCHANGED <<table, written, fresh>>
    /\ UNCHANGED <<gateway, orderOf, kind, asked, charge, at, since, before, unrecorded,
                   blind, shown>>

SyncFails(c) ==
    /\ pc[c] = "fetched"
    /\ Goto(c, "showing")
    /\ UNCHANGED <<gateway, orderOf, table, kind, asked, charge, at, ghosts>>

\* Fault: the row decides whether the charge can still be paid.
PayableByRow(c) == kind[c] = "generate" \/ table[charge[c]].status = "pending"

\* The QR code of a new charge is always published, that of an old one while
\* it can be paid.
Payable(c) == kind[c] = "generate" \/ Answer(c) = "pending"

PublishQr(c) ==
    /\ pc[c] = "showing" /\ Payable(c)
    /\ Goto(c, "ok")
    /\ shown' = shown \cup {c}
    /\ UNCHANGED <<gateway, orderOf, table, kind, asked, charge, at, since, written,
                   fresh, before, unrecorded, blind>>

\* Nothing to publish, or _publicar_qr fails.
AnswerWithoutQr(c) ==
    /\ pc[c] = "showing"
    /\ Goto(c, "ok")
    /\ UNCHANGED <<gateway, orderOf, table, kind, asked, charge, at, ghosts>>

-----------------------------------------------------------------------------
Next ==
    \/ \E x \in Charges : Move(x)
    \/ \E c \in Calls :
          \/ \E o \in Orders \cup {NoOrder} : Generate(c, o)
          \/ \E x \in Charges : CheckById(c, x)
          \/ \E o \in Orders : CheckByOrder(c, o)
          \/ RefuseCall(c) \/ GatewayCreates(c) \/ PostFails(c) \/ Record(c) \/ RecordFails(c)
          \/ LookUp(c) \/ FindNone(c) \/ Fetch(c) \/ FetchFails(c)
          \/ Sync(c) \/ SyncFails(c) \/ PublishQr(c) \/ AnswerWithoutQr(c)

Spec == Init /\ [][Next]_vars

-----------------------------------------------------------------------------
Statuses == {"paid", "pending", "failed", "cancelled", "refunded"}
Rows == [order : Orders \cup {NoOrder}, status : Statuses, born : Nat \ {0}] \cup {NoRow}

TypeOK ==
    /\ gateway \in [Charges -> Seq(RawStatuses)]
    /\ orderOf \in [Charges -> Orders \cup {NoOrder}]
    /\ table \in [Charges -> Rows]
    /\ pc \in [Calls -> Over \cup {"idle", "posting", "posted", "lookup", "fetching",
                                   "fetched", "showing"}]
    /\ kind \in [Calls -> {"generate", "check"}]
    /\ asked \in [Calls -> Orders \cup {NoOrder}]
    /\ charge \in [Calls -> Charges \cup {NoCharge}]
    /\ at \in [Calls -> Nat]

(* The book says of a charge only what the gateway has said of that very charge,
   and files it under the order it was made for: however calls of several turns
   interleave, no status lands on another charge of the order. *)
BookFollowsGateway ==
    \A x \in Charges : Recorded(x) =>
        /\ written[x] \in 1..Len(gateway[x])
        /\ table[x].status = StatusOf(gateway[x][written[x]])
        /\ table[x].order = orderOf[x]

(* "Paid", and the decision to show the QR code again, rest on a status the charge
   had while the call was running, never on one from before it: a charge settled
   before it is asked about is not offered for a second payment. *)
CheckIsCurrent ==
    \A c \in Calls : pc[c] = "ok" /\ kind[c] = "check" =>
        \E i \in since[c]..Len(gateway[charge[c]]) :
            /\ i > 0 /\ Answer(c) = StatusOf(gateway[charge[c]][i])
            /\ c \in shown => StatusOf(gateway[charge[c]][i]) = "pending"

(* "Nenhuma cobranca encontrada" for an order that had been charged needs a fault:
   the look-up failed, or the INSERT of every charge announced before did. *)
NoneNeedsAFault ==
    \A c \in Calls : pc[c] = "none" =>
        \/ c \in blind
        \/ \A g \in before[c] :
              pc[g] = "ok" /\ asked[g] = asked[c]
                  => charge[g] \in unrecorded

(* The UPDATE is unconditional, so an older answer can replace a newer one; but
   only that of a call during which another call has written the row.  Checks
   made one after the other never take a charge back. *)
RegressionNeedsOverlap ==
    [][\A x \in Charges : written'[x] < written[x] =>
          \E c \in Calls : charge[c] = x /\ pc[c] \in {"posted", "fetched"} /\ ~fresh[c]
                           /\ pc'[c] = "showing"]_vars

(* "Idempotencia: um retry de rede nao gera duas cobrancas": an order charged again
   after an attempt that failed on the network has one charge. *)
RetryChargesOnce ==
    \A c, d \in Calls :
        c \in before[d] /\ pc[c] = "error" /\ kind[d] = "generate"
        /\ asked[c] = asked[d] /\ asked[c] # NoOrder
        => charge[c] = NoCharge \/ charge[d] \in {NoCharge, charge[c]}
=============================================================================
