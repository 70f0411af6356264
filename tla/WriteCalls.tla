----------------------------- MODULE WriteCalls -----------------------------
(***************************************************************************)
(* What the writing tools promise the model, whatever transaction, engine  *)
(* or retry is behind them: the calls of a turn come one after the other;  *)
(* the statements of a call take effect all at once, at most once, between *)
(* its beginning and its report, never after it; "ok" says that they have, *)
(* and "error" leaves it open.  app/tools.py, execute_sql_write and        *)
(* execute_sql_transaction, as app/datasources.py serves them.             *)
(***************************************************************************)
EXTENDS Integers, Sequences

CONSTANT MaxBatch   \* statements in one call

VARIABLES
    sizes,     \* sizes[c]: statements of writing call c
    effects,   \* effects[c]: those of them that are in the database
    told       \* told[c]: what the call told the model

vars == <<sizes, effects, told>>

Init == sizes = <<>> /\ effects = <<>> /\ told = <<>>

\* The last call to begin, and whether it has still to report.
Latest == Len(sizes)
InProgress == Latest = Len(told) + 1

\* A call begins with none of its statements in effect.
Add(n) ==
    /\ ~InProgress
    /\ sizes' = Append(sizes, n)
    /\ effects' = [c \in DOMAIN sizes' |-> IF c \in DOMAIN sizes THEN effects[c] ELSE {}]

Begin(n) == Add(n) /\ n > 0 /\ UNCHANGED told

\* A call the guardrails turn down reports as it begins.
Refuse(n) == Add(n) /\ told' = Append(told, "error")

TakeEffect ==
    /\ InProgress /\ effects[Latest] = {}
    /\ effects' = [effects EXCEPT ![Latest] = 1..sizes[Latest]]
    /\ UNCHANGED <<sizes, told>>

Report(outcome) ==
    /\ InProgress
    /\ outcome = "ok" => effects[Latest] = 1..sizes[Latest]
    /\ told' = Append(told, outcome)
    /\ UNCHANGED <<sizes, effects>>

Next ==
    \/ \E n \in 0..MaxBatch : Begin(n) \/ Refuse(n)
    \/ TakeEffect
    \/ \E outcome \in {"ok", "error"} : Report(outcome)

Spec == Init /\ [][Next]_vars
=============================================================================
