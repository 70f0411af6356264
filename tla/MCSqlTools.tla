----------------------------- MODULE MCSqlTools -----------------------------
(* Instances of SqlTools for the model checker. *)
EXTENDS SqlTools

CONSTANTS erp, crm, pedidos, itens

\* Two questions that differ in what the key leaves out, one on another source.
MCQuestions ==
    {[source |-> erp, text |-> "totals", detail |-> "all fields"],
     [source |-> erp, text |-> "totals", detail |-> "some fields"],
     [source |-> crm, text |-> "totals", detail |-> "all fields"]}

MCEngine == (erp :> "postgresql") @@ (crm :> "sqlite")

Stmt(verb, table, where, returns, ref) ==
    [verb |-> verb, table |-> table, where |-> where, returns |-> returns, ref |-> ref]

\* An order, an item that names the order written first, a change of the order,
\* and a delete without a condition, which the guardrails refuse.
MCStatements ==
    {Stmt("insert", pedidos, FALSE, TRUE, 0),
     Stmt("insert", itens, FALSE, FALSE, 1),
     Stmt("update", pedidos, TRUE, FALSE, 0),
     Stmt("delete", pedidos, FALSE, FALSE, 0)}

MCWriteTables == {pedidos, itens}
=============================================================================
