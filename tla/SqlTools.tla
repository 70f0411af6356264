------------------------------ MODULE SqlTools ------------------------------
(***************************************************************************)
(* What one turn reads and writes in the customer's databases: the read    *)
(* cache of the turn (app/tools.py, run_sql_query, query_mongo), the two   *)
(* writing tools (execute_sql_write, execute_sql_transaction) and the      *)
(* transaction they run (app/datasources.py, _run_transaction).  The       *)
(* turn's calls come one after the other; other writers of the same        *)
(* database interleave with the statements of a transaction.               *)
(* A query result is the set of rows committed when it ran.                *)
(***************************************************************************)
EXTENDS Integers, SequencesExt

CONSTANTS
    Sources,      \* datasources of the request
    Engine,       \* Engine[s]: its kind, of those that run transactions
    Questions,    \* reads a model may ask for: [source, text, detail]
    WriteTables,  \* write_tables of the request
    Statements,   \* statements a model may write: [verb, table, where, returns, ref]
    MaxBatch,     \* statements in one transaction (50 in the code)
    MaxWrites,    \* bound: writing calls in the turn
    MaxForeign    \* bound: rows other writers commit

ASSUME SqlAssumption ==
    /\ MaxBatch \in Nat \ {0} /\ MaxWrites \in Nat /\ MaxForeign \in Nat
    /\ \A q \in Questions : q.source \in Sources
    /\ \A st \in Statements : st.ref \in Nat /\ (st.returns => st.verb = "insert")
    /\ Engine \in [Sources -> {"postgresql", "mysql", "sqlite"}]

VARIABLES
    rows,      \* rows[s]: committed rows of source s
    lastId,    \* lastId[s]: the last id its sequence gave out
    cache,     \* context["leituras"]: key |-> the result kept
    pc,        \* idle, executing, or committed
    source,    \* the source being written
    batch,     \* statements of the call in progress
    results,   \* ids they have returned so far
    staged     \* rows written and not committed

(* History variables. *)
VARIABLES
    answer,    \* what the read just made told the model
    told,      \* told[c]: what writing call c told the model
    sizes      \* sizes[c]: its number of statements

work == <<pc, source, batch, results, staged>>
vars == <<rows, lastId, cache, work, answer, told, sizes>>

NoId == 0
NoSource == "none"

Init ==
    /\ rows = [s \in Sources |-> {}] /\ lastId = [s \in Sources |-> 0]
    /\ cache = <<>> /\ answer = <<>>
    /\ pc = "idle" /\ source = NoSource /\ batch = <<>> /\ results = <<>> /\ staged = {}
    /\ told = <<>> /\ sizes = <<>>

-----------------------------------------------------------------------------
(* Reads. *)

\* The key leaves out the projection of a find and the spacing of a query.
Key(q) == <<q.source, q.text>>

\* Same key in this turn: the result is handed out again, with a warning.
Reuse(q) ==
    /\ pc = "idle" /\ Key(q) \in DOMAIN cache
    /\ answer' = cache[Key(q)]
    /\ UNCHANGED <<rows, lastId, cache, work, told, sizes>>

\* The query runs and its result is registered as an artifact and kept.
Read(q) ==
    /\ pc = "idle" /\ Key(q) \notin DOMAIN cache
    /\ LET result == [asked |-> q, seen |-> rows[q.source]]
       IN  /\ cache' = [k \in DOMAIN cache \cup {Key(q)} |->
                           IF k = Key(q) THEN result ELSE cache[k]]
           /\ answer' = result
    /\ UNCHANGED <<rows, lastId, work, told, sizes>>

\* The query raises, or registering the artifact does: nothing is kept.
ReadFails(q) ==
    /\ pc = "idle" /\ Key(q) \notin DOMAIN cache
    /\ answer' = <<>>
    /\ UNCHANGED <<rows, lastId, cache, work, told, sizes>>

-----------------------------------------------------------------------------
(* Writes. *)

\* validate_write.
Validated(st) ==
    /\ st.verb \in {"insert", "update", "delete"}
    /\ st.verb # "insert" => st.where
    /\ st.table \in WriteTables

Accepted(b) == Len(b) \in 1..MaxBatch /\ \A i \in DOMAIN b : Validated(b[i])

Called == Len(told)

Refuse(b) ==
    /\ pc = "idle" /\ Called < MaxWrites /\ ~Accepted(b)
    /\ told' = Append(told, "error") /\ sizes' = Append(sizes, Len(b)) /\ answer' = <<>>
    /\ UNCHANGED <<rows, lastId, cache, work>>

\* execute_sql_write is a batch of one.
Start(s, b) ==
    /\ pc = "idle" /\ Called < MaxWrites /\ Accepted(b)
    /\ pc' = "executing" /\ source' = s /\ batch' = b
    /\ sizes' = Append(sizes, Len(b)) /\ answer' = <<>>
    /\ UNCHANGED <<rows, lastId, cache, results, staged, told>>

Position == Len(results) + 1
Current == batch[Position]

\* _substitute_placeholders: the id returned by an earlier statement.
Resolvable(st) == st.ref = 0 \/ (st.ref \in DOMAIN results /\ results[st.ref] # NoId)

\* Fault: the placeholder is the table's newest id.
ResolveNewest(st) == IF st.ref = 0 THEN NoId ELSE lastId[source]

Resolve(st) == IF st.ref = 0 THEN NoId ELSE results[st.ref]

\* What a statement returns to the batch: its RETURNING clause; the id it
\* generated; or, SQLite, the last id generated on this connection.
Returned(st, id) ==
    CASE Engine[source] = "postgresql" -> IF st.returns THEN id ELSE NoId
      [] Engine[source] = "mysql" -> id
      [] Engine[source] = "sqlite" ->
            IF id # NoId THEN id ELSE IF results = <<>> THEN NoId ELSE Last(results)

Effect(st, id) ==
    [call |-> Called + 1, pos |-> Position, stmt |-> st, id |-> id, parent |-> Resolve(st)]

\* Fault: every statement commits on its own.
ExecuteAutocommit ==
    /\ pc = "executing" /\ Position <= Len(batch) /\ Resolvable(Current)
    /\ LET id == IF Current.verb = "insert" THEN lastId[source] + 1 ELSE NoId
       IN  /\ rows' = [rows EXCEPT ![source] = @ \cup {Effect(Current, id)}]
           /\ lastId' = [lastId EXCEPT ![source] = IF id = NoId THEN @ ELSE id]
           /\ results' = Append(results, Returned(Current, id))
    /\ UNCHANGED <<cache, pc, source, batch, staged, answer, told, sizes>>

Execute ==
    /\ pc = "executing" /\ Position <= Len(batch) /\ Resolvable(Current)
    /\ LET id == IF Current.verb = "insert" THEN lastId[source] + 1 ELSE NoId
       IN  /\ staged' = staged \cup {Effect(Current, id)}
           /\ lastId' = [lastId EXCEPT ![source] = IF id = NoId THEN @ ELSE id]
           /\ results' = Append(results, Returned(Current, id))
    /\ UNCHANGED <<rows, cache, pc, source, batch, answer, told, sizes>>

\* The call is over: nothing of it is left in the worker thread.
Report(outcome) ==
    /\ pc' = "idle" /\ source' = NoSource /\ batch' = <<>> /\ results' = <<>>
    /\ staged' = {}
    /\ told' = Append(told, outcome)

\* Fault: the connection is kept for the next call, and not rolled back.
FailWithoutRollback ==
    /\ pc = "executing"
    /\ pc' = "idle" /\ source' = NoSource /\ batch' = <<>> /\ results' = <<>>
    /\ told' = Append(told, "error")
    /\ UNCHANGED <<rows, lastId, cache, staged, answer, sizes>>

\* Connecting, a placeholder or a statement raises: the batch is rolled back.
Fail ==
    /\ pc = "executing"
    /\ Report("error")
    /\ UNCHANGED <<rows, lastId, cache, answer, sizes>>

\* Fault: the connection is closed without a commit.
CommitForgotten ==
    /\ pc = "executing" /\ Position > Len(batch)
    /\ pc' = "committed"
    /\ UNCHANGED <<rows, lastId, cache, source, batch, results, staged, answer, told, sizes>>

Commit ==
    /\ pc = "executing" /\ Position > Len(batch)
    /\ pc' = "committed"
    /\ rows' = [rows EXCEPT ![source] = @ \cup staged]
    /\ UNCHANGED <<lastId, cache, source, batch, results, staged, answer, told, sizes>>

\* The connection breaks at the commit, or something raises right after it:
\* the database has the batch, the tool reports an exception.
CommitUnacknowledged ==
    /\ pc = "committed"
    /\ Report("error")
    /\ UNCHANGED <<rows, lastId, cache, answer, sizes>>

\* Fault: a transaction does not clear the reads.
SucceedKeepingReads ==
    /\ pc = "committed"
    /\ Report("ok")
    /\ cache' = IF Len(batch) = 1 THEN <<>> ELSE cache
    /\ UNCHANGED <<rows, lastId, answer, sizes>>

\* _invalidar_leituras: every read of the turn is dropped.
Succeed ==
    /\ pc = "committed"
    /\ Report("ok")
    /\ cache' = <<>>
    /\ UNCHANGED <<rows, lastId, answer, sizes>>

\* Another writer commits a row.
Foreign(s) ==
    /\ Cardinality({r \in UNION Range(rows) : r.call = 0}) < MaxForeign
    /\ lastId' = [lastId EXCEPT ![s] = @ + 1]
    /\ rows' = [rows EXCEPT ![s] = @ \cup {[call |-> 0, id |-> lastId[s] + 1]}]
    /\ UNCHANGED <<cache, work, answer, told, sizes>>

-----------------------------------------------------------------------------
Next ==
    \/ \E q \in Questions : Reuse(q) \/ Read(q) \/ ReadFails(q)
    \/ \E b \in BoundedSeq(Statements, MaxBatch) :
          Refuse(b) \/ \E s \in Sources : Start(s, b)
    \/ Execute \/ Fail \/ Commit \/ CommitUnacknowledged \/ Succeed
    \/ \E s \in Sources : Foreign(s)

Spec == Init /\ [][Next]_vars

-----------------------------------------------------------------------------
TypeOK ==
    /\ pc \in {"idle", "executing", "committed"}
    /\ pc = "idle" => source = NoSource /\ batch = <<>> /\ results = <<>> /\ staged = {}
    /\ pc # "idle" => source \in Sources /\ Accepted(batch)
    /\ results \in Seq(Nat) /\ Len(results) <= Len(batch)
    /\ DOMAIN cache \subseteq {Key(q) : q \in Questions}
    /\ told \in Seq({"ok", "error"})
    /\ Len(sizes) = Called + (IF pc = "idle" THEN 0 ELSE 1)

Committed == UNION Range(rows)
Written(c) == {r \in Committed : r.call = c}

(* A transaction is all or nothing, whatever fails and whoever else writes. *)
AllOrNothing ==
    \A c \in DOMAIN sizes : {r.pos : r \in Written(c)} \in {{}, 1..sizes[c]}

(* A call that told the model "ok" is in the database, statement by statement. *)
OkIsWritten ==
    \A c \in DOMAIN told : told[c] = "ok" => {r.pos : r \in Written(c)} = 1..sizes[c]

(* The calls implement WriteCalls: a batch takes effect at once and before its
   report, whatever fails, and no step of the turn or of another writer adds to
   it or takes from it afterwards.  AllOrNothing and OkIsWritten follow. *)
W == INSTANCE WriteCalls
         WITH effects <- [c \in DOMAIN sizes |-> {r.pos : r \in Written(c)}]
WritesAreAtomic == W!Spec

(* A child row never names a row of another writer or of another call: its
   parent was inserted before it in its own transaction, with other writers
   taking ids from the same sequence in between. *)
ChildrenNameTheirParent ==
    \A r \in Committed : r.call # 0 /\ r.stmt.ref # 0 =>
        \E p \in Written(r.call) :
            p.pos <= r.stmt.ref /\ p.stmt.verb = "insert" /\ p.id = r.parent

(* A read never shows the model less than what it was told it has written:
   every answer, reused or not, contains the writes reported "ok" before it. *)
ReadsSeeOwnWrites ==
    [][answer' # <<>> =>
          \A r \in rows[answer'.asked.source] :
              (r.call # 0 /\ r.call <= Called /\ told[r.call] = "ok") => r \in answer'.seen]_answer
=============================================================================
