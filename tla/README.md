# kernel-llm in TLA+

The kernel answers one conversation turn per request. A supervisor model
delegates to specialists, each specialist calls tools, and everything the turn
does is streamed to the client as server-sent events. Beside the turn there are
jobs that a task queue delivers: ingestion of files and extraction of memories.

This directory holds the TLA+ modules of the parts of that program whose
correctness depends on order, failure and concurrency, the TLC configurations
that check them, and proofs that the TLA+ proof system checks.

| module | what it is | source |
| --- | --- | --- |
| `Turn` | the two nested tool loops of a turn | `app/graph.py` |
| `RunStream` | producer task, event queue, generator, two clocks, client | `app/runs.py` |
| `EventStream` | what the client of a run is promised (abstract) | `app/runs.py` |
| `WriteCalls` | what the writing tools promise (abstract) | `app/tools.py`, `app/datasources.py` |
| `SqlTools` | read cache, writing tools and their transaction | `app/tools.py`, `app/datasources.py` |
| `Ingestion` | deliveries of one file's ingestion task | `app/ingestion.py` |
| `Memories` | extraction tasks of one thread | `app/memories.py` |
| `Payments` | PIX charges: gateway, charge table, two tools | `app/payments.py`, `app/tools.py` |
| `Artifacts` | payloads and their rows, output tools, direct uploads | `app/storage.py`, `app/tools_output.py`, `app/tools.py`, `app/main.py` |
| `Conversation` | the history of one thread and what a model sees of it | `app/graph.py`, `app/runs.py`, `app/memories.py` |
| `LazyPools` | the graph singleton, the pools, the shutdown | `app/graph.py`, `app/trace.py`, `app/payments.py`, `app/main.py` |
| `ReasoningFilter` | the filter over a stream cut into chunks | `app/providers.py` |
| `Turn_proofs`, `RunStream_proofs`, `SqlTools_proofs`, `Ingestion_proofs`, `Memories_proofs`, `Payments_proofs`, `Artifacts_proofs` | theorems about those modules | |
| `Kernel_proofs` | theorems about `Conversation`, `LazyPools` and `ReasoningFilter` | |
| `MCTurn`, `MCSqlTools`, `MCPayments`, `MCArtifacts`, `MCReasoningFilter` | values of the constants for TLC | |

`PROJECT.json` lists the runs, their properties, and for every definition the
source lines it models.

## Inventory

For each part: its state; its operations; what it interacts with; what is hard;
what makes it correct.

**Supervisor and specialist loops** (`graph.py`, `_supervisor_node`,
`_run_specialist`). State: the transcript of the supervisor and of the specialist
running, the step and round counters, the turn's tool counter in `run_config`,
`RUN_CONTEXT`. Operations: open the turn, call a model, delegate, run or refuse a
tool, note the round's artifacts, force an answer in a `for ... else`. It calls
providers, the tool catalog, external servers and the trace, and writes events to
the run stream. Hard: limits nested in limits, half-finished specialists, state
shared with tool handlers through one context object. Correct when every tool
call is answered before a model is called again, the budget of the turn holds
over all specialists, whoever writes to the user knows what is on the screen, and
the turn ends.

**Run stream** (`runs.py`, `event_stream`). State: the queue, the producer task,
the deadline of the turn, the current wait. Operations: emit, conclude, wait,
take, expire, close, be closed by the client. Hard: two coroutines and a worker
thread, two clocks, cancellation at an await, a client that leaves. Correct when
a client that stays gets a terminal event, `done` follows the stored reply, the
deadline cuts whatever the turn does, as long as the client takes what it is sent,
and no task outlives its stream.

**Graph singleton** (`graph.py`, `get_graph`, `close_graph`). State: pool,
checkpointer and compiled graph in module globals, built by the first request.
Beside it the pools of `trace.py` and `payments.py`, built the same way. Hard: two
first requests across an await, a `setup()` that fails. Correct when the graph that
serves works on the pool the shutdown will close, and nothing stays open unnoticed.

**Conversation history** (`graph.py`, the checkpointer, `_history_messages`).
State: the messages of a thread. Operations: load, trim or summarise, append.
Hard: two runs on one thread, the boundary of the tail. Correct when a turn that is
alone on its thread stays in the history, and a model is sent its question and no more
messages than the limit.

**Read cache and SQL tools** (`tools.py`, `datasources.py`). State:
`context["leituras"]`, the customer's databases. Operations: read with reuse,
write one statement, write a batch in a transaction, invalidate. Hard: other
writers between the statements, a commit whose answer is lost, generated ids
carried from parent to child, what the cache key leaves out. Correct when a batch
is all or nothing, children name their parent, only validated statements are
written and a read shows what the turn has written.

**Tool catalog and external servers** (`tools.py`). State: an in-memory MCP
session per turn, sessions to external servers. Operations: list, call. Hard: the
session keeps the context it saw when it was opened.

**Payments** (`payments.py`, three tools). State: `payment_charges` and the
gateway. Operations: create a charge, record it, look it up, synchronise its
status. Hard: a fresh idempotency key per attempt, recording that may fail after
charging, statuses written in the order answers arrive. Correct when the table says
of a charge what the gateway said of it, an answer is not older than the question,
and a settled charge is not offered for payment again.

**Memories** (`memories.py`). State: `memories`, `memory_extraction_state`.
Operations: read from the cursor, extract with a model, deduplicate, insert, move
the cursor. Hard: two deliveries for one thread, a failure half-way, the window of
eight messages. Correct when no fact is stored twice and no message is skipped.

**Ingestion** (`ingestion.py`). State: `files.status`, `files.chunk_count`,
`file_chunks`. Operations: mark, prepare, delete, insert, finish or fail; search.
Hard: overlapping and repeated deliveries on an autocommit connection, death
half-way. Correct when the chunks end complete and the status settles.

**Artifact storage** (`storage.py`, artifact endpoints of `main.py`). State:
payloads and the `artifacts` table. Operations: save the payload then insert the
row; register-init and register-complete. Hard: a failure between payload and row,
a payload replaced after its size was checked, a completion sent for any id. Correct
when a row names the payload it vouches for and what is left without a row goes back
to a failure.

**Output tools** (`tools_output.py`, `execute_python` and `generate_forecast` in
`tools.py`). No state of their own: each reads a dataset from the artifact storage
and registers one or more artifacts there.

**Trace and usage** (`trace.py`). Best-effort inserts through their own pool, after
the model's reply. Hard: a model call nobody accounts for, by omission, by a failed
insert or by a cancellation before it.

**Model providers** (`providers.py`). Calls to models, and the filter that takes
reasoning tags out of a stream of chunks. Hard: a tag cut in two by chunks.

**Other parts**: python sandbox (a subprocess with limits), attachments (builds
one message), embeddings (one call), forecast (numeric), configuration and start-up. They keep no state of their own between
calls; the hazards of the calls are those of the tools that make them.

## How the modules correspond to the code

### `Turn`

`pc` says where the node is suspended: *opening* (before the loop), *supervisor*
(about to call the supervisor's model), *delegating* (working through the calls
of its reply), *specialist*, *tools* and *specialistForced* (the same inside a
specialist), *forced* (the `else` of the loop), *answered*, *failed*, *cancelled*. `step` and
`round` are the loop variables, `used` is `run_config["_tool_calls_no_turno"]`,
`ctxAgent` is `RUN_CONTEXT["agent"]`, `exibidos` and `told` are the artifacts of the
specialist and the index `exibidos_antes`. A tool call is counted when it starts,
so a call that fails spends budget, as in the code. What models answer is a
choice: text, or one to `MaxFanOut` calls that may name an agent, a tool, or
something made up (`Stranger`). Prompts, results and the wording of notes are
abstracted to who has been told what. The history variables (`supOwed`, `spOwed`,
`stage`, `executed`, `published`, `relayed`, `delegated`, `modelCalls`,
`usageRows`, `lostRows`) record what providers, the client and the trace have seen; no
guard reads them, but for the bound `MaxLost`.

A model reply and its usage row are not one thing: `insert_usage` swallows every
exception, so `BilledCall` has the row written or lost, and `Cancelled`, the
`producer.cancel()` of the stream around the turn, may fall at any await, the one
between the reply and the INSERT included. Everywhere else a turn cut inside an await
leaves what a turn cut before or after it leaves.

### `RunStream` and `EventStream`

A step is what a coroutine runs from one await to the next. The producer begins,
emits, returns from the graph, has the reply stored, concludes, or raises.
The generator starts, waits in `wait_for`, is woken or times out, sends. `queue`
is the `asyncio.Queue`; `prazo` is the code's deadline. A cancellation is a request
(`cancelReq`) the producer meets at its next await; a SQL write in a worker thread
(`thread`) does not meet it at all: `late` counts the writes committed after the
stream was over, and `OneWriteOutlives` says that the one a cancellation finds in its
thread is the only one. The turn is left completely open here: it may
emit for ever, hang, or raise, so what is shown of the stream does not depend on
what `Turn` shows.

`EventStream` is the client's view: `ending` is the stream from the first terminal
event on. `RunStream` implements it with `open <- (cons # "ended")`.

### `SqlTools`

A read result is the set of rows committed when it ran. `cache` maps the key of
`_chave_de_leitura` to the result kept; a question has a `detail` that the key
leaves out (the projection of a Mongo `find`, the spacing inside a literal).
A writing call validates its whole batch (`Accepted`), executes its statements one
by one into `staged`, commits, and reports; `execute_sql_write` is a batch of one.
A placeholder is `ref`, the place of the statement it names counted from one, or 0
for none. `Returned` is what each engine gives back: a RETURNING clause
(PostgreSQL), `lastrowid` (MySQL), the connection's last rowid (SQLite). Ids come
from the table's sequence, which other writers (`Foreign`) share and a rollback does
not give back. A commit and the report of it are two steps: between them the
connection may break (`CommitUnacknowledged`). BigQuery, SQL Server, Oracle and
Firebird run no transactions; a batch on them ends in `Fail`. An UPDATE with a
RETURNING clause is left out of the statements.

`WriteCalls` is what a writing call promises the model, without sources, engines, staging
or rollback: a call begins, its statements take effect all at once and at most once, it
reports; `ok` says they have taken effect, `error` leaves it open. `SqlTools` implements it
with `effects[c]` <- the statements of call `c` that have a committed row; the step that
takes effect is `Commit`, and a read or another writer changes nothing.

### `Ingestion`

One element of `Jobs` per delivery of the same file. Each statement commits on its
own, because the pool is autocommit, so deliveries interleave between statements.
`StepFails` is any exception inside the `try`, `Lost` is a death of the process, a
statement that raises outside the `try`, or an answer that is lost: the queue then
delivers again. `chunks` keeps who inserted each chunk, since an insert belongs to
one delivery. A duplicate delivery can report `error` for a file whose chunks are
complete (its insert conflicts with the other's): the model shows it as a reachable
end, and `SettledComplete` says the chunks are all there all the same.

### `Memories`

One element of `Tasks` per extraction of the same thread; `Converse` is a turn that
checkpoints one more message meanwhile. A task loads the thread, reads the cursor,
has a model extract facts from the last `Window` messages it has not read, looks each
fact up and inserts it (two statements), and moves the cursor with GREATEST. A fact is a
message and a wording: what the similarity of embeddings recognises is the same wording,
and the comment in `memories.py:63-67` says that another one is not recognised. `Lost` is
an exception or a death at any point; an answer that is no JSON ends the task without
moving the cursor. Messages older than the window are marked as read without a model
having seen them: that is what the code does, and `NothingMarkedUnread` counts them as
read by that task.

### `Payments`

One element of `Calls` per tool call, of whatever turn. `gateway[x]` is the sequence of
statuses a charge has had: its last one is what a GET returns, and an answer in hand is a
place in it (`at`), so that "older" has a meaning. The statuses a gateway reports are
constants; `StatusOf` is `STATUS_MAP.get(raw, "pending")`. `Move` is the world outside:
a customer pays, a charge expires, a dispute is opened. Every await is a step and can
fail: a POST can be lost before or after the gateway has created the charge
(`PostFails` in `posting` or in `posted`), the INSERT and the UPDATE are best effort. The two
ways out of `_publicar_qr` are `PublishQr` and `AnswerWithoutQr`. A payment id given to
`check_payment_status` is one of the gateway's, not necessarily one of the table's.

### `Artifacts`

Object store and database are two systems, so a payload and its row are two steps with
a failure possible between them. A tool call reads its dataset (`Open`, `Load`),
registers what it has to (`Save`, `Insert`, as often as `left` says) and answers, or
fails at any point and answers with an error alone. Only the number of artifacts
tells the five tools apart: one for a chart, a spreadsheet or a document, two for a
forecast, up to `MaxOutputs` for `execute_python`. What a tool saves is of any size:
`register_artifact` measures nothing. An upload has a signed URL that takes any number
of PUTs until it expires; a content is its size class and the number of PUTs. A
`register-complete` takes any id, of an upload or of a tool: it measures what is at the
path and then, in a step of its own, deletes or inserts, while
the uploader can write again and another completion of the same id can run.
`verified` is what a row vouches for, the content a tool saved or a completion measured.
`reused` marks the uploads written again after a completion had looked at them, and
`Forfeit` names the tool's artifacts that a completion deletes for their size.

### `Conversation`

`thread` is what the newest checkpoint holds, `base` what a turn's graph runs on: the
node's result is added to that, not to what has been stored meanwhile. `See` is
`_historico_para_o_modelo` with its negative indices (`LastN`, `AllButLastN`), the
default for a missing limit, the floor of one message, and a summary that may fail.
`Shown` keeps the messages a summary stands for; sent, it is one more message of the
user's, and `Sent` counts it. With `compress_history` and a limit of one the model is
therefore sent two messages (the comment at `graph.py:95-98` says that the API
accepts no limit below four).
A turn can die at any point, and leaves its question in the thread if the input was
checkpointed. `Extract` is `extract_memories` reduced to its cursor; `Memories` has it in
full.

### `LazyPools`

What a request does between two awaits that suspend is one action: `Build` runs to the
await of `setup()`. `graph`, `checkpointer` and `pool` are the module's globals, each
given as the request that made it. `FinishSetup` reads the global checkpointer again,
which another request may have replaced; that is why the graph always works on the
pool `close_graph` will find. `overtaken` and `failed` are history variables.

### `ReasoningFilter`

`Drain` is the loop of `feed` as a recursive function (`Loop`) of what is held, whether a
block is open, and what was emitted; a pass of the loop finds its tag and goes on after
it (`Pass`) or keeps back what could be the beginning of one (`KeepBack`). `Feed` is a chunk of the stream, `Flush` its end.
Letters are values and the tags are the shortest with the same overlaps as `<think>` and
`</think>`: a closing tag that begins with the first letter of the opening one and
ends with the rest of it. `Visible` is the reference: the definition of the text without its blocks,
in one pass over the whole of it.

`LazyPools` and `ReasoningFilter` have names of their own for what is elsewhere called
`Init`, `Next`, `Spec` and `vars` (`PoolsSpec`, `FilterSpec`), because `Kernel_proofs` extends
them together with `Conversation`.

## Runs

| run | instance | what it shows |
| --- | --- | --- |
| `turn` | two specialists with different tools, fan-out 2, two steps, two rounds, two tool calls | transcripts, budget, announcements, stage, call bound, replies without a usage row, end of the turn |
| `run_stream` | silence 2, total 5, queue 3, clock to 7 | refinement of `EventStream`, the deadline, one late write at most, no leak, the end of the stream unless a connected client stalls |
| `sql_tools` | two databases (PostgreSQL, SQLite), four statements, batches of two, two writing calls, one foreign row | refinement of `WriteCalls` (all or nothing, `ok` is written, nothing undone), parents, reads after writes |
| `ingestion` | three deliveries, two chunks, two faults | chunks complete, redelivery repairs, status settles |
| `memories` | two tasks, window 2, three messages, two wordings, two faults | the cursor advances, nothing of a dead task is lost, later tasks keep off what was read |
| `payments` | three calls, two charges, one order and the empty one, two gateway statuses | the book follows the gateway, checks are current, "none found" has a fault, only overlaps take a status back |
| `artifacts` | two artifacts, two tool calls, two completions, two outputs, two PUTs | rows name the payload they vouch for, leftovers have a fault, tools work on what was published |
| `conversation` | three turns, limits none to 3, default 4 | what the model is sent, and that only overlapping turns lose messages |
| `lazy_pools` | four requests | the graph's pool is the one that is closed; who leaves one open |
| `reasoning_filter` | four letters, tags of three and four, texts to eight, chunks to three | every text in every cut |
| `error_without_done` | as `run_stream` | violated: `done`, then a timeout error |
| `retry_charges_twice` | as `payments` | violated: two charges after a retried POST |

The two violated properties are what a test and a comment of the repository say and the
code does not do; `PROJECT.json` quotes both under "findings".

Other places where code and text disagree, met while translating the code. Each is
visible in one or two lines of it, so no run is spent on them:

- `tests/test_usage.py:1`, "every model call in a run leaves a usage_records row": the summary
  of a long history (`graph.py:67`) and the pages of `analyze_pdf_pages`
  (`tools.py:758`) leave none, and neither does a reply whose INSERT fails
  (`trace.py:57`) or is cut off by a cancellation. `UnbilledBounded` counts these and no
  more among the chat models' replies; embeddings and the transcription of audio, called
  outside the loops, are not counted by it.
- `runs.py:16`, the limits end the run: a write in a worker thread (`datasources.py:722`) commits
  after them. `OneWriteOutlives` says how many.
- `tools.py:834`, "nada foi gravado" for every exception of a transaction, also one of a
  commit whose answer was lost (`CommitUnacknowledged`).
- `tools.py:401-403` and `tools.py:265`: the key of a read leaves out the projection of a
  `find` and the spacing inside a literal, so a different query can get a kept result (`Key`).
- `datasources.py:785`: in SQLite a placeholder that names an UPDATE or DELETE gets the id of an
  earlier insert, where line 740 promises a refusal (`Returned`).
- `memories.py:3`, "so repeated facts don't accumulate": two overlapping extractions both store
  one (`CheckFact`, `StoreFact`).
- `main.py:178-190`: `register-complete` measures whatever is at the path of the id it is
  given. Sent with the id of a tool's artifact above the limit of uploads, which
  `register_artifact` never looks at, it deletes the payload behind a published row
  (`Measure`, `Refuse`). `PublishedIsWhole` has it as one of its two exceptions.
- `runs.py:16` again: while a connected client does not take the event it is sent, the
  generator is suspended at `runs.py:276` and looks at neither limit. `StreamEnds` has it
  as its exception.
- `storage.py:144`, "one-time PUT URL": it takes every PUT until it expires (`Put`).
- `payments.py:55`: `close_payments_pool` has no caller; the pool stays open at the shutdown
  (`CloseGraph`).

### Bounds, and why they are enough

- `MaxFanOut` 2: a reply with a refused call followed by another call, the
  shortest reply in which a forgotten answer shows. `MaxSteps` 2 and `MaxRounds` 2:
  a round after a round, and the `else` of both loops. `MaxToolCalls` 2 with two
  specialists: the ceiling is reached inside one specialist and across two.
  `MaxArtifacts` 1, `MaxPages` 1: published or not, one page call or none. `MaxLost` 1: a
  usage row lost and one written after it; the proofs cover every number.
- `TurnTimeout` 2, `TotalTimeout` 5: silence expires before the deadline, the
  deadline before silence, and both at one instant. `Horizon` 7 lets the clock pass
  the deadline by the length of a silence; `QueueBound` 3 holds a progress event, a
  terminal event and the sentinel. Only the order of the two clocks and of events between them matters.
- `MaxBatch` 2 stands for 50: a parent and a child, or a first and a failing second; the
  proofs cover every length. `MaxWrites` 2: a write after a reported or
  an unreported one. `MaxForeign` 1: one id taken between a parent and its child.
- three deliveries, so that a delete can come between two others; `NChunks` 2, so
  that a set of chunks can be partial; `MaxFaults` 2, a death and then a failure of
  the delivery that repairs it.
- two tasks, since every race is between one pair; `Window` 2 stands for 8 and is
  smaller than `MaxMessages` 3, so that messages fall out of it; two facts in one
  extraction, so that a task can die between two inserts.
- three calls on an order: one that charges and two that check, or two that charge; two
  charges, so that a status could land on the wrong one; `MaxStatuses` 2, one that is
  open and one that is settled, so that an answer can be old.
- `Artifacts`: two ids, so that one can be the input of the other or both the outputs of one
  call; two completions of one upload; `MaxPuts` 2, before and after a completion
  has measured. `MaxOutputs` 2 stands for 5: a failure between two outputs.
- three turns and limits 0 to 3 with a default of 4: a third turn has five messages before it
  answers, more than every limit, and the limits 1, 2 and 3 have halves 0 (raised to 1), 1 and 1.
- four requests: two in their setup at once, one after them, one after a failure.
- `MaxText` 8: a whole block of seven letters and a letter around it, or two openings and what
  looks like a tag; chunks up to three letters cut both tags at every place.

### Fairness

- `Turn`: `WF(TurnStep)`. A call of a model or of a tool returns or raises: each has a
  timeout of its own or is cut by the stream's deadline. Nothing is assumed of what
  models answer, and nothing obliges the stream to cancel the turn.
- `RunStream`: `WF(Start \/ Woken \/ TimedOut)`, the event loop runs the generator when
  what it awaits is there; `SF(Tick)`, time passes even if the clock is again and again held for a ready item;
  `WF(ThreadCommits)`, a statement in a worker thread ends; `WF(Cancelled)`, a
  cancelled task unwinds. Nothing is assumed of the turn, and nothing of the client: the
  steps out of *sending* are its own. A client that reads, however slowly, or leaves has a
  stream that ends; with one that stays connected and takes nothing more the generator is
  suspended in its `yield` for good, and `StreamEnds` says that this is the only other way.
- `Ingestion`: `WF(Step(j))` for each delivery. The queue delivers until it is
  answered and a running handler goes on; faults are never obliged to happen.

The other modules have only safety properties: nothing in the code makes a tool be called
again, an upload be completed or a second turn arrive. Deadlock is not checked: a turn, a
stream, a file's deliveries, an application that has shut down and the bounded number
of calls do come to an end.

## Proofs

All theorems are about every value of the constants that satisfies the named
assumptions: `LimitsAssumption` (the limits are positive), `NamesAssumption` (a made-up
name is no agent and no tool), `ClockAssumption` (the timeouts are positive),
`MemoriesAssumption` (the window is positive), `SqlAssumption` (bounds are natural numbers,
questions and engines are of the sources, only an insert returns an id), `IngestionAssumption`
(there is a delivery, a file has a positive number of chunks), `PaymentsAssumption` and `ArtifactsAssumption`
(the null values are no orders, charges, artifacts or tools; finitely many charges),
`PoolsAssumption` (`None` is no request), `ConversationAssumption` (limits are natural
numbers, the default one is positive, the turns are finitely many), `FilterAssumption` (the tags are two different texts of two or more letters). TLC
evaluates them on every run.

`Turn_proofs`. The inductive invariant `IInv` is `TypeOK` and five parts: a loop that
continues has rounds left (`LoopInv`), the calls owed an answer are exactly those still
pending (`OwedInv`), every published artifact is relayed to the supervisor or in the
list of the specialist running (`ArtifactInv`), context and stage name the running
specialist (`StageInv`), and tools executed never exceed the counter (`BudgetInv`). None
of the checked invariants is inductive alone: `TranscriptAnswered`, for instance, speaks
of the states in which a model is about to be called, and needs `OwedInv` in the states
between. From it follow `TypeCorrect`, `ToolBudgetHolds`, `TranscriptAnsweredHolds`,
`ArtifactsAnnouncedHolds` and `OneAgentOnStageHolds`. `ModelCallsBoundedHolds` has an
argument of its own: delegations are bounded by steps times fan-out, and every state is
given a cost (calls it has made plus the most its place in the loops still allows it to
have made) that no step exceeds; three lemmas about products do the arithmetic.
`UnbilledBoundedHolds` follows the replies that leave no usage row: one summary before the
loop, for each tool executed at most the pages it may look at, the rows lost, and one reply
more in the step that cancels (`UsageInv`). `TurnRunsOut` is the
part of `TurnEnds` that needs no fairness: `Work`, what the limits still leave a turn to do from
where it is, is a natural number, 0 only at the end, and every step makes it smaller.

`RunStream_proofs`. The invariant says what the queue can look like: only progress
events while the producer works, and once it has concluded at most the progress
events, one terminal event and the sentinel, in that order; which terminal event it is
goes with the stored reply; where the clock may stand; and what the client has
received. From it follow `TypeCorrect`, `OneWriteOutlivesHolds`
(once the stream is over a cancelled producer starts no second write), `DeadlineCutsHolds`
(an action property: no event is taken after the deadline) and `ImplementsEventStream`,
that every step of producer, generator, thread, clock and client is a step of
`EventStream` or changes nothing the client sees. `ClientConcludes` is an invariant proved of
`EventStream` alone and carried over by that refinement: at most two endings, the second one
only a timeout, `done` only with a stored reply, and some ending for a client that stays.

`Memories_proofs`. The invariant orders cursors, tasks and memories: a task at work has read
a cursor the row has reached; everything the row marks is covered; what a task stores lies
between the cursor it read and the length it loaded; a task that has marked never moves
again and the row has reached its length; and a task that began after it read the row
beyond that length. The last three are what makes `ReadOnce`, which speaks only of stored
memories, inductive. From it follow `TypeCorrect`, `NothingMarkedUnreadHolds`,
`ReadOnceHolds` and `CursorNeverGoesBackHolds`.

`SqlTools_proofs`. `AllOrNothing` speaks of committed rows, so the invariant follows the batch
before that: what is staged is what has been executed, place by place (`StagedInv`), an
id handed on is that of a staged insert at its place or before it, on each of the three
engines (`ParentInv`), no row has a call that has not begun, and what is kept of a read
has every row its turn was told of (`CacheInv`). One lemma per group of steps.
`WritesAreAtomicHolds` is the refinement of `WriteCalls`: a call that begins has nothing in the
database, a commit makes its rows exactly its batch, and every other step keeps the rows
of every call. `AllOrNothing` and `OkIsWritten` are invariants of `WriteCalls`; their theorems are
stated for a reader who wants them by name.

`Ingestion_proofs`. `CleanInv` describes a delivery that runs alone; `FrontierInv` says
that, without faults, each missing chunk has a delivery that will reach it without meeting a
chunk of another one, which is what keeps `SettledComplete` through overlapping deletes.
`SettledStatus` and `DeliveriesRunOut` are the parts of `StatusSettles` that need no fairness: a file
is not left in `processing` once its deliveries are over (`StatusInv`), and `Remaining(j)`, the
steps delivery `j` is from its end, goes down in every step of `j` that is no fault and stays in
the steps of the others.

`Payments_proofs`. The invariant says what a call has in hand where it is and that an
answer is no older than the moment the call took its charge up (`CallInv`), that a row no other
call has written since is not newer than the answer (`FreshInv`), and that an announced charge is in
the book or its INSERT failed (`OrderInv`). `NoneNeedsAFault` needs the last one for calls that
are over, and that they stay so (`OverStays`).

`Artifacts_proofs`. An artifact has one origin, and of a tool it is what the tool saved or,
once a completion was sent for it, deleted for its size (`OriginInv`); what a tool call has
made is in its answer but for the one it is registering (`ToolInv`); an upload not written
again is what a completion has measured, or was deleted for its size by another
(`UploadInv`), so that a deletion never meets the row of an upload; and a row has what it
vouches for (`RowInv`). `PublicationIsFinalHolds` is the action property that goes with
`PublishedIsWhole`: no step takes a row back, makes it vouch for something else or changes
its payload, but for an upload written again after it was measured and the deletion of a
tool's artifact above the limit.

`Kernel_proofs`, three modules that share no variable.

- `Conversation`: the argument is about the turns that overlap no other. Such a turn is alone
  while it runs and runs on the thread as it is (`AloneInv`), and once it is done the thread has
  its question and, right after it, its reply; so has the state of every turn running, which is
  what the thread will be replaced by (`KeptInv`). `LossNeedsOverlap` speaks of the thread alone
  and would not survive the next `Answer` without that. `ModelSeesTheTurn` needs that the
  state a turn runs on ends with its question (`BaseInv`), and three lemmas about the ends of a
  sequence: the floor of one message is where its proof uses that half of a limit is positive, and the
  summary fits because half of a limit above one leaves room for it.
- `LazyPools`: a pool that is replaced is that of a request in its setup or of one that
  failed, because without a graph nobody else can have left it there (`SetupInv`).
- `ReasoningFilter`: `StripsAnyChunking` is not inductive, since it says nothing of how the text will
  go on. `PromiseInv` is: whatever text follows, the filter on what it holds will show what
  `Visible` shows of everything sent (`Promise`), and what is held is *settled*, that is, has no
  whole tag and could still begin one. With the empty text that is `StripsAnyChunking`. The step
  is that a pass of the loop keeps the promise, by lemmas about where a tag is found in
  `s \o c`: where it is in `s`, or not before what was kept back. Tags are any two different sequences of
  two or more letters.

  Both `Loop` and `Visible` are recursive functions, so that they exist has to be proved:
  `RecursionDefines` says that a function whose value depends only on arguments of a smaller
  size exists, `LoopIs` and `VisibleIs` are its two uses, and `SizeInduction` is the induction on the
  length of a text. Both are proved from `WFMin` (a nonempty set has a least element) with the
  induction hypothesis as a set, which first-order provers can instantiate where the library's
  induction theorems, whose parameter is an operator, cannot be used.

Only model-checked: `TurnEnds`, `StreamEnds`, `ProducerStops` and `StatusSettles`, which
rest on fairness. For two of them the theorems above give the decreasing measure.

## Plan

Done: a module with a run for each of the ten parts that keep state or race, all of them with
proofs; every invariant, every action property and both refinements the runs check are theorems.
What could follow:

1. `Conversation` composed with `RunStream`, so that a turn cut by a limit decides what the
   thread keeps, and a proof that a cut turn leaves at most its question.
2. An abstract specification of `Payments` (a charge, its statuses, what is told of them) that the
   table and the two tools implement, in the way of `WriteCalls`.
3. A measure for `StreamEnds`, in the way of `TurnRunsOut`: how far the clock is from the deadline
   bounds what the generator can still take from a client that reads.
4. The catalogue of `describe_datasources` in `SqlTools`, with a source that comes back.

## Not modelled, and why

Formatting, prompts, logs and rendering: no property is about them. The numbers of the
forecast and the text extracted from a file: data. The python sandbox: what
`execute_python` registers is in `Artifacts`, what the subprocess does is the operating system's. The
reading engines of `datasources.py` and the external APIs of the tools: a call answers or
raises. The catalogue `describe_datasources` keeps, `search_chunks` and `recall`: reads with no
effect on the state the properties are about. The rows of `tool_calls` that `trace.py` inserts as best it can: nobody reads
them back. The snapshot of `RUN_CONTEXT` that the tool server takes when its session
opens (`tools.py:82`): `OneAgentOnStage` follows whom the context names. Start-up checks and routing: sequential and without state.
