------------------------------ MODULE Memories ------------------------------
(***************************************************************************)
(* Extraction of memories from one thread (app/memories.py).  After a turn *)
(* a task reads the thread, then the cursor of what was already read, lets *)
(* a model extract facts from the last messages it has not seen, stores    *)
(* those no memory resembles, and moves the cursor.  Tasks of the same     *)
(* thread overlap; every statement commits on its own.                     *)
(* A fact is a message and a wording: extracting a message again may give  *)
(* another wording, which the similarity of embeddings does not recognise. *)
(***************************************************************************)
EXTENDS Integers, FiniteSets

CONSTANTS
    Tasks,        \* extraction tasks
    Wordings,     \* ways a model may put one fact
    Window,       \* messages one extraction reads (8 in the code)
    MaxMessages,  \* bound: messages of the thread
    MaxFaults     \* bound: tasks that die or raise

ASSUME MemoriesAssumption ==
    Window \in Nat \ {0} /\ MaxMessages \in Nat /\ MaxFaults \in Nat

VARIABLES
    length,     \* messages checkpointed in the thread
    cursor,     \* memory_extraction_state.messages_read
    memories,   \* the memories table
    pc,         \* where task t is
    total,      \* len(messages) when task t loaded them
    lidas,      \* the cursor task t read
    facts,      \* what task t has still to look up
    novel       \* the fact it has looked up and is about to insert

(* History variables. *)
VARIABLES
    faults,     \* faults so far
    after,      \* after[t]: tasks that had moved the cursor when t began
    covered     \* messages within reach of a task that has moved the cursor

thread == <<length, cursor, memories>>
vars == <<thread, pc, total, lidas, facts, novel, faults, after, covered>>

Init ==
    /\ length = 0 /\ cursor = 0 /\ memories = {}
    /\ pc = [t \in Tasks |-> "queued"]
    /\ total = [t \in Tasks |-> 0] /\ lidas = [t \in Tasks |-> 0]
    /\ facts = [t \in Tasks |-> {}] /\ novel = [t \in Tasks |-> {}]
    /\ faults = 0 /\ after = [t \in Tasks |-> {}] /\ covered = {}

Goto(t, label) == pc' = [pc EXCEPT ![t] = label]

\* A turn checkpoints a message.
Converse ==
    /\ length < MaxMessages
    /\ length' = length + 1
    /\ UNCHANGED <<cursor, memories, pc, total, lidas, facts, novel, faults, after, covered>>

\* The state of the thread; without messages there is nothing to do.
Load(t) ==
    /\ pc[t] = "queued"
    /\ Goto(t, IF length = 0 THEN "done" ELSE "loaded")
    /\ total' = [total EXCEPT ![t] = length]
    /\ facts' = [facts EXCEPT ![t] = {}] /\ novel' = [novel EXCEPT ![t] = {}]
    /\ after' = [after EXCEPT ![t] = {u \in Tasks : pc[u] = "marked"}]
    /\ UNCHANGED <<thread, lidas, faults, covered>>

\* _mensagens_ja_lidas; nothing new, nothing to do.
ReadCursor(t) ==
    /\ pc[t] = "loaded"
    /\ Goto(t, IF cursor >= total[t] THEN "done" ELSE "extracting")
    /\ lidas' = [lidas EXCEPT ![t] = cursor]
    /\ UNCHANGED <<thread, total, facts, novel, faults, after, covered>>

Unread(t) == (lidas[t] + 1)..total[t]

\* novas[-8:]
Seen(t) == {m \in Unread(t) : m > total[t] - Window}

\* Fault: the messages are marked as read when the model has read them.
ExtractAndMark(t, messages, wording) ==
    /\ pc[t] = "extracting" /\ messages \subseteq Seen(t)
    /\ facts' = [facts EXCEPT ![t] = {[msg |-> m, wording |-> wording] : m \in messages}]
    /\ Goto(t, "storing")
    /\ cursor' = IF total[t] > cursor THEN total[t] ELSE cursor
    /\ UNCHANGED <<length, memories, total, lidas, novel, faults, after, covered>>

\* The model's answer: a fact from any of the messages it was shown, or none.
Extract(t, messages, wording) ==
    /\ pc[t] = "extracting" /\ messages \subseteq Seen(t)
    /\ facts' = [facts EXCEPT ![t] = {[msg |-> m, wording |-> wording] : m \in messages}]
    /\ Goto(t, "storing")
    /\ UNCHANGED <<thread, total, lidas, novel, faults, after, covered>>

\* An answer that is no JSON array: the task is over, the cursor stays.
ExtractNothingUsable(t) ==
    /\ pc[t] = "extracting"
    /\ Goto(t, "done")
    /\ UNCHANGED <<thread, total, lidas, facts, novel, faults, after, covered>>

Resembles(fact) == \E m \in memories : m.msg = fact.msg /\ m.wording = fact.wording

\* The SELECT for one fact: a near-duplicate is skipped.
CheckFact(t, fact) ==
    /\ pc[t] = "storing" /\ novel[t] = {} /\ fact \in facts[t]
    /\ facts' = [facts EXCEPT ![t] = @ \ {fact}]
    /\ novel' = [novel EXCEPT ![t] = IF Resembles(fact) THEN {} ELSE {fact}]
    /\ UNCHANGED <<thread, pc, total, lidas, faults, after, covered>>

\* The INSERT, a statement of its own.
StoreFact(t, fact) ==
    /\ pc[t] = "storing" /\ fact \in novel[t]
    /\ memories' = memories \cup
          {[msg |-> fact.msg, wording |-> fact.wording, by |-> t, after |-> after[t]]}
    /\ novel' = [novel EXCEPT ![t] = {}]
    /\ UNCHANGED <<length, cursor, pc, total, lidas, facts, faults, after, covered>>

\* Fault: what was sent to the model is added to the cursor.
MarkSeen(t) ==
    /\ pc[t] = "storing" /\ facts[t] = {} /\ novel[t] = {}
    /\ cursor' = LET read == lidas[t] + Cardinality(Seen(t))
                 IN  IF read > cursor THEN read ELSE cursor
    /\ covered' = covered \cup Unread(t)
    /\ Goto(t, "marked")
    /\ UNCHANGED <<length, memories, total, lidas, facts, novel, faults, after>>

\* Fault: a plain SET in the upsert.
MarkUnconditionally(t) ==
    /\ pc[t] = "storing" /\ facts[t] = {} /\ novel[t] = {}
    /\ cursor' = total[t]
    /\ covered' = covered \cup Unread(t)
    /\ Goto(t, "marked")
    /\ UNCHANGED <<length, memories, total, lidas, facts, novel, faults, after>>

\* Fault: off by one, as if the supervisor's prompt were in the thread.
MarkOneTooMany(t) ==
    /\ pc[t] = "storing" /\ facts[t] = {} /\ novel[t] = {}
    /\ cursor' = IF total[t] + 1 > cursor THEN total[t] + 1 ELSE cursor
    /\ covered' = covered \cup Unread(t)
    /\ Goto(t, "marked")
    /\ UNCHANGED <<length, memories, total, lidas, facts, novel, faults, after>>

\* _marcar_lidas: GREATEST of the row and the length this task has seen.
Mark(t) ==
    /\ pc[t] = "storing" /\ facts[t] = {} /\ novel[t] = {}
    /\ cursor' = IF total[t] > cursor THEN total[t] ELSE cursor
    /\ covered' = covered \cup Unread(t)
    /\ Goto(t, "marked")
    /\ UNCHANGED <<length, memories, total, lidas, facts, novel, faults, after>>

\* The task raises or its process dies; the queue delivers it again.
Lost(t) ==
    /\ faults < MaxFaults
    /\ pc[t] \notin {"queued", "marked", "done"}
    /\ faults' = faults + 1
    /\ Goto(t, "queued")
    /\ UNCHANGED <<thread, total, lidas, facts, novel, after, covered>>

-----------------------------------------------------------------------------
Next ==
    \/ Converse
    \/ \E t \in Tasks :
          \/ Load(t) \/ ReadCursor(t) \/ ExtractNothingUsable(t) \/ Mark(t) \/ Lost(t)
          \/ \E messages \in SUBSET Seen(t), w \in Wordings : Extract(t, messages, w)
          \/ \E fact \in facts[t] : CheckFact(t, fact)
          \/ \E fact \in novel[t] : StoreFact(t, fact)

Spec == Init /\ [][Next]_vars

-----------------------------------------------------------------------------
Facts == [msg : 1..MaxMessages, wording : Wordings]

TypeOK ==
    /\ length \in 0..MaxMessages /\ cursor \in 0..length
    /\ memories \subseteq [msg : 1..MaxMessages, wording : Wordings,
                           by : Tasks, after : SUBSET Tasks]
    /\ pc \in [Tasks -> {"queued", "loaded", "extracting", "storing", "marked", "done"}]
    /\ total \in [Tasks -> 0..length] /\ lidas \in [Tasks -> 0..length]
    /\ facts \in [Tasks -> SUBSET Facts] /\ novel \in [Tasks -> SUBSET Facts]

(* A slow task never hands messages back that a faster one has marked as read. *)
CursorNeverGoesBack == [][cursor' >= cursor]_cursor

(* What is marked as read was new to a task that finished, the messages beyond
   its window included: one that dies half-way loses no message, whatever else
   is running. *)
NothingMarkedUnread == 1..cursor \subseteq covered

(* A task that begins when another has marked takes nothing from the messages that
   one took from, in whatever words, and whoever runs beside them. *)
ReadOnce ==
    \A early, late \in memories : early.by \in late.after => early.msg # late.msg
=============================================================================
