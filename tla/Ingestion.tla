------------------------------ MODULE Ingestion ------------------------------
(***************************************************************************)
(* Ingestion of one uploaded file (app/ingestion.py, ingest_file): every   *)
(* delivery of its task loads, cuts and embeds the text, replaces the      *)
(* chunks in the database and writes the file's status.  Each statement    *)
(* commits on its own (the pool is autocommit), a delivery that overruns   *)
(* the queue's deadline is delivered again while the first one still runs, *)
(* and a delivery that is lost is delivered again.                         *)
(***************************************************************************)
EXTENDS Integers

CONSTANTS
    Jobs,       \* deliveries of the file's task
    NChunks,    \* chunks the file is cut into
    MaxFaults   \* bound: faults of the process, the database or the provider

ASSUME IngestionAssumption == NChunks \in Nat \ {0} /\ MaxFaults \in Nat /\ Jobs # {}

VARIABLES
    status,     \* files.status
    count,      \* files.chunk_count, 0 for NULL
    chunks,     \* file_chunks: [index, by]; an index is unique
    pc,         \* where delivery j is
    index       \* the chunk delivery j inserts next

(* History variables. *)
VARIABLES
    faults,     \* faults so far
    clean       \* clean[j]: no fault of its own and never beside another delivery

vars == <<status, count, chunks, pc, index, faults, clean>>

AllIndexes == 0..(NChunks - 1)

Init ==
    /\ status = "pending" /\ count = 0 /\ chunks = {}
    /\ pc = [j \in Jobs |-> "queued"] /\ index = [j \in Jobs |-> 0]
    /\ faults = 0 /\ clean = [j \in Jobs |-> TRUE]

Goto(j, label) == pc' = [pc EXCEPT ![j] = label]

Working(j) == pc[j] \notin {"queued", "ready", "error"}

\* The endpoint is called and the row of the file is read.
Deliver(j) ==
    /\ pc[j] = "queued"
    /\ Goto(j, "loaded")
    /\ index' = [index EXCEPT ![j] = 0]
    /\ LET others == {k \in Jobs \ {j} : Working(k)}
       IN  clean' = [k \in Jobs |-> IF k = j THEN others = {} ELSE clean[k] /\ k \notin others]
    /\ UNCHANGED <<status, count, chunks, faults>>

SetProcessing(j) ==
    /\ pc[j] = "loaded"
    /\ Goto(j, "preparing")
    /\ status' = "processing"
    /\ UNCHANGED <<count, chunks, index, faults, clean>>

\* Payload, text, chunks and embeddings.
Prepare(j) ==
    /\ pc[j] = "preparing"
    /\ Goto(j, "deleting")
    /\ UNCHANGED <<status, count, chunks, index, faults, clean>>

\* Fault: the chunks of an earlier delivery are kept.
DeleteNothing(j) ==
    /\ pc[j] = "deleting"
    /\ Goto(j, "inserting")
    /\ UNCHANGED <<status, count, chunks, index, faults, clean>>

DeleteAll(j) ==
    /\ pc[j] = "deleting"
    /\ Goto(j, "inserting")
    /\ chunks' = {}
    /\ UNCHANGED <<status, count, index, faults, clean>>

Stored(i) == \E c \in chunks : c.index = i

\* Fault: nothing makes an index unique.
InsertAnyway(j) ==
    /\ pc[j] = "inserting" /\ index[j] \in AllIndexes
    /\ chunks' = chunks \cup {[index |-> index[j], by |-> j]}
    /\ index' = [index EXCEPT ![j] = @ + 1]
    /\ UNCHANGED <<status, count, pc, faults, clean>>

Insert(j) ==
    /\ pc[j] = "inserting" /\ index[j] \in AllIndexes /\ ~Stored(index[j])
    /\ chunks' = chunks \cup {[index |-> index[j], by |-> j]}
    /\ index' = [index EXCEPT ![j] = @ + 1]
    /\ UNCHANGED <<status, count, pc, faults, clean>>

\* UNIQUE (file_id, chunk_index): another delivery has inserted this chunk.
InsertConflicts(j) ==
    /\ pc[j] = "inserting" /\ index[j] \in AllIndexes /\ Stored(index[j])
    /\ Goto(j, "failing")
    /\ UNCHANGED <<status, count, chunks, index, faults, clean>>

Finish(j) ==
    /\ pc[j] = "inserting" /\ index[j] = NChunks
    /\ Goto(j, "ready")
    /\ status' = "ready" /\ count' = NChunks
    /\ UNCHANGED <<chunks, index, faults, clean>>

\* Fault: the handler logs the exception and leaves the status alone.
FailSilently(j) ==
    /\ pc[j] = "failing"
    /\ Goto(j, "error")
    /\ UNCHANGED <<status, count, chunks, index, faults, clean>>

\* Fault: a failed delivery cleans up the chunks of the file.
FailAndClean(j) ==
    /\ pc[j] = "failing"
    /\ Goto(j, "error")
    /\ status' = "error" /\ chunks' = {}
    /\ UNCHANGED <<count, index, faults, clean>>

Fail(j) ==
    /\ pc[j] = "failing"
    /\ Goto(j, "error")
    /\ status' = "error"
    /\ UNCHANGED <<count, chunks, index, faults, clean>>

Faulty(j) ==
    /\ faults < MaxFaults
    /\ faults' = faults + 1
    /\ clean' = [clean EXCEPT ![j] = FALSE]

\* A step inside the try raises: no text, the provider, the database.
StepFails(j) ==
    /\ pc[j] \in {"preparing", "deleting", "inserting"}
    /\ Goto(j, "failing")
    /\ Faulty(j)
    /\ UNCHANGED <<status, count, chunks, index>>

\* The process dies, or a statement outside the try raises and the endpoint
\* answers 500, or the answer is lost: the queue delivers the task again.
Lost(j) ==
    /\ pc[j] # "queued"
    /\ Goto(j, "queued")
    /\ Faulty(j)
    /\ UNCHANGED <<status, count, chunks, index>>

-----------------------------------------------------------------------------
Step(j) ==
    \/ Deliver(j) \/ SetProcessing(j) \/ Prepare(j) \/ DeleteAll(j)
    \/ Insert(j) \/ InsertConflicts(j) \/ Finish(j) \/ Fail(j)

Next == \E j \in Jobs : Step(j) \/ StepFails(j) \/ Lost(j)

\* The queue delivers a task until it is answered, and a running delivery goes on.
Fairness == \A j \in Jobs : WF_vars(Step(j))

Spec == Init /\ [][Next]_vars /\ Fairness

-----------------------------------------------------------------------------
Indexes == {c.index : c \in chunks}

TypeOK ==
    /\ status \in {"pending", "processing", "ready", "error"}
    /\ count \in {0, NChunks}
    /\ chunks \subseteq [index : AllIndexes, by : Jobs]
    /\ \A c, d \in chunks : c.index = d.index => c = d
    /\ faults \in Nat /\ clean \in [Jobs -> BOOLEAN]
    /\ pc \in [Jobs -> {"queued", "loaded", "preparing", "deleting", "inserting",
                        "failing", "ready", "error"}]
    /\ index \in [Jobs -> 0..NChunks]

Settled == \A j \in Jobs : pc[j] \in {"ready", "error"}

(* However the deliveries of one file interleave their deletes and inserts, when
   nothing but each other disturbed them the file ends with every chunk. *)
SettledComplete == Settled /\ faults = 0 => Indexes = AllIndexes /\ count = NChunks

(* A delivery that ran alone repairs what an earlier one left behind, whatever
   died and wherever: it does not fail, and the chunks are its own, all of them. *)
RedeliveryRepairs ==
    \A j \in Jobs : clean[j] /\ (\A k \in Jobs \ {j} : ~Working(k)) =>
        /\ pc[j] \notin {"failing", "error"}
        /\ pc[j] = "inserting" => chunks = {[index |-> i, by |-> j] : i \in 0..(index[j] - 1)}

(* The status the front end polls ends up at ready or at error for good, after
   every loss: no file stays in processing. *)
StatusSettles == <>[](status \in {"ready", "error"})
=============================================================================
