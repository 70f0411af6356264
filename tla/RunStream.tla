----------------------------- MODULE RunStream -----------------------------
(***************************************************************************)
(* The stream of one run (app/runs.py, event_stream): a producer task runs *)
(* the turn and puts events in a queue; the generator that the client      *)
(* reads takes them out under two clocks, one for silence and one for the  *)
(* whole turn, and cancels the producer when it leaves.  Both are          *)
(* coroutines of one event loop, so a step is what runs from one await to  *)
(* the next.  What the turn itself does is in module Turn; here it only    *)
(* emits, has a tool's worker thread write, stores its reply and ends.     *)
(***************************************************************************)
EXTENDS Integers, Sequences

CONSTANTS
    TurnTimeout,    \* settings.turn_timeout_seconds
    TotalTimeout,   \* settings.turn_total_timeout_seconds
    QueueBound,     \* bound: events waiting in the queue
    Horizon         \* bound: the last instant of the clock

ASSUME ClockAssumption ==
    /\ TurnTimeout \in Nat \ {0}
    /\ TotalTimeout \in Nat \ {0}
    /\ QueueBound \in Nat \ {0}
    /\ Horizon \in Nat

VARIABLES
    now,        \* the event loop's clock
    prazo,      \* deadline of the whole turn
    waitUntil,  \* when the current wait_for gives up
    cons,       \* generator: created, waiting (in get), sending (in yield), ended
    queue,      \* asyncio.Queue, unbounded in the code
    prod,       \* producer task: created, running, storing, stored, finished, cancelled
    cancelReq,  \* producer.cancel() was called
    reply,      \* the assistant message in the checkpoint
    thread      \* a tool's worker thread: idle, or writing

(* History variables. *)
VARIABLES
    ending,     \* what the client received from the first terminal event on
    gone,       \* the client disconnected
    late        \* tool writes committed after the stream ended, counted to two

clockVars == <<now, prazo, waitUntil>>
consVars  == <<cons, cancelReq, ending, gone>>
prodVars  == <<prod, reply, thread, late>>
vars == <<clockVars, consVars, prodVars, queue>>

Progress == "progress"      \* token, agent, tool, artifact and limit events
Sentinel == "end"           \* queue.put(None)
Endings  == {"done", "error"}
Items    == {Progress, Sentinel} \cup Endings

Init ==
    /\ now = 0 /\ prazo = 0 /\ waitUntil = 0
    /\ cons = "created" /\ cancelReq = FALSE /\ ending = <<>> /\ gone = FALSE
    /\ prod = "created" /\ reply = "none" /\ thread = "idle" /\ late = 0
    /\ queue = <<>>

-----------------------------------------------------------------------------
(* The producer.  Cancellation reaches it at its next await. *)

Alive == thread = "idle" /\ ~cancelReq

Begin ==
    /\ prod = "created" /\ cons # "created" /\ Alive
    /\ prod' = "running"
    /\ UNCHANGED <<clockVars, consVars, queue, reply, thread, late>>

Emit ==
    /\ prod = "running" /\ Alive
    /\ Len(queue) < QueueBound
    /\ queue' = Append(queue, Progress)
    /\ UNCHANGED <<clockVars, consVars, prodVars>>

\* A tool that writes hands the statement to a worker thread ...
StartWrite ==
    /\ prod = "running" /\ Alive
    /\ thread' = "writing"
    /\ UNCHANGED <<clockVars, consVars, queue, prod, reply, late>>

\* ... which a cancellation of the task does not stop.
ThreadCommits ==
    /\ thread = "writing"
    /\ thread' = "idle"
    /\ late' = IF cons = "ended" /\ late < 2 THEN late + 1 ELSE late
    /\ UNCHANGED <<clockVars, consVars, queue, prod, reply>>

\* The supervisor node returned its message; LangGraph is storing it.
GraphReturns ==
    /\ prod = "running" /\ Alive
    /\ prod' = "storing"
    /\ UNCHANGED <<clockVars, consVars, queue, reply, thread, late>>

\* The checkpoint is written; a cancelled run may still get this far.
StoreReply(text) ==
    /\ prod = "storing" /\ reply = "none"
    /\ reply' = text
    /\ prod' = IF cancelReq THEN prod ELSE "stored"
    /\ UNCHANGED <<clockVars, consVars, queue, thread, late>>

\* Putting in an unbounded queue does not suspend: the terminal event and the
\* sentinel of the finally clause are put in one step.
FinishWith(event) ==
    /\ prod' = "finished"
    /\ queue' = queue \o <<event, Sentinel>>
    /\ UNCHANGED <<clockVars, consVars, thread, late>>

\* Fault: the answer is sent when the node returns, before it is stored.
ConcludeBeforeStored ==
    /\ prod = "storing" /\ Alive
    /\ FinishWith("done")
    /\ UNCHANGED reply

Conclude ==
    /\ prod = "stored" /\ Alive
    /\ FinishWith(IF reply = "text" THEN "done" ELSE "error")
    /\ UNCHANGED reply

\* The turn raises.
TurnRaises ==
    /\ prod = "running" /\ Alive
    /\ FinishWith("error")
    /\ UNCHANGED reply

\* Storing raises; the database may have committed nevertheless.
StoreRaises ==
    /\ prod = "storing" /\ Alive
    /\ \E text \in {"none", "text", "empty"} : reply' = text
    /\ FinishWith("error")

\* CancelledError is no Exception: only the finally clause runs.  Leaving the
\* tool session waits for the worker thread.
Cancelled ==
    /\ cancelReq /\ thread = "idle"
    /\ prod \in {"created", "running", "storing", "stored"}
    /\ prod' = "cancelled"
    /\ queue' = IF prod = "created" THEN queue ELSE Append(queue, Sentinel)
    /\ UNCHANGED <<clockVars, consVars, reply, thread, late>>

-----------------------------------------------------------------------------
(* The generator. *)

\* The stream from its first terminal event on, after one more event.
Seen(event) == IF ending = <<>> /\ event = Progress THEN <<>> ELSE Append(ending, event)

\* First iteration: the task is created and has not run yet, so get waits.
Start ==
    /\ cons = "created"
    /\ prazo' = now + TotalTimeout
    /\ waitUntil' = now + (IF TurnTimeout < TotalTimeout THEN TurnTimeout ELSE TotalTimeout)
    /\ cons' = "waiting"
    /\ UNCHANGED <<now, queue, prodVars, cancelReq, ending, gone>>

\* `return`, through the finally clause.
Leave ==
    /\ cons' = "ended"
    /\ cancelReq' = TRUE

\* Fault: the sentinel is passed on like an event.
TakeSentinelAsEvent ==
    /\ queue # <<>>
    /\ queue' = Tail(queue)
    /\ cons' = "sending"
    /\ ending' = Seen(Head(queue))
    /\ UNCHANGED <<clockVars, prodVars, gone, cancelReq>>

\* Fault: every event restarts the deadline of the turn.
TakeRestartsDeadline ==
    /\ queue # <<>>
    /\ queue' = Tail(queue)
    /\ prazo' = now + TotalTimeout
    /\ IF Head(queue) = Sentinel
         THEN Leave /\ UNCHANGED ending
         ELSE cons' = "sending" /\ ending' = Seen(Head(queue)) /\ UNCHANGED cancelReq
    /\ UNCHANGED <<now, waitUntil, prodVars, gone>>

Take ==
    /\ queue # <<>>
    /\ queue' = Tail(queue)
    /\ IF Head(queue) = Sentinel
         THEN Leave /\ UNCHANGED ending
         ELSE cons' = "sending" /\ ending' = Seen(Head(queue)) /\ UNCHANGED cancelReq
    /\ UNCHANGED <<clockVars, prodVars, gone>>

Expire ==
    /\ Leave
    /\ ending' = Seen("timeout")
    /\ UNCHANGED <<clockVars, prodVars, gone, queue>>

Wait ==
    /\ queue = <<>>
    /\ cons' = "waiting"
    /\ waitUntil' = IF now + TurnTimeout < prazo THEN now + TurnTimeout ELSE prazo
    /\ UNCHANGED <<now, prazo, queue, prodVars, cancelReq, ending, gone>>

\* Fault: only silence is limited.
ResumeTakesAnytime == cons = "sending" /\ Take

\* The client took the event: the loop first looks at the deadline.
ResumeExpired == cons = "sending" /\ now >= prazo /\ Expire
ResumeTakes   == cons = "sending" /\ now < prazo /\ Take
ResumeWaits   == cons = "sending" /\ now < prazo /\ Wait

\* An item arrived; or wait_for gives up, even if one arrives at that instant.
Woken    == cons = "waiting" /\ Take
TimedOut == cons = "waiting" /\ now >= waitUntil /\ Expire

\* Fault: no finally clause cancels the producer.
DisconnectOnly ==
    /\ cons \in {"waiting", "sending"}
    /\ cons' = "ended"
    /\ gone' = TRUE
    /\ UNCHANGED <<clockVars, prodVars, queue, ending, cancelReq>>

\* The client disconnects: the generator is closed at its await.
Disconnect ==
    /\ cons \in {"waiting", "sending"}
    /\ Leave
    /\ gone' = TRUE
    /\ UNCHANGED <<clockVars, prodVars, queue, ending>>

-----------------------------------------------------------------------------
\* Time passes, but a ready item or an expired wait is served at once.
Tick ==
    /\ now < Horizon
    /\ cons \in {"waiting", "sending"}
    /\ cons = "waiting" => queue = <<>> /\ now < waitUntil
    /\ now' = now + 1
    /\ UNCHANGED <<prazo, waitUntil, consVars, prodVars, queue>>

Producer ==
    \/ Begin \/ Emit \/ StartWrite \/ ThreadCommits \/ GraphReturns
    \/ \E text \in {"text", "empty"} : StoreReply(text)
    \/ Conclude \/ TurnRaises \/ StoreRaises \/ Cancelled

Consumer == Start \/ ResumeExpired \/ ResumeTakes \/ ResumeWaits \/ Woken \/ TimedOut

Next == Producer \/ Consumer \/ Disconnect \/ Tick

Spec == Init /\ [][Next]_vars

(***************************************************************************)
(* The event loop runs the generator when what it awaits is there, time    *)
(* passes, a worker thread ends and a cancelled task unwinds.  Nothing is  *)
(* assumed of the turn, which may hang or chatter for ever, nor of the     *)
(* client: a generator suspended in `yield' is resumed only when the       *)
(* client takes the event, and until then it looks at neither clock.       *)
(***************************************************************************)
FairSpec ==
    /\ Spec
    /\ WF_vars(Start \/ Woken \/ TimedOut)
    /\ SF_vars(Tick)
    /\ WF_vars(ThreadCommits)
    /\ WF_vars(Cancelled)

-----------------------------------------------------------------------------
TypeOK ==
    /\ now \in Nat /\ prazo \in Nat /\ waitUntil \in Nat
    /\ cons \in {"created", "waiting", "sending", "ended"}
    /\ queue \in Seq(Items)
    /\ prod \in {"created", "running", "storing", "stored", "finished", "cancelled"}
    /\ cancelReq \in BOOLEAN /\ gone \in BOOLEAN
    /\ reply \in {"none", "text", "empty"}
    /\ thread \in {"idle", "writing"}
    /\ ending \in Seq({Progress, "timeout"} \cup Endings)
    /\ late \in 0..2

(* The client sees what EventStream promises: terminal events in a legal
   order, never progress after one, a "done" only for a stored reply, and a
   terminal event before the stream is closed on a client that stayed. *)
Promise == INSTANCE EventStream WITH open <- (cons # "ended")
StreamPromise == Promise!Spec

(* The total deadline cuts: the generator takes no event of the turn after the
   deadline, however the events, the client's pace and the two clocks fall. *)
DeadlineCuts ==
    [][Len(queue') < Len(queue) => now <= prazo]_queue

(* A turn that chatters or hangs for ever is still cut: the stream ends
   whatever the producer does and however slowly the client reads, unless the
   client stays connected and never takes the event it is being sent. *)
StreamEnds == <>(cons = "ended") \/ <>[](cons = "sending")

(* No task is leaked: when the stream ends, the producer ends. *)
ProducerStops == [](cons = "ended" => <>(prod \in {"finished", "cancelled"}))

Received(event) == \E i \in DOMAIN ending : ending[i] = event

(* A stream that carries an error carries no answer. *)
ErrorWithoutDone == ~(Received("done") /\ (Received("error") \/ Received("timeout")))

(* A limit or a disconnection ends the run but for the statement that a worker
   thread is executing: at most that one write is committed afterwards. *)
OneWriteOutlives == late <= 1
=============================================================================
