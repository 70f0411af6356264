---------------------------- MODULE Conversation ----------------------------
(***************************************************************************)
(* The history of one thread: what a turn loads, what of it the model is   *)
(* shown (app/graph.py, _history_messages, _historico_para_o_modelo), what *)
(* is checkpointed (create_run in app/runs.py drives the graph; the        *)
(* checkpointer is external), and how far memories were extracted from it  *)
(* (app/memories.py).  Nothing excludes two turns of one thread.           *)
(***************************************************************************)
EXTENDS Integers, FiniteSets, Sequences

CONSTANTS
    Turns,         \* requests on the thread, each made once
    Limits,        \* values of history_limit in a request, 0 when it has none
    DefaultLimit   \* 100 in the code

ASSUME ConversationAssumption ==
    /\ Limits \subseteq Nat /\ DefaultLimit \in Nat \ {0}
    /\ IsFiniteSet(Turns)

VARIABLES
    thread,     \* messages of the newest checkpoint
    pc,         \* where turn t is
    base,       \* base[t]: the state its graph runs on
    view,       \* view[t]: what its model is shown
    cursor      \* memory_extraction_state.messages_read

(* History variables. *)
VARIABLES
    read,       \* messages an extraction has taken up
    overlapped  \* turns that were not alone on the thread

vars == <<thread, pc, base, view, cursor, read, overlapped>>

Question(t) == [turn |-> t, role |-> "user"]
Reply(t) == [turn |-> t, role |-> "assistant"]

NoView == [limit |-> 0, summary |-> <<>>, tail |-> <<>>]

Init ==
    /\ thread = <<>> /\ cursor = 0 /\ read = {} /\ overlapped = {}
    /\ pc = [t \in Turns |-> "idle"]
    /\ base = [t \in Turns |-> <<>>] /\ view = [t \in Turns |-> NoView]

Goto(t, label) == pc' = [pc EXCEPT ![t] = label]
Active == {t \in Turns : pc[t] \in {"loaded", "seeing", "answering"}}

-----------------------------------------------------------------------------
(* A turn. *)

\* astream loads the newest checkpoint and adds the question.
Load(t) ==
    /\ pc[t] = "idle"
    /\ Goto(t, "loaded")
    /\ base' = [base EXCEPT ![t] = Append(thread, Question(t))]
    /\ overlapped' = IF Active = {} THEN overlapped ELSE overlapped \cup Active \cup {t}
    /\ UNCHANGED <<thread, view, cursor, read>>

\* The input is checkpointed before the node runs.
StoreQuestion(t) ==
    /\ pc[t] = "loaded"
    /\ Goto(t, "seeing")
    /\ thread' = base[t]
    /\ UNCHANGED <<base, view, cursor, read, overlapped>>

\* mensagens[-n:] and mensagens[:-n]; -0 is 0.
LastN(s, n) == IF n = 0 THEN s ELSE SubSeq(s, Len(s) - n + 1, Len(s))
AllButLastN(s, n) == IF n = 0 THEN <<>> ELSE SubSeq(s, 1, Len(s) - n)

Limit(l) == IF l = 0 THEN DefaultLimit ELSE l

\* Fault: the floor of one message is missing.
HalfUnfloored(l) == Limit(l) \div 2

Half(l) == IF Limit(l) \div 2 > 1 THEN Limit(l) \div 2 ELSE 1

\* What the model is shown; the messages the summary stands for are kept in its place.
Shown(l, summary, tail) == [limit |-> Limit(l), summary |-> summary, tail |-> tail]

\* _history_messages: the summary is sent as one more message of the user's.
Sent(v) == Len(v.tail) + (IF v.summary = <<>> THEN 0 ELSE 1)

\* _historico_para_o_modelo: all of it, or the recent half, with or without a
\* summary of the rest; the summary's model call may fail.
See(t) ==
    /\ pc[t] = "seeing"
    /\ Goto(t, "answering")
    /\ \E l \in Limits :
          LET recent == LastN(base[t], Half(l))
              whole == Shown(l, <<>>, base[t])
              cut == Shown(l, <<>>, recent)
              summed == Shown(l, AllButLastN(base[t], Half(l)), recent)
          IN  \E v \in IF Len(base[t]) <= Limit(l) THEN {whole} ELSE {cut, summed} :
                 view' = [view EXCEPT ![t] = v]
    /\ UNCHANGED <<thread, base, cursor, read, overlapped>>

\* Fault: the trimmed history is saved with the reply.
AnswerTrimmed(t) ==
    /\ pc[t] = "answering"
    /\ Goto(t, "done")
    /\ thread' = Append(view[t].tail, Reply(t))
    /\ UNCHANGED <<base, view, cursor, read, overlapped>>

\* The node returns the reply: the state it ran on and the reply are the new
\* checkpoint, whatever has been stored meanwhile.
Answer(t) ==
    /\ pc[t] = "answering"
    /\ Goto(t, "done")
    /\ thread' = Append(base[t], Reply(t))
    /\ UNCHANGED <<base, view, cursor, read, overlapped>>

\* An exception, a timeout or a client that leaves: no reply.
Fail(t) ==
    /\ t \in Active
    /\ Goto(t, "failed")
    /\ UNCHANGED <<thread, base, view, cursor, read, overlapped>>

\* extract_memories takes up what lies beyond the cursor, and moves it.
Extract ==
    /\ Len(thread) > cursor
    /\ cursor' = Len(thread)
    /\ read' = read \cup {thread[i] : i \in cursor + 1..Len(thread)}
    /\ UNCHANGED <<thread, pc, base, view, overlapped>>

-----------------------------------------------------------------------------
Next ==
    \/ \E t \in Turns : Load(t) \/ StoreQuestion(t) \/ See(t) \/ Answer(t) \/ Fail(t)
    \/ Extract

Spec == Init /\ [][Next]_vars

-----------------------------------------------------------------------------
(* Whatever limit a request has, the zero that stands for the default and the one
   whose half would be the zero of a negative index included, its model is sent no
   more messages of the history than the limit, the summary counted as one; but at
   a limit of one a summary comes on top of the question.  The last message is the
   question, and a summary stands for exactly the messages left out. *)
ModelSeesTheTurn ==
    \A t \in Turns : pc[t] \in {"answering", "done"} =>
        LET v == view[t]
        IN  /\ Len(v.tail) \in 1..v.limit
            /\ v.limit # 1 => Sent(v) <= v.limit
            /\ v.tail[Len(v.tail)] = Question(t)
            /\ v.summary # <<>> => v.summary \o v.tail = base[t]

(* A turn that was alone on its thread stays in the history, question before reply,
   whatever turns overlap before and after it; and as long as none overlap, every
   message that counts as read by the extraction has been read. *)
LossNeedsOverlap ==
    /\ \A t \in Turns \ overlapped : pc[t] = "done" =>
          \E i \in 1..Len(thread) - 1 : thread[i] = Question(t) /\ thread[i + 1] = Reply(t)
    /\ overlapped = {} =>
          /\ cursor <= Len(thread)
          /\ \A i \in 1..cursor : thread[i] \in read
=============================================================================
