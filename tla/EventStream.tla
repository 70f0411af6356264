---------------------------- MODULE EventStream ----------------------------
(***************************************************************************)
(* What a client of POST /v1/runs is promised, whatever goes on inside:    *)
(* progress events, then an ending.  `ending' is the part of the stream    *)
(* from its first terminal event on.  A client that stays always receives  *)
(* one; a "done" is a reply that is already in the conversation; and the   *)
(* only thing that may follow a first terminal event is the total-time     *)
(* error, when the clock runs out before the stream is closed.             *)
(***************************************************************************)
EXTENDS Sequences

VARIABLES
    open,       \* the stream is not closed
    gone,       \* it was the client who closed it
    ending,     \* terminal events received, and anything after the first
    reply       \* the assistant message of this turn in the conversation

streamVars == <<open, gone, ending, reply>>

Init == open = TRUE /\ gone = FALSE /\ ending = <<>> /\ reply = "none"

\* The reply is stored, perhaps after the stream has closed.
Store(text) ==
    /\ reply = "none"
    /\ reply' = text
    /\ UNCHANGED <<open, gone, ending>>

\* The answer, only once it is stored.
Answer ==
    /\ open /\ ending = <<>> /\ reply = "text"
    /\ ending' = <<"done">>
    /\ UNCHANGED <<open, gone, reply>>

\* The turn raised, or its reply has no text.
Refuse ==
    /\ open /\ ending = <<>>
    /\ ending' = <<"error">>
    /\ UNCHANGED <<open, gone, reply>>

\* One of the two time limits: the stream closes with it.
Expire ==
    /\ open
    /\ ending \in {<<>>, <<"done">>, <<"error">>}
    /\ ending' = Append(ending, "timeout")
    /\ open' = FALSE
    /\ UNCHANGED <<gone, reply>>

\* A stream that has its terminal event is closed.
Close ==
    /\ open /\ ending # <<>>
    /\ open' = FALSE
    /\ UNCHANGED <<gone, ending, reply>>

Leave ==
    /\ open
    /\ open' = FALSE /\ gone' = TRUE
    /\ UNCHANGED <<ending, reply>>

Next ==
    \/ \E text \in {"text", "empty"} : Store(text)
    \/ Answer \/ Refuse \/ Expire \/ Close \/ Leave

Spec == Init /\ [][Next]_streamVars
=============================================================================
