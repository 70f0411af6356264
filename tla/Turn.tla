-------------------------------- MODULE Turn --------------------------------
(***************************************************************************)
(* One conversation turn of the kernel: the supervisor's bounded tool loop *)
(* (app/graph.py, _supervisor_node) and, nested in it, the bounded tool    *)
(* loop of each specialist the supervisor calls (_run_specialist).  What   *)
(* the language models answer is nondeterministic; what the kernel does    *)
(* with an answer is not.  A prompt, a tool result and a piece of text are *)
(* left out; which calls are owed an answer, which artifacts are on the    *)
(* user's screen and who has been told of them are kept.                   *)
(***************************************************************************)
EXTENDS Integers, Sequences

CONSTANTS
    Agents,         \* names of the specialists of the template
    Tools,          \* names the tool catalog and the external servers offer
    Granted,        \* Granted[a]: the tools of agent a the catalog knows
    VisionTools,    \* tools that call a model themselves (analyze_pdf_pages)
    Stranger,       \* a name a model made up: no agent and no tool
    NoAgent,        \* nobody is running
    MaxSteps,       \* max_steps of the request
    MaxRounds,      \* settings.specialist_max_tool_rounds
    MaxToolCalls,   \* max_tool_calls_per_turn of the request
    MaxFanOut,      \* bound: calls in one model reply
    MaxArtifacts,   \* bound: artifacts one tool result describes
    MaxPages,       \* settings.pdf_vision_max_pages
    MaxLost         \* bound: INSERTs of a usage row that fail in one turn

ASSUME LimitsAssumption ==
    /\ MaxSteps \in Nat \ {0}
    /\ MaxRounds \in Nat \ {0}
    /\ MaxToolCalls \in Nat \ {0}
    /\ MaxFanOut \in Nat \ {0}
    /\ MaxArtifacts \in Nat
    /\ MaxPages \in Nat
    /\ MaxLost \in Nat

ASSUME NamesAssumption ==
    /\ Granted \in [Agents -> SUBSET Tools]
    /\ VisionTools \subseteq Tools
    /\ Stranger \notin Agents \cup Tools
    /\ NoAgent \notin Agents

VARIABLES
    pc,         \* where the turn is suspended
    step,       \* supervisor rounds used (_step)
    calls,      \* calls of the supervisor's last reply not yet answered
    agent,      \* the specialist running, or NoAgent
    round,      \* tool rounds the specialist has used (_round)
    toolCalls,  \* calls of the specialist's last reply not yet answered
    exibidos,   \* artifacts this specialist has published
    told,       \* how many of them it has been told of (exibidos_antes)
    used,       \* run_config["_tool_calls_no_turno"]
    ctxAgent    \* RUN_CONTEXT["agent"], what a tool handler sees

(***************************************************************************)
(* History variables.  They record what the outside world has seen and are *)
(* read by no guard.                                                       *)
(***************************************************************************)
VARIABLES
    supOwed,    \* tool calls in the supervisor's transcript with no reply
    spOwed,     \* the same in the transcript of the specialist running
    stage,      \* the agent the client believes is working
    executed,   \* tools executed
    published,  \* artifact events sent to the client
    relayed,    \* of those, how many a note to the supervisor names
    delegated,  \* specialist runs started
    modelCalls, \* model replies obtained (complete() returned)
    usageRows,  \* rows in usage_records
    lostRows    \* INSERTs that failed, which insert_usage logs and swallows

spVars  == <<agent, round, toolCalls, exibidos, told, spOwed>>
seenVars == <<stage, executed, published, relayed, delegated>>
billVars == <<modelCalls, usageRows, lostRows>>
vars == <<pc, step, calls, used, ctxAgent, supOwed, spVars, seenVars, billVars>>

\* The calls a model may put in one reply, over a set of names.
Replies(S) == UNION {[1..n -> S] : n \in 1..MaxFanOut}

Init ==
    /\ pc = "opening" /\ step = 0 /\ calls = <<>> /\ used = 0
    /\ agent = NoAgent /\ round = 0 /\ toolCalls = <<>>
    /\ exibidos = 0 /\ told = 0 /\ ctxAgent = NoAgent
    /\ supOwed = 0 /\ spOwed = 0 /\ stage = NoAgent
    /\ executed = 0 /\ published = 0 /\ relayed = 0 /\ delegated = 0
    /\ modelCalls = 0 /\ usageRows = 0 /\ lostRows = 0

-----------------------------------------------------------------------------
(***************************************************************************)
(* Before the loop: set_run_context, the history (a long one may first be  *)
(* summarised by a model call, whose failure is swallowed), then the two   *)
(* tool sessions, whose failure is the turn's.                             *)
(***************************************************************************)

\* A model call and the usage row written for it, if it can be: insert_usage
\* swallows every exception ("accounting must never break a run").
BilledCall ==
    /\ modelCalls' = modelCalls + 1
    /\ \/ usageRows' = usageRows + 1 /\ UNCHANGED lostRows
       \/ lostRows < MaxLost /\ lostRows' = lostRows + 1 /\ UNCHANGED usageRows

OpenTurn ==
    /\ pc = "opening"
    /\ pc' = "supervisor"
    /\ UNCHANGED <<step, calls, used, ctxAgent, supOwed, spVars, seenVars, billVars>>

\* _resumir_trecho: complete() is called and no usage row is written.
SummariseHistory ==
    /\ pc = "opening"
    /\ pc' = "supervisor"
    /\ modelCalls' = modelCalls + 1
    /\ UNCHANGED <<step, calls, used, ctxAgent, supOwed, spVars, seenVars, usageRows, lostRows>>

\* The catalog session cannot be opened or listed, or the supervisor's model
\* call raises: nothing in the node catches it.
TurnFails ==
    /\ pc \in {"opening", "supervisor", "forced"}
    /\ pc' = "failed"
    /\ UNCHANGED <<step, calls, used, ctxAgent, supOwed, spVars, seenVars, billVars>>

-----------------------------------------------------------------------------
(* The supervisor's loop. *)

SupervisorAnswers ==
    /\ pc \in {"supervisor", "forced"}
    /\ pc' = "answered"
    /\ BilledCall
    /\ UNCHANGED <<step, calls, used, ctxAgent, supOwed, spVars, seenVars>>

SupervisorDelegates(reply) ==
    /\ pc = "supervisor"
    /\ pc' = "delegating"
    /\ step' = step + 1
    /\ calls' = reply
    /\ supOwed' = supOwed + Len(reply)
    /\ BilledCall
    /\ UNCHANGED <<used, ctxAgent, spVars, seenVars>>

\* Calls of the reply are taken in order; each ends in one "tool" message.
AnswerUnknownSpecialist ==
    /\ pc = "delegating" /\ calls # <<>> /\ Head(calls) \notin Agents
    /\ calls' = Tail(calls)
    /\ supOwed' = supOwed - 1
    /\ UNCHANGED <<pc, step, used, ctxAgent, spVars, seenVars, billVars>>

\* json.loads(...).get("task") on arguments that are JSON but not an object
\* raises AttributeError, which the handler around it does not catch.
MalformedDelegation ==
    /\ pc = "delegating" /\ calls # <<>> /\ Head(calls) \in Agents
    /\ pc' = "failed"
    /\ UNCHANGED <<step, calls, used, ctxAgent, supOwed, spVars, seenVars, billVars>>

\* Fault: the ceiling counts one specialist at a time.
StartSpecialistResetsBudget ==
    /\ pc = "delegating" /\ calls # <<>> /\ Head(calls) \in Agents
    /\ pc' = "specialist"
    /\ agent' = Head(calls) /\ ctxAgent' = Head(calls) /\ stage' = Head(calls)
    /\ delegated' = delegated + 1
    /\ used' = 0
    /\ round' = 0 /\ toolCalls' = <<>> /\ exibidos' = 0 /\ told' = 0 /\ spOwed' = 0
    /\ UNCHANGED <<step, calls, supOwed, executed, published, relayed, billVars>>

\* Fault: set_current_agent binds a new context the tool server never sees.
StartSpecialistKeepsContext ==
    /\ pc = "delegating" /\ calls # <<>> /\ Head(calls) \in Agents
    /\ pc' = "specialist"
    /\ agent' = Head(calls) /\ stage' = Head(calls)
    /\ delegated' = delegated + 1
    /\ round' = 0 /\ toolCalls' = <<>> /\ exibidos' = 0 /\ told' = 0 /\ spOwed' = 0
    /\ UNCHANGED <<step, calls, used, ctxAgent, supOwed, executed, published, relayed,
                   billVars>>

StartSpecialist ==
    /\ pc = "delegating" /\ calls # <<>> /\ Head(calls) \in Agents
    /\ pc' = "specialist"
    /\ agent' = Head(calls)
    /\ ctxAgent' = Head(calls)
    /\ stage' = Head(calls)
    /\ delegated' = delegated + 1
    /\ round' = 0 /\ toolCalls' = <<>> /\ exibidos' = 0 /\ told' = 0 /\ spOwed' = 0
    /\ UNCHANGED <<step, calls, used, supOwed, executed, published, relayed, billVars>>

\* Fault: the loop has no step limit.
NextStepUnlimited ==
    /\ pc = "delegating" /\ calls = <<>>
    /\ pc' = "supervisor"
    /\ UNCHANGED <<step, calls, used, ctxAgent, supOwed, spVars, seenVars, billVars>>

\* The for loop goes on, or its else branch forces an answer without tools.
NextStep ==
    /\ pc = "delegating" /\ calls = <<>>
    /\ pc' = IF step < MaxSteps THEN "supervisor" ELSE "forced"
    /\ UNCHANGED <<step, calls, used, ctxAgent, supOwed, spVars, seenVars, billVars>>

-----------------------------------------------------------------------------
(* The specialist's loop. *)

\* agent_done, then the output with the note of every artifact published
\* becomes the supervisor's tool message.
LeaveSpecialist(shown) ==
    /\ pc' = "delegating"
    /\ calls' = Tail(calls)
    /\ supOwed' = supOwed - 1
    /\ agent' = NoAgent
    /\ stage' = NoAgent
    /\ relayed' = relayed + shown
    /\ round' = 0 /\ toolCalls' = <<>> /\ exibidos' = 0 /\ told' = 0 /\ spOwed' = 0
    /\ UNCHANGED <<step, ctxAgent, delegated>>

\* Fault: the specialist's answer is not in the trace.
SpecialistAnswersUnbilled ==
    /\ pc \in {"specialist", "specialistForced"}
    /\ LeaveSpecialist(exibidos)
    /\ modelCalls' = modelCalls + 1
    /\ UNCHANGED <<used, executed, published, usageRows, lostRows>>

SpecialistAnswers ==
    /\ pc \in {"specialist", "specialistForced"}
    /\ LeaveSpecialist(exibidos)
    /\ BilledCall
    /\ UNCHANGED <<used, executed, published>>

\* Fault: the note of the artifacts is only added to an output that succeeded.
SpecialistFailsSilently ==
    /\ pc \in {"specialist", "specialistForced"}
    /\ LeaveSpecialist(0)
    /\ UNCHANGED <<used, executed, published, billVars>>

\* The model call raises; _run_specialist turns it into its output.
SpecialistFails ==
    /\ pc \in {"specialist", "specialistForced"}
    /\ LeaveSpecialist(exibidos)
    /\ UNCHANGED <<used, executed, published, billVars>>

SpecialistCallsTools(reply) ==
    /\ pc = "specialist"
    /\ pc' = "tools"
    /\ round' = round + 1
    /\ toolCalls' = reply
    /\ spOwed' = spOwed + Len(reply)
    /\ BilledCall
    /\ UNCHANGED <<step, calls, used, ctxAgent, supOwed, agent, exibidos, told, seenVars>>

\* The "tool" message that answers the call at the head of toolCalls.
AnswerToolCall ==
    /\ toolCalls' = Tail(toolCalls)
    /\ spOwed' = spOwed - 1
    /\ UNCHANGED <<pc, step, calls, ctxAgent, supOwed, agent, round, told,
                   stage, relayed, delegated>>

\* Fault: the first refusal breaks out of the loop over the calls.
RefuseRemaining ==
    /\ pc = "tools" /\ toolCalls # <<>>
    /\ used >= MaxToolCalls
    /\ toolCalls' = <<>>
    /\ spOwed' = spOwed - 1
    /\ UNCHANGED <<pc, step, calls, used, ctxAgent, supOwed, agent, round, exibidos, told,
                   seenVars, billVars>>

\* Fault: the refused call is taken up again.
RetryRefused ==
    /\ pc = "tools" /\ toolCalls # <<>>
    /\ used >= MaxToolCalls
    /\ UNCHANGED vars

\* _estourou_o_teto: the ceiling is reached, nothing runs.
RefuseOverBudget ==
    /\ pc = "tools" /\ toolCalls # <<>>
    /\ used >= MaxToolCalls
    /\ AnswerToolCall
    /\ UNCHANGED <<used, exibidos, executed, published, billVars>>

\* A tool the agent was never offered: counted, not executed.
RefuseUngranted ==
    /\ pc = "tools" /\ toolCalls # <<>>
    /\ used < MaxToolCalls
    /\ Head(toolCalls) \notin Granted[agent]
    /\ used' = used + 1
    /\ AnswerToolCall
    /\ UNCHANGED <<exibidos, executed, published, billVars>>

\* Fault: only refused calls are counted.
ExecuteUncounted ==
    /\ pc = "tools" /\ toolCalls # <<>>
    /\ used < MaxToolCalls
    /\ Head(toolCalls) \in Granted[agent]
    /\ executed' = executed + 1
    /\ \E pages \in IF Head(toolCalls) \in VisionTools THEN 0..MaxPages ELSE {0} :
          modelCalls' = modelCalls + pages
    /\ UNCHANGED <<used, usageRows, lostRows>>

\* The tool runs.  A vision tool calls its own model once a page, and writes
\* no usage row for it.
Execute ==
    /\ pc = "tools" /\ toolCalls # <<>>
    /\ used < MaxToolCalls
    /\ Head(toolCalls) \in Granted[agent]
    /\ used' = used + 1
    /\ executed' = executed + 1
    /\ \E pages \in IF Head(toolCalls) \in VisionTools THEN 0..MaxPages ELSE {0} :
          modelCalls' = modelCalls + pages
    /\ UNCHANGED <<usageRows, lostRows>>

RunTool(artifacts) ==
    /\ Execute
    /\ exibidos' = exibidos + artifacts
    /\ published' = published + artifacts
    /\ AnswerToolCall

\* The tool ran and its artifacts are on the screen, but cutting its output
\* raises (an artifact_id that is not a string): the specialist gives up.
RunToolAndFail(artifacts) ==
    /\ Execute
    /\ published' = published + artifacts
    /\ LeaveSpecialist(exibidos + artifacts)

\* All calls answered: artifacts published in the round are announced to the
\* specialist, and the loop goes on or its else branch forces an answer.
EndRound ==
    /\ pc = "tools" /\ toolCalls = <<>>
    /\ told' = exibidos
    /\ pc' = IF round < MaxRounds THEN "specialist" ELSE "specialistForced"
    /\ UNCHANGED <<step, calls, used, ctxAgent, supOwed, agent, round, toolCalls,
                   exibidos, spOwed, seenVars, billVars>>

-----------------------------------------------------------------------------
(***************************************************************************)
(* The stream that carries the turn is over (the client left, or a clock   *)
(* ran out) and cancels it: CancelledError is raised in the await the turn *)
(* is suspended in, and no handler of the loops catches it.  Cut in the    *)
(* middle of an await, the turn leaves what it leaves when cut just before *)
(* or just after it, but for one place: between a model's reply and the    *)
(* INSERT of its usage row.                                                *)
(***************************************************************************)
Ended == {"answered", "failed", "cancelled"}

Cancelled ==
    /\ pc \notin Ended
    /\ pc' = "cancelled"
    /\ \/ UNCHANGED modelCalls
       \/ /\ pc \in {"supervisor", "forced", "specialist", "specialistForced"}
          /\ modelCalls' = modelCalls + 1
    /\ UNCHANGED <<step, calls, used, ctxAgent, supOwed, spVars, seenVars, usageRows, lostRows>>

-----------------------------------------------------------------------------
TurnStep ==
    \/ OpenTurn \/ SummariseHistory \/ TurnFails
    \/ SupervisorAnswers
    \/ \E reply \in Replies(Agents \cup {Stranger}) : SupervisorDelegates(reply)
    \/ AnswerUnknownSpecialist \/ MalformedDelegation \/ StartSpecialist \/ NextStep
    \/ SpecialistAnswers \/ SpecialistFails
    \/ \E reply \in Replies(Tools \cup {Stranger}) : SpecialistCallsTools(reply)
    \/ RefuseOverBudget \/ RefuseUngranted
    \/ \E artifacts \in 0..MaxArtifacts : RunTool(artifacts)
    \/ \E artifacts \in 1..MaxArtifacts : RunToolAndFail(artifacts)
    \/ EndRound

Next == TurnStep \/ Cancelled

Spec == Init /\ [][Next]_vars

\* Every model call and every tool call returns or raises; nothing is assumed
\* of the stream around the turn.
FairSpec == Spec /\ WF_vars(TurnStep)

-----------------------------------------------------------------------------
InSpecialist == {"specialist", "tools", "specialistForced"}

TypeOK ==
    /\ pc \in {"opening", "supervisor", "delegating", "forced"} \cup InSpecialist \cup Ended
    /\ step \in 0..MaxSteps
    /\ calls \in Seq(Agents \cup {Stranger})
    /\ agent \in Agents \cup {NoAgent}
    /\ round \in 0..MaxRounds
    /\ toolCalls \in Seq(Tools \cup {Stranger})
    /\ exibidos \in Nat /\ told \in Nat
    /\ used \in 0..MaxToolCalls
    /\ ctxAgent \in Agents \cup {NoAgent}
    /\ stage \in Agents \cup {NoAgent}
    /\ supOwed \in Int /\ spOwed \in Int
    /\ executed \in Nat /\ published \in Nat /\ relayed \in Nat
    /\ delegated \in Nat /\ modelCalls \in Nat
    /\ usageRows \in 0..modelCalls /\ lostRows \in 0..modelCalls

(* Over the whole turn, all specialists together, no more tools run than the
   request's ceiling: the counter in run_config outlives each specialist. *)
ToolBudget == executed <= MaxToolCalls

(* Whenever a model is called, every tool call in the transcript it is given
   has been answered exactly once; a provider rejects any other transcript. *)
TranscriptAnswered ==
    /\ pc \in {"supervisor", "forced", "answered"} => supOwed = 0
    /\ pc \in {"specialist", "specialistForced"} => spOwed = 0

(* Whoever is about to write text knows every artifact already on the user's
   screen: the specialist those of its earlier rounds, the supervisor those of
   every specialist, the ones that failed half-way included. *)
ArtifactsAnnounced ==
    /\ pc \in {"specialist", "specialistForced"} => told = exibidos
    /\ pc \in {"supervisor", "forced", "answered"} => relayed = published

(* A tool handler always sees in RUN_CONTEXT the specialist that called it,
   which is also the one the client sees working; while the supervisor writes
   to the user, no specialist is left on stage. *)
OneAgentOnStage ==
    /\ pc \in InSpecialist => /\ agent \in Agents
                              /\ ctxAgent = agent /\ stage = agent
    /\ pc \in {"supervisor", "forced", "answered"} => stage = NoAgent

(* The model calls of a turn are bounded by its limits and by the fan-out of
   one reply: "Hard limits make runaway loops impossible". *)
CallCeiling ==
    1 + (MaxSteps + 1) + (MaxSteps * MaxFanOut) * (MaxRounds + 1) + MaxToolCalls * MaxPages
ModelCallsBounded == modelCalls <= CallCeiling

(* The trace of a turn is best effort, and this is all it may lack: the summary
   of the history, the pages of PDFs a tool looked at, the rows whose INSERT
   failed, and the one reply a cancellation cut off from its INSERT.  Every
   other reply of a chat model, whoever asked for it and whether the run around
   it then succeeds or fails, has its usage row.  (Embeddings and the
   transcription of audio are called outside these loops.) *)
UnbilledBounded ==
    modelCalls - usageRows <= 1 + MaxToolCalls * MaxPages + lostRows
                              + (IF pc = "cancelled" THEN 1 ELSE 0)

(* The turn ends, with an answer, with an exception or cut by its stream. *)
TurnEnds == <>(pc \in Ended)
=============================================================================
