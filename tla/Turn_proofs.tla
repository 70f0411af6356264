---------------------------- MODULE Turn_proofs ----------------------------
(***************************************************************************)
(* Safety of one turn for every set of specialists and tools and every     *)
(* limit.  IInv adds to the type what the loops keep true between two      *)
(* awaits: the calls still owed are the ones still to be taken, an         *)
(* artifact published is either relayed or still in the specialist's list, *)
(* and a loop that may go round again has rounds left.                     *)
(***************************************************************************)
EXTENDS Turn, SequenceTheorems, TLAPS

\* The calls of a model's reply are a sequence of names.
LEMMA RepliesAreSequences ==
    ASSUME NEW S, NEW reply \in Replies(S)
    PROVE  reply \in Seq(S) /\ Len(reply) \in 1..MaxFanOut
BY LimitsAssumption DEF Replies

\* A loop asks its model again only while it has rounds left.
LoopInv ==
    /\ pc = "opening" => step = 0 /\ modelCalls = 0
    /\ pc = "supervisor" => step < MaxSteps
    /\ pc = "specialist" => round < MaxRounds

\* The calls owed an answer are the ones still to be taken.
OwedInv ==
    /\ pc \in {"opening", "supervisor", "forced", "answered"} => supOwed = 0 /\ calls = <<>>
    /\ pc = "delegating" => supOwed = Len(calls)
    /\ pc \in InSpecialist => supOwed = Len(calls) /\ calls # <<>>
    /\ pc \in {"specialist", "specialistForced"} => spOwed = 0 /\ toolCalls = <<>>
    /\ pc = "tools" => spOwed = Len(toolCalls)

\* An artifact published is relayed, or on the running specialist's list.
ArtifactInv ==
    /\ pc \in InSpecialist => published = relayed + exibidos
    /\ pc \notin InSpecialist \cup {"cancelled"} => published = relayed
    /\ pc \in {"specialist", "specialistForced"} => told = exibidos

StageInv ==
    /\ pc \in InSpecialist => agent \in Agents /\ ctxAgent = agent /\ stage = agent
    /\ pc \notin InSpecialist \cup {"cancelled"} => stage = NoAgent

BudgetInv == executed <= used

IInv == TypeOK /\ LoopInv /\ OwedInv /\ ArtifactInv /\ StageInv /\ BudgetInv

-----------------------------------------------------------------------------
\* The invariant holds when the turn opens.
LEMMA InitIInv == Init => IInv
BY LimitsAssumption
   DEF Init, IInv, TypeOK, LoopInv, OwedInv, ArtifactInv, StageInv, BudgetInv, InSpecialist,
       Ended

\* The steps of the supervisor's loop.
LEMMA SupervisorKeepsIInv ==
    ASSUME IInv,
           \/ OpenTurn \/ SummariseHistory \/ TurnFails \/ SupervisorAnswers
           \/ \E reply \in Replies(Agents \cup {Stranger}) : SupervisorDelegates(reply)
           \/ AnswerUnknownSpecialist \/ MalformedDelegation \/ StartSpecialist \/ NextStep
    PROVE  IInv'
<1> USE LimitsAssumption
    DEF IInv, TypeOK, LoopInv, OwedInv, ArtifactInv, StageInv, BudgetInv, InSpecialist,
        Ended, spVars, seenVars, billVars, BilledCall
<1>1. CASE OpenTurn  BY <1>1 DEF OpenTurn
<1>2. CASE SummariseHistory  BY <1>2 DEF SummariseHistory
<1>3. CASE TurnFails  BY <1>3 DEF TurnFails
<1>4. CASE SupervisorAnswers  BY <1>4 DEF SupervisorAnswers
<1>5. ASSUME NEW reply \in Replies(Agents \cup {Stranger}), SupervisorDelegates(reply)
      PROVE  IInv'
  BY <1>5, RepliesAreSequences DEF SupervisorDelegates
<1>6. CASE AnswerUnknownSpecialist  BY <1>6 DEF AnswerUnknownSpecialist
<1>7. CASE MalformedDelegation  BY <1>7 DEF MalformedDelegation
<1>8. CASE StartSpecialist  BY <1>8 DEF StartSpecialist
<1>9. CASE NextStep  BY <1>9 DEF NextStep
<1>. QED  BY <1>1, <1>2, <1>3, <1>4, <1>5, <1>6, <1>7, <1>8, <1>9

\* The steps of the specialist's loop.
LEMMA SpecialistKeepsIInv ==
    ASSUME IInv,
           \/ SpecialistAnswers \/ SpecialistFails
           \/ \E reply \in Replies(Tools \cup {Stranger}) : SpecialistCallsTools(reply)
           \/ RefuseOverBudget \/ RefuseUngranted
           \/ \E artifacts \in 0..MaxArtifacts : RunTool(artifacts)
           \/ \E artifacts \in 1..MaxArtifacts : RunToolAndFail(artifacts)
           \/ EndRound
    PROVE  IInv'
<1> USE LimitsAssumption
    DEF IInv, TypeOK, LoopInv, OwedInv, ArtifactInv, StageInv, BudgetInv, InSpecialist,
        Ended, spVars, seenVars, billVars, BilledCall
<1>1. CASE SpecialistAnswers  BY <1>1 DEF SpecialistAnswers, LeaveSpecialist
<1>2. CASE SpecialistFails  BY <1>2 DEF SpecialistFails, LeaveSpecialist
<1>3. ASSUME NEW reply \in Replies(Tools \cup {Stranger}), SpecialistCallsTools(reply)
      PROVE  IInv'
  BY <1>3, RepliesAreSequences DEF SpecialistCallsTools
<1>4. CASE RefuseOverBudget  BY <1>4 DEF RefuseOverBudget, AnswerToolCall
<1>5. CASE RefuseUngranted  BY <1>5 DEF RefuseUngranted, AnswerToolCall
<1>6. ASSUME NEW artifacts \in 0..MaxArtifacts, RunTool(artifacts)
      PROVE  IInv'
  BY <1>6 DEF RunTool, Execute, AnswerToolCall
<1>7. ASSUME NEW artifacts \in 1..MaxArtifacts, RunToolAndFail(artifacts)
      PROVE  IInv'
  BY <1>7 DEF RunToolAndFail, Execute, LeaveSpecialist
<1>8. CASE EndRound  BY <1>8 DEF EndRound
<1>. QED  BY <1>1, <1>2, <1>3, <1>4, <1>5, <1>6, <1>7, <1>8

\* Every step keeps the invariant.
LEMMA StepKeepsIInv == IInv /\ [Next]_vars => IInv'
<1>1. IInv /\ TurnStep => IInv'
  BY SupervisorKeepsIInv, SpecialistKeepsIInv DEF TurnStep
<1>3. IInv /\ Cancelled => IInv'
  BY DEF Cancelled, IInv, TypeOK, LoopInv, OwedInv, ArtifactInv, StageInv, BudgetInv,
         InSpecialist, Ended, spVars, seenVars
<1>2. IInv /\ UNCHANGED vars => IInv'
  BY DEF IInv, TypeOK, LoopInv, OwedInv, ArtifactInv, StageInv, BudgetInv, InSpecialist,
         Ended, vars, spVars, seenVars, billVars
<1>. QED  BY <1>1, <1>2, <1>3 DEF Next

(* IInv holds in every reachable state. *)
THEOREM Invariance == Spec => []IInv
BY InitIInv, StepKeepsIInv, PTL DEF Spec

(* Every variable of a turn keeps its type; step, round and used stay within
   the limits of the request. *)
THEOREM TypeCorrect == Spec => []TypeOK
<1>1. IInv => TypeOK
  BY DEF IInv
<1>. QED  BY <1>1, Invariance, PTL

(* No turn executes more tools than its ceiling, whichever specialists run. *)
THEOREM ToolBudgetHolds == Spec => []ToolBudget
<1>1. IInv => ToolBudget
  BY LimitsAssumption DEF IInv, TypeOK, BudgetInv, ToolBudget
<1>. QED  BY <1>1, Invariance, PTL

(* A model is only ever called on a transcript with every call answered. *)
THEOREM TranscriptAnsweredHolds == Spec => []TranscriptAnswered
<1>1. IInv => TranscriptAnswered
  BY DEF IInv, OwedInv, TranscriptAnswered
<1>. QED  BY <1>1, Invariance, PTL

(* Whoever writes next knows every artifact on the user's screen. *)
THEOREM ArtifactsAnnouncedHolds == Spec => []ArtifactsAnnounced
<1>1. IInv => ArtifactsAnnounced
  BY DEF IInv, ArtifactInv, ArtifactsAnnounced, InSpecialist
<1>. QED  BY <1>1, Invariance, PTL

(* Tools run in the name of the specialist on stage, the supervisor alone. *)
THEOREM OneAgentOnStageHolds == Spec => []OneAgentOnStage
<1>1. IInv => OneAgentOnStage
  BY DEF IInv, StageInv, OneAgentOnStage, InSpecialist
<1>. QED  BY <1>1, Invariance, PTL

-----------------------------------------------------------------------------
(***************************************************************************)
(* The bound on model calls.  Each is paid for by something bounded: a     *)
(* supervisor step, a round of a specialist run or its answer, a page of a *)
(* tool that was executed; and each specialist run by a call of a step.    *)
(***************************************************************************)
Running == IF pc \in InSpecialist THEN 1 ELSE 0
Finished == delegated - Running
RunCost == MaxRounds + 1
RunsCost == Finished * RunCost
PagesCost == executed * MaxPages

DelegationInv ==
    IF pc = "cancelled" THEN delegated <= step * MaxFanOut
    ELSE delegated + Len(calls) <= step * MaxFanOut + Running

CallsInv ==
    modelCalls <= (IF pc = "opening" THEN 0 ELSE 1)
                  + step + (IF pc \in {"answered", "cancelled"} THEN 1 ELSE 0)
                  + RunsCost + PagesCost
                  + (IF pc \in InSpecialist THEN round ELSE 0)

\* Multiplication by a natural number is monotone.
LEMMA TimesMonotone ==
    ASSUME NEW a \in Int, NEW b \in Int, NEW c \in Nat, a <= b
    PROVE  a * c <= b * c
OBVIOUS

\* Multiplication distributes over a sum of natural numbers.
LEMMA TimesDistributes ==
    ASSUME NEW a \in Int, NEW b \in Int, NEW c \in Int
    PROVE  (a + b) * c = a * c + b * c
OBVIOUS

\* One more specialist run costs one run more.
LEMMA TimesSuccessor ==
    ASSUME NEW a \in Int, NEW c \in Int
    PROVE  (a + 1) * c = a * c + c
OBVIOUS

\* Every step keeps the number of specialist runs within the fan-out.
LEMMA StepKeepsDelegationInv ==
    ASSUME IInv, DelegationInv, [Next]_vars
    PROVE  DelegationInv'
<1> USE LimitsAssumption
    DEF IInv, TypeOK, OwedInv, DelegationInv, Running, InSpecialist, Ended
<1>1. step * MaxFanOut \in Int /\ (step + 1) * MaxFanOut = step * MaxFanOut + MaxFanOut
  BY TimesSuccessor
<1>2. ASSUME NEW reply \in Replies(Agents \cup {Stranger}), SupervisorDelegates(reply)
      PROVE  DelegationInv'
  BY <1>1, <1>2, RepliesAreSequences DEF SupervisorDelegates, seenVars
<1>3. CASE AnswerUnknownSpecialist  BY <1>1, <1>3 DEF AnswerUnknownSpecialist, seenVars
<1>4. CASE StartSpecialist  BY <1>1, <1>4 DEF StartSpecialist
<1>5. ASSUME NEW shown, LeaveSpecialist(shown), pc \in InSpecialist
      PROVE  DelegationInv'
  BY <1>1, <1>5 DEF LeaveSpecialist
<1>6. ASSUME UNCHANGED <<step, calls, delegated>>,
             pc = "cancelled" <=> pc' = "cancelled",
             pc \in InSpecialist <=> pc' \in InSpecialist
      PROVE  DelegationInv'
  BY <1>1, <1>6
<1>7. CASE \/ OpenTurn \/ SummariseHistory \/ TurnFails \/ SupervisorAnswers
           \/ MalformedDelegation \/ NextStep
  BY <1>6, <1>7 DEF OpenTurn, SummariseHistory, TurnFails, SupervisorAnswers,
                    MalformedDelegation, NextStep, seenVars
<1>8. CASE SpecialistAnswers \/ SpecialistFails
  BY <1>5, <1>8 DEF SpecialistAnswers, SpecialistFails
<1>9. CASE RefuseOverBudget \/ RefuseUngranted \/ EndRound
  BY <1>6, <1>9 DEF RefuseOverBudget, RefuseUngranted, EndRound, AnswerToolCall, seenVars
<1>10. ASSUME NEW reply \in Replies(Tools \cup {Stranger}), SpecialistCallsTools(reply)
       PROVE  DelegationInv'
  BY <1>6, <1>10 DEF SpecialistCallsTools, seenVars
<1>11. ASSUME NEW artifacts \in 0..MaxArtifacts, RunTool(artifacts)
       PROVE  DelegationInv'
  BY <1>6, <1>11 DEF RunTool, Execute, AnswerToolCall
<1>12. ASSUME NEW artifacts \in 1..MaxArtifacts, RunToolAndFail(artifacts)
       PROVE  DelegationInv'
  BY <1>5, <1>12 DEF RunToolAndFail, Execute
<1>13. CASE UNCHANGED vars
  BY <1>6, <1>13 DEF vars, seenVars
<1>14. CASE Cancelled
  <2>1. delegated + Len(calls) <= step * MaxFanOut + Running /\ pc' = "cancelled"
        /\ UNCHANGED <<step, calls, delegated>>
    BY <1>14 DEF Cancelled, seenVars
  <2>2. Len(calls) \in Nat /\ (pc \in InSpecialist => Len(calls) > 0)
    <3>1. calls \in Seq(Agents \cup {Stranger}) /\ (pc \in InSpecialist => calls # <<>>)
      OBVIOUS
    <3>. QED  BY <3>1
  <2>. QED  BY <1>1, <2>1, <2>2
<1>. QED
  BY <1>2, <1>3, <1>4, <1>7, <1>8, <1>9, <1>10, <1>11, <1>12, <1>13, <1>14 DEF Next, TurnStep

\* The cost bounds are integers, so the prover may add them.
LEMMA CostsAreIntegers ==
    ASSUME IInv
    PROVE  Finished \in Int /\ RunCost \in Nat /\ RunsCost \in Int /\ PagesCost \in Int
<1>1. Finished \in Int /\ RunCost \in Nat /\ executed \in Int /\ MaxPages \in Int
  BY LimitsAssumption DEF IInv, TypeOK, Finished, Running, RunCost
<1>. QED  BY <1>1 DEF RunsCost, PagesCost

\* A finished specialist run is charged in full, a running one by its rounds.
LEMMA CostsGrow ==
    ASSUME IInv
    PROVE  /\ Finished' = Finished => RunsCost' = RunsCost
           /\ Finished' = Finished + 1 => RunsCost' = RunsCost + RunCost
           /\ executed' = executed => PagesCost' = PagesCost
           /\ executed' = executed + 1 => PagesCost' = PagesCost + MaxPages
<1>1. Finished \in Int /\ RunCost \in Int /\ executed \in Int /\ MaxPages \in Int
  BY LimitsAssumption, CostsAreIntegers DEF IInv, TypeOK
<1>2. RunCost' = RunCost
  BY DEF RunCost
<1>. QED  BY <1>1, <1>2, TimesSuccessor DEF RunsCost, PagesCost

\* Every step keeps the model calls within the cost of what has run.
LEMMA StepKeepsCallsInv ==
    ASSUME IInv, CallsInv, IInv', [Next]_vars
    PROVE  CallsInv'
<1> USE LimitsAssumption
    DEF IInv, TypeOK, LoopInv, CallsInv, Finished, Running, RunCost, InSpecialist,
        Ended, BilledCall
<1>1. /\ RunsCost \in Int /\ PagesCost \in Int
      /\ Finished' = Finished => RunsCost' = RunsCost
      /\ Finished' = Finished + 1 => RunsCost' = RunsCost + RunCost
      /\ executed' = executed => PagesCost' = PagesCost
      /\ executed' = executed + 1 => PagesCost' = PagesCost + MaxPages
  BY CostsAreIntegers, CostsGrow
<1>2. ASSUME Finished' = Finished, UNCHANGED <<executed, round, step>>,
             pc \notin {"answered", "cancelled"}, pc' # "opening",
             pc \in InSpecialist <=> pc' \in InSpecialist, UNCHANGED modelCalls
      PROVE  CallsInv'
  <2>1. RunsCost' = RunsCost /\ PagesCost' = PagesCost
    BY <1>1, <1>2
  <2>2. CASE pc \in InSpecialist
    BY <1>1, <1>2, <2>1, <2>2, SMTT(30)
  <2>3. CASE pc \notin InSpecialist
    BY <1>1, <1>2, <2>1, <2>3, SMTT(30)
  <2>. QED  BY <2>2, <2>3
<1>3. CASE OpenTurn \/ TurnFails \/ MalformedDelegation \/ NextStep \/ AnswerUnknownSpecialist
  BY <1>2, <1>3 DEF OpenTurn, TurnFails, MalformedDelegation, NextStep,
                    AnswerUnknownSpecialist, spVars, seenVars, billVars
<1>4. CASE SummariseHistory
  BY <1>1, <1>4 DEF SummariseHistory, spVars, seenVars
<1>5. CASE SupervisorAnswers
  BY <1>1, <1>5 DEF SupervisorAnswers, spVars, seenVars
<1>6. ASSUME NEW reply \in Replies(Agents \cup {Stranger}), SupervisorDelegates(reply)
      PROVE  CallsInv'
  BY <1>1, <1>6 DEF SupervisorDelegates, spVars, seenVars
<1>7. CASE StartSpecialist
  BY <1>1, <1>7 DEF StartSpecialist, billVars
<1>8. CASE SpecialistAnswers \/ SpecialistFails
  <2>1. LeaveSpecialist(exibidos) /\ pc \in {"specialist", "specialistForced"}
    BY <1>8 DEF SpecialistAnswers, SpecialistFails
  <2>2. step' = step /\ pc' = "delegating" /\ delegated' = delegated
    BY <2>1 DEF LeaveSpecialist
  <2>3. executed' = executed /\ modelCalls' <= modelCalls + 1
    BY <1>8 DEF SpecialistAnswers, SpecialistFails, billVars
  <2>4. Finished' = Finished + 1
    BY <2>1, <2>2
  <2>5. RunsCost' = RunsCost + RunCost /\ PagesCost' = PagesCost
    BY <1>1, <2>3, <2>4
  <2>6. modelCalls <= 1 + step + RunsCost + PagesCost + round
    <3>1. pc \in InSpecialist /\ pc \notin {"opening", "answered", "cancelled"}
      BY <2>1
    <3>. HIDE DEF InSpecialist
    <3>. QED  BY <1>1, <3>1
  <2>. QED  BY <1>1, <2>2, <2>3, <2>5, <2>6
<1>9. ASSUME NEW reply \in Replies(Tools \cup {Stranger}), SpecialistCallsTools(reply)
      PROVE  CallsInv'
  BY <1>1, <1>9 DEF SpecialistCallsTools, seenVars
<1>10. CASE RefuseOverBudget \/ RefuseUngranted \/ EndRound
  BY <1>2, <1>10 DEF RefuseOverBudget, RefuseUngranted, EndRound, AnswerToolCall,
                     seenVars, billVars
<1>11. ASSUME Execute
       PROVE  executed' = executed + 1 /\ modelCalls' <= modelCalls + MaxPages
  <2>1. PICK pages \in (IF Head(toolCalls) \in VisionTools THEN 0..MaxPages ELSE {0}) :
               modelCalls' = modelCalls + pages
    BY <1>11 DEF Execute
  <2>2. pages \in 0..MaxPages
    BY <2>1
  <2>3. executed' = executed + 1
    BY <1>11 DEF Execute
  <2>. QED  BY <2>1, <2>2, <2>3
<1>12. ASSUME NEW artifacts \in 0..MaxArtifacts, RunTool(artifacts)
       PROVE  CallsInv'
  <2>1. Finished' = Finished /\ UNCHANGED <<pc, round, step>> /\ pc = "tools"
    BY <1>12 DEF RunTool, Execute, AnswerToolCall
  <2>2. executed' = executed + 1 /\ modelCalls' <= modelCalls + MaxPages
    BY <1>11, <1>12 DEF RunTool
  <2>. QED  BY <1>1, <2>1, <2>2
<1>13. ASSUME NEW artifacts \in 1..MaxArtifacts, RunToolAndFail(artifacts)
       PROVE  CallsInv'
  <2>1. Finished' = Finished + 1 /\ step' = step /\ pc' = "delegating" /\ pc = "tools"
    BY <1>13 DEF RunToolAndFail, Execute, LeaveSpecialist
  <2>2. executed' = executed + 1 /\ modelCalls' <= modelCalls + MaxPages
    BY <1>11, <1>13 DEF RunToolAndFail
  <2>. QED  BY <1>1, <2>1, <2>2
<1>14. CASE UNCHANGED vars
  <2>1. UNCHANGED <<pc, step, round, executed, delegated, modelCalls>>
    BY <1>14 DEF vars, spVars, seenVars, billVars
  <2>2. RunsCost' = RunsCost /\ PagesCost' = PagesCost
    BY <1>1, <2>1
  <2>. QED  BY <2>1, <2>2
<1>15. CASE Cancelled
  <2>1. /\ UNCHANGED <<step, executed, delegated>> /\ modelCalls' <= modelCalls + 1
        /\ pc \notin {"answered", "cancelled"} /\ pc' = "cancelled"
    BY <1>15 DEF Cancelled, seenVars
  <2>2. CASE pc \in InSpecialist
    <3>1. Finished' = Finished + 1
      BY <2>1, <2>2
    <3>2. RunsCost' = RunsCost + RunCost /\ PagesCost' = PagesCost
      BY <1>1, <2>1, <3>1
    <3>3. modelCalls <= 1 + step + RunsCost + PagesCost + round
      BY <1>1, <2>1, <2>2
    <3>. QED  BY <1>1, <2>1, <3>2, <3>3
  <2>3. CASE pc \notin InSpecialist
    <3>1. Finished' = Finished
      BY <2>1, <2>3
    <3>2. RunsCost' = RunsCost /\ PagesCost' = PagesCost
      BY <1>1, <2>1, <3>1
    <3>3. modelCalls <= 1 + step + RunsCost + PagesCost
      BY <1>1, <2>1, <2>3
    <3>. QED  BY <1>1, <2>1, <3>2, <3>3
  <2>. QED  BY <2>2, <2>3
<1>. QED
  BY <1>3, <1>4, <1>5, <1>6, <1>7, <1>8, <1>9, <1>10, <1>12, <1>13, <1>14, <1>15
     DEF Next, TurnStep

(* The model calls of a turn are bounded by its limits and by the number of
   calls one reply may hold. *)
THEOREM ModelCallsBoundedHolds == Spec => []ModelCallsBounded
<1> DEFINE Costs == DelegationInv /\ CallsInv
<1>1. Init => Costs
  BY LimitsAssumption
     DEF Init, DelegationInv, CallsInv, Finished, Running, RunCost, RunsCost, PagesCost,
         InSpecialist
<1>2. IInv /\ IInv' /\ Costs /\ [Next]_vars => Costs'
  BY StepKeepsDelegationInv, StepKeepsCallsInv
<1>3. IInv /\ Costs => ModelCallsBounded
  <2> SUFFICES ASSUME IInv, Costs PROVE ModelCallsBounded
    OBVIOUS
  <2> USE LimitsAssumption DEF IInv, TypeOK, InSpecialist, Running
  <2>1. Finished \in Int /\ Finished + Running <= step * MaxFanOut
    BY DEF DelegationInv, Finished, OwedInv
  <2>2. step * MaxFanOut \in Int /\ MaxSteps * MaxFanOut \in Int
        /\ step * MaxFanOut <= MaxSteps * MaxFanOut
    BY TimesMonotone
  <2>3. RunsCost + Running * RunCost <= (MaxSteps * MaxFanOut) * RunCost
    <3>1. (Finished + Running) * RunCost <= (MaxSteps * MaxFanOut) * RunCost
      BY <2>1, <2>2, TimesMonotone DEF RunCost
    <3>. HIDE DEF Finished, RunCost
    <3>2. (Finished + Running) * RunCost = RunsCost + Running * RunCost
      <4>1. Running \in Int /\ RunCost \in Int
        BY CostsAreIntegers
      <4>. QED  BY <2>1, <4>1, TimesDistributes DEF RunsCost
    <3>. QED  BY <3>1, <3>2
  <2>4. PagesCost <= MaxToolCalls * MaxPages
    BY TimesMonotone DEF BudgetInv, PagesCost
  <2>5. /\ RunsCost \in Int /\ (MaxSteps * MaxFanOut) * RunCost \in Int
        /\ PagesCost \in Int /\ MaxToolCalls * MaxPages \in Int
    BY <2>2, CostsAreIntegers
  <2>6. modelCalls <= 1 + step + 1 + (MaxSteps * MaxFanOut) * RunCost
                      + MaxToolCalls * MaxPages
    <3>1. CASE pc \in InSpecialist
      <4>1. round <= RunCost
        BY DEF RunCost
      <4>2. RunsCost + RunCost <= (MaxSteps * MaxFanOut) * RunCost
        BY <2>3, <3>1 DEF RunCost
      <4>3. modelCalls <= 1 + step + RunsCost + PagesCost + round
        BY <2>5, <3>1 DEF CallsInv
      <4>4. RunCost \in Int
        BY CostsAreIntegers
      <4>. QED  BY <2>4, <2>5, <4>1, <4>2, <4>3, <4>4
    <3>2. CASE pc \notin InSpecialist
      <4>1. RunsCost <= (MaxSteps * MaxFanOut) * RunCost
        BY <2>3, <2>5, <3>2 DEF RunCost
      <4>. QED  BY <2>4, <2>5, <3>2, <4>1 DEF CallsInv
    <3>. QED  BY <3>1, <3>2
  <2>. QED  BY <2>5, <2>6 DEF ModelCallsBounded, CallCeiling, RunCost
<1>. QED  BY <1>1, <1>2, <1>3, Invariance, PTL DEF Spec

-----------------------------------------------------------------------------
(***************************************************************************)
(* The trace.  A model call with no usage row is the summary, made while   *)
(* the turn opens, a page of a tool that was executed, one whose INSERT    *)
(* failed, or the reply that a cancellation cut off.                       *)
(***************************************************************************)
UsageInv ==
    modelCalls <= usageRows + lostRows + PagesCost + (IF pc = "opening" THEN 0 ELSE 1)
                  + (IF pc = "cancelled" THEN 1 ELSE 0)

\* Every step keeps the calls without a usage row within what is excused.
LEMMA StepKeepsUsageInv ==
    ASSUME IInv, UsageInv, IInv', [Next]_vars
    PROVE  UsageInv'
<1>1. /\ PagesCost \in Int /\ MaxPages \in Nat
      /\ executed' = executed => PagesCost' = PagesCost
      /\ executed' = executed + 1 => PagesCost' = PagesCost + MaxPages
  BY LimitsAssumption, CostsAreIntegers, CostsGrow
<1>2. /\ modelCalls \in Nat /\ usageRows \in Nat /\ lostRows \in Nat
      /\ modelCalls' \in Nat /\ usageRows' \in Nat /\ lostRows' \in Nat
  BY DEF IInv, TypeOK
<1>3. CASE /\ UNCHANGED <<executed, modelCalls, usageRows, lostRows>>
           /\ pc # "cancelled" /\ pc' # "opening"
  BY <1>1, <1>2, <1>3 DEF UsageInv
<1>4. CASE BilledCall /\ executed' = executed /\ pc # "cancelled" /\ pc' # "opening"
  <2>1. PagesCost' = PagesCost /\ modelCalls' = modelCalls + 1
    BY <1>1, <1>4 DEF BilledCall
  <2>2. CASE usageRows' = usageRows + 1 /\ UNCHANGED lostRows
    BY <1>1, <1>2, <1>4, <2>1, <2>2 DEF UsageInv
  <2>3. CASE lostRows' = lostRows + 1 /\ UNCHANGED usageRows
    BY <1>1, <1>2, <1>4, <2>1, <2>3 DEF UsageInv
  <2>. QED  BY <1>4, <2>2, <2>3 DEF BilledCall
<1>5. CASE SummariseHistory
  BY <1>1, <1>2, <1>5 DEF SummariseHistory, LoopInv, IInv, UsageInv, seenVars
<1>6. CASE Execute /\ pc' # "opening"
  <2>1. PICK pages \in (IF Head(toolCalls) \in VisionTools THEN 0..MaxPages ELSE {0}) :
               modelCalls' = modelCalls + pages
    BY <1>6 DEF Execute
  <2>2. pages \in 0..MaxPages
    BY <2>1, LimitsAssumption
  <2>3. /\ executed' = executed + 1 /\ usageRows' = usageRows /\ lostRows' = lostRows
        /\ pc = "tools"
    BY <1>6 DEF Execute
  <2>. QED  BY <1>1, <1>2, <1>6, <2>1, <2>2, <2>3 DEF UsageInv
<1>7. CASE UNCHANGED vars
  BY <1>1, <1>7 DEF UsageInv, vars, seenVars, billVars
<1>8. CASE \/ OpenTurn \/ TurnFails \/ SupervisorAnswers
           \/ \E reply \in Replies(Agents \cup {Stranger}) : SupervisorDelegates(reply)
           \/ AnswerUnknownSpecialist \/ MalformedDelegation \/ StartSpecialist \/ NextStep
  BY <1>3, <1>4, <1>8
     DEF OpenTurn, TurnFails, SupervisorAnswers, SupervisorDelegates, AnswerUnknownSpecialist,
         MalformedDelegation, StartSpecialist, NextStep, seenVars, billVars
<1>9. CASE \/ SpecialistAnswers \/ SpecialistFails
           \/ \E reply \in Replies(Tools \cup {Stranger}) : SpecialistCallsTools(reply)
           \/ RefuseOverBudget \/ RefuseUngranted \/ EndRound
  BY <1>3, <1>4, <1>9
     DEF SpecialistAnswers, SpecialistFails, SpecialistCallsTools, RefuseOverBudget,
         RefuseUngranted, EndRound, LeaveSpecialist, AnswerToolCall, seenVars, billVars
<1>10. CASE \/ \E artifacts \in 0..MaxArtifacts : RunTool(artifacts)
            \/ \E artifacts \in 1..MaxArtifacts : RunToolAndFail(artifacts)
  BY <1>6, <1>10 DEF RunTool, RunToolAndFail, Execute, AnswerToolCall, LeaveSpecialist
<1>11. CASE Cancelled
  <2>1. /\ UNCHANGED <<executed, usageRows, lostRows>> /\ modelCalls' <= modelCalls + 1
        /\ pc # "cancelled" /\ pc' = "cancelled"
    BY <1>2, <1>11 DEF Cancelled, Ended, seenVars
  <2>. QED  BY <1>1, <1>2, <2>1 DEF UsageInv
<1>. QED  BY <1>5, <1>7, <1>8, <1>9, <1>10, <1>11 DEF Next, TurnStep

(* Whatever the models answer, whatever fails and wherever the turn is cut, the
   model calls with no usage row are the summary's, one for each page a tool
   read, those whose INSERT failed and, of a cancelled turn, one. *)
THEOREM UnbilledBoundedHolds == Spec => []UnbilledBounded
<1>1. Init => UsageInv
  BY LimitsAssumption DEF Init, UsageInv, PagesCost
<1>2. IInv /\ IInv' /\ UsageInv /\ [Next]_vars => UsageInv'
  BY StepKeepsUsageInv
<1>3. IInv /\ UsageInv => UnbilledBounded
  <2> SUFFICES ASSUME IInv, UsageInv PROVE UnbilledBounded
    OBVIOUS
  <2>1. PagesCost <= MaxToolCalls * MaxPages
    BY LimitsAssumption, TimesMonotone DEF IInv, TypeOK, BudgetInv, PagesCost
  <2>2. PagesCost \in Int /\ MaxToolCalls * MaxPages \in Int
    BY LimitsAssumption, CostsAreIntegers
  <2>. QED  BY <2>1, <2>2 DEF UsageInv, UnbilledBounded, IInv, TypeOK
<1>. QED  BY <1>1, <1>2, <1>3, Invariance, PTL DEF Spec

-----------------------------------------------------------------------------
(***************************************************************************)
(* Why a turn ends.  Work is what the limits leave it to do: supervisor    *)
(* steps, calls of the step's reply, rounds of the specialist running and  *)
(* calls of the round's reply, each worth more than all it may bring.      *)
(***************************************************************************)
RunWork == MaxRounds * (MaxFanOut + 2) + 1
StepWork == MaxFanOut * (RunWork + 1) + 2

StepsWork == (MaxSteps - step) * StepWork
CallsWork == (Len(calls) - Running) * (RunWork + 1)
RoundsWork == (MaxRounds - round) * (MaxFanOut + 2)

SpecialistWork ==
    IF pc \in InSpecialist
    THEN RoundsWork + Len(toolCalls) + (IF pc = "tools" THEN 2 ELSE 1)
    ELSE 0

Work ==
    IF pc \in Ended THEN 0
    ELSE StepsWork + CallsWork + SpecialistWork
         + (IF pc \in {"supervisor", "forced"} THEN 1 ELSE 2)

\* The product of a natural number with another is one.
LEMMA TimesNatural ==
    ASSUME NEW a \in Nat, NEW b \in Nat
    PROVE  a * b \in Nat
OBVIOUS

\* The three parts of the work are natural numbers.
LEMMA WorkIsNatural ==
    ASSUME IInv
    PROVE  /\ RunWork \in Nat /\ StepWork \in Nat /\ StepsWork \in Nat
           /\ CallsWork \in Nat /\ RoundsWork \in Nat /\ SpecialistWork \in Nat
           /\ Work \in Nat
           /\ pc \notin Ended => Work > 0
<1>1. RunWork \in Nat
  BY LimitsAssumption, TimesNatural DEF RunWork
<1>2. StepWork \in Nat
  BY LimitsAssumption, TimesNatural, <1>1 DEF StepWork
<1>3. StepsWork \in Nat
  BY LimitsAssumption, TimesNatural, <1>2 DEF StepsWork, IInv, TypeOK
<1>4. CallsWork \in Nat
  <2>1. Len(calls) - Running \in Nat
    BY DEF IInv, TypeOK, OwedInv, Running, InSpecialist
  <2>. QED  BY TimesNatural, <1>1, <2>1 DEF CallsWork
<1>5. RoundsWork \in Nat
  BY LimitsAssumption, TimesNatural DEF RoundsWork, IInv, TypeOK
<1>6. SpecialistWork \in Nat
  BY <1>5 DEF SpecialistWork, IInv, TypeOK
<1>. QED  BY <1>1, <1>2, <1>3, <1>4, <1>5, <1>6 DEF Work

\* How the parts change: by the worth of a step, of a call and of a round.
LEMMA WorkSpent ==
    ASSUME IInv
    PROVE  /\ step' = step => StepsWork' = StepsWork
           /\ step' = step + 1 => StepsWork' = StepsWork - StepWork
           /\ Len(calls)' - Running' = Len(calls) - Running => CallsWork' = CallsWork
           /\ Len(calls)' - Running' = Len(calls) - Running - 1 =>
                 CallsWork' = CallsWork - (RunWork + 1)
           /\ round' = round => RoundsWork' = RoundsWork
           /\ round' = round + 1 => RoundsWork' = RoundsWork - (MaxFanOut + 2)
<1>1. \A a, b \in Int : (a - 1) * b = a * b - b
  OBVIOUS
<1>2. RunWork \in Nat /\ StepWork \in Nat
  BY WorkIsNatural
<1>3. /\ MaxSteps - step \in Int /\ Len(calls) - Running \in Int /\ MaxRounds - round \in Int
      /\ MaxFanOut + 2 \in Int
  BY LimitsAssumption DEF IInv, TypeOK, Running
<1>4. RunWork' = RunWork /\ StepWork' = StepWork
  BY DEF RunWork, StepWork
<1>5. step' = step + 1 => MaxSteps - step' = (MaxSteps - step) - 1
  BY LimitsAssumption DEF IInv, TypeOK
<1>6. round' = round + 1 => MaxRounds - round' = (MaxRounds - round) - 1
  BY LimitsAssumption DEF IInv, TypeOK
<1>7. /\ step' = step => StepsWork' = StepsWork
      /\ step' = step + 1 => StepsWork' = StepsWork - StepWork
  BY <1>1, <1>2, <1>3, <1>4, <1>5 DEF StepsWork
<1>8. /\ Len(calls)' - Running' = Len(calls) - Running => CallsWork' = CallsWork
      /\ Len(calls)' - Running' = Len(calls) - Running - 1 =>
            CallsWork' = CallsWork - (RunWork + 1)
  <2>1. RunWork + 1 \in Int
    BY <1>2
  <2>. QED  BY <1>1, <1>3, <1>4, <2>1 DEF CallsWork
<1>9. /\ round' = round => RoundsWork' = RoundsWork
      /\ round' = round + 1 => RoundsWork' = RoundsWork - (MaxFanOut + 2)
  BY <1>1, <1>3, <1>6 DEF RoundsWork
<1>. QED  BY <1>7, <1>8, <1>9

\* The calls of a reply are paid for by the step that asked for them.
LEMMA ReplyWork ==
    ASSUME IInv, NEW n \in 0..MaxFanOut
    PROVE  n * (RunWork + 1) \in Nat /\ n * (RunWork + 1) <= StepWork - 2
<1>1. RunWork + 1 \in Nat /\ MaxFanOut \in Nat /\ MaxFanOut * (RunWork + 1) \in Nat
  BY LimitsAssumption, WorkIsNatural, TimesNatural
<1>2. n * (RunWork + 1) <= MaxFanOut * (RunWork + 1)
  BY <1>1, TimesMonotone
<1>3. n * (RunWork + 1) \in Nat
  BY <1>1, TimesNatural
<1>. QED  BY <1>1, <1>2, <1>3 DEF StepWork

\* Every step of the supervisor's loop leaves less to do.
LEMMA SupervisorWorks ==
    ASSUME IInv, IInv',
           \/ OpenTurn \/ SummariseHistory \/ TurnFails \/ SupervisorAnswers
           \/ \E reply \in Replies(Agents \cup {Stranger}) : SupervisorDelegates(reply)
           \/ AnswerUnknownSpecialist \/ MalformedDelegation \/ StartSpecialist \/ NextStep
    PROVE  Work' < Work
<1>1. /\ RunWork \in Nat /\ StepWork \in Nat /\ StepsWork \in Nat /\ CallsWork \in Nat
      /\ RoundsWork \in Nat /\ SpecialistWork \in Nat /\ Work \in Nat
      /\ pc \notin Ended => Work > 0
  BY WorkIsNatural
<1>2. CASE pc' \in Ended /\ pc \notin Ended
  BY <1>1, <1>2 DEF Work
<1>3. CASE OpenTurn \/ SummariseHistory \/ NextStep
  <2>1. /\ UNCHANGED <<step, calls>> /\ Running' = Running
        /\ SpecialistWork = 0 /\ SpecialistWork' = 0
        /\ pc \in {"opening", "delegating"} /\ pc' \in {"supervisor", "forced"}
    BY <1>3 DEF OpenTurn, SummariseHistory, NextStep, Running, InSpecialist, SpecialistWork
  <2>2. StepsWork' = StepsWork /\ CallsWork' = CallsWork
    BY <2>1, WorkSpent
  <2>. QED  BY <1>1, <2>1, <2>2 DEF Work, Ended
<1>4. CASE \E reply \in Replies(Agents \cup {Stranger}) : SupervisorDelegates(reply)
  <2>1. /\ pc = "supervisor" /\ pc' = "delegating" /\ step' = step + 1
        /\ Len(calls') \in 0..MaxFanOut
    <3>1. PICK reply \in Replies(Agents \cup {Stranger}) : SupervisorDelegates(reply)
      BY <1>4
    <3>. QED  BY <3>1, RepliesAreSequences, LimitsAssumption DEF SupervisorDelegates
  <2>2. Running = 0 /\ Running' = 0 /\ SpecialistWork = 0 /\ SpecialistWork' = 0
    BY <2>1 DEF Running, InSpecialist, SpecialistWork
  <2>3. StepsWork' = StepsWork - StepWork
    BY <2>1, WorkSpent
  <2>4. CallsWork' = Len(calls') * (RunWork + 1)
    BY <2>1, <2>2 DEF CallsWork, RunWork
  <2>5. CallsWork' \in Nat /\ CallsWork' <= StepWork - 2
    BY <2>1, <2>4, ReplyWork
  <2>6. Work = StepsWork + CallsWork + 1
    BY <1>1, <2>1, <2>2 DEF Work, Ended
  <2>7. Work' = ((StepsWork - StepWork) + CallsWork') + 2
    <3>1. Work' = StepsWork' + CallsWork' + 0 + 2
      BY <2>1, <2>2 DEF Work, Ended
    <3>. QED  BY <1>1, <2>3, <2>5, <3>1
  <2>8. \A s, c, d, r \in Nat : r <= d - 2 => ((s - d) + r) + 2 < s + c + 1
    OBVIOUS
  <2>. QED  BY <1>1, <2>5, <2>6, <2>7, <2>8, Zenon
<1>5. CASE AnswerUnknownSpecialist
  <2>1. /\ UNCHANGED <<step, pc>> /\ pc = "delegating" /\ Running' = 0 /\ Running = 0
        /\ SpecialistWork = 0 /\ SpecialistWork' = 0 /\ Len(calls)' = Len(calls) - 1
    <3>1. calls \in Seq(Agents \cup {Stranger}) /\ calls # <<>> /\ calls' = Tail(calls)
      BY <1>5 DEF AnswerUnknownSpecialist, IInv, TypeOK
    <3>2. Len(Tail(calls)) = Len(calls) - 1
      BY <3>1
    <3>. QED
      BY <1>5, <3>1, <3>2
         DEF AnswerUnknownSpecialist, Running, InSpecialist, SpecialistWork
  <2>2. StepsWork' = StepsWork /\ CallsWork' = CallsWork - (RunWork + 1)
    BY <2>1, WorkSpent DEF IInv, TypeOK
  <2>. QED  BY <1>1, <2>1, <2>2 DEF Work, Ended
<1>6. CASE StartSpecialist
  <2>1. /\ UNCHANGED <<step, calls>> /\ pc = "delegating" /\ pc' = "specialist"
        /\ Running' = 1 /\ Running = 0 /\ round' = 0 /\ toolCalls' = <<>>
        /\ SpecialistWork = 0
    BY <1>6 DEF StartSpecialist, Running, InSpecialist, SpecialistWork
  <2>2. StepsWork' = StepsWork /\ CallsWork' = CallsWork - (RunWork + 1)
    BY <2>1, WorkSpent DEF IInv, TypeOK
  <2>3. SpecialistWork' = RunWork
    <3>1. RoundsWork' = MaxRounds * (MaxFanOut + 2)
      BY <2>1, LimitsAssumption DEF RoundsWork
    <3>2. MaxRounds * (MaxFanOut + 2) \in Nat
      BY LimitsAssumption, TimesNatural
    <3>. QED  BY <2>1, <3>1, <3>2 DEF SpecialistWork, RunWork, InSpecialist
  <2>. QED  BY <1>1, <2>1, <2>2, <2>3 DEF Work, Ended
<1>7. CASE TurnFails \/ SupervisorAnswers \/ MalformedDelegation
  BY <1>2, <1>7 DEF TurnFails, SupervisorAnswers, MalformedDelegation, Ended
<1>. QED  BY <1>3, <1>4, <1>5, <1>6, <1>7

\* Every step of the specialist's loop leaves less to do.
LEMMA SpecialistWorks ==
    ASSUME IInv, IInv',
           \/ SpecialistAnswers \/ SpecialistFails
           \/ \E reply \in Replies(Tools \cup {Stranger}) : SpecialistCallsTools(reply)
           \/ RefuseOverBudget \/ RefuseUngranted
           \/ \E artifacts \in 0..MaxArtifacts : RunTool(artifacts)
           \/ \E artifacts \in 1..MaxArtifacts : RunToolAndFail(artifacts)
           \/ EndRound
    PROVE  Work' < Work
<1>1. /\ RunWork \in Nat /\ StepWork \in Nat /\ StepsWork \in Nat /\ CallsWork \in Nat
      /\ RoundsWork \in Nat /\ MaxFanOut \in Nat
      /\ Len(toolCalls) \in Nat /\ Len(calls) \in Nat
  <2>1. toolCalls \in Seq(Tools \cup {Stranger}) /\ calls \in Seq(Agents \cup {Stranger})
    BY DEF IInv, TypeOK
  <2>. QED  BY <2>1, WorkIsNatural, LimitsAssumption
\* The run ends: its call is answered, and what was left of the run is dropped.
<1>2. ASSUME NEW shown, LeaveSpecialist(shown), pc \in InSpecialist
      PROVE  Work' < Work
  <2>1. /\ step' = step /\ pc' = "delegating" /\ Running' = 0 /\ Running = 1
        /\ SpecialistWork' = 0 /\ Len(calls)' = Len(calls) - 1
    <3>1. calls \in Seq(Agents \cup {Stranger}) /\ calls # <<>>
      BY <1>2 DEF IInv, TypeOK, OwedInv
    <3>. QED  BY <1>2, <3>1 DEF LeaveSpecialist, Running, InSpecialist, SpecialistWork
  <2>2. StepsWork' = StepsWork /\ CallsWork' = CallsWork
    BY <1>1, <2>1, WorkSpent
  <2>3. SpecialistWork >= 1 /\ SpecialistWork \in Nat
    BY <1>1, <1>2 DEF SpecialistWork
  <2>4. pc \notin Ended \cup {"supervisor", "forced"}
    BY <1>2 DEF InSpecialist, Ended
  <2>. QED  BY <1>1, <2>1, <2>2, <2>3, <2>4 DEF Work
\* The run goes on with less to do in it.
<1>3. ASSUME UNCHANGED <<step, calls>>, pc \in InSpecialist, pc' \in InSpecialist,
             SpecialistWork' < SpecialistWork, SpecialistWork' \in Nat
      PROVE  Work' < Work
  <2>1. Running' = Running /\ SpecialistWork \in Nat
    BY <1>3, WorkIsNatural DEF Running
  <2>2. StepsWork' = StepsWork /\ CallsWork' = CallsWork
    BY <1>3, <2>1, WorkSpent
  <2>3. /\ pc \notin Ended \cup {"supervisor", "forced"}
        /\ pc' \notin Ended \cup {"supervisor", "forced"}
    BY <1>3 DEF InSpecialist, Ended
  <2>4. /\ Work = StepsWork + CallsWork + SpecialistWork + 2
        /\ Work' = StepsWork + CallsWork + SpecialistWork' + 2
    BY <2>2, <2>3 DEF Work
  <2>5. StepsWork + CallsWork \in Nat
    BY <1>1
  <2>. QED  BY <1>3, <2>1, <2>4, <2>5
<1>4. CASE SpecialistAnswers \/ SpecialistFails
  BY <1>2, <1>4 DEF SpecialistAnswers, SpecialistFails, InSpecialist
<1>5. CASE \E reply \in Replies(Tools \cup {Stranger}) : SpecialistCallsTools(reply)
  <2>1. /\ pc = "specialist" /\ pc' = "tools" /\ round' = round + 1
        /\ UNCHANGED <<step, calls>> /\ Len(toolCalls') \in 0..MaxFanOut /\ toolCalls = <<>>
    <3>1. PICK reply \in Replies(Tools \cup {Stranger}) : SpecialistCallsTools(reply)
      BY <1>5
    <3>. QED
      BY <3>1, RepliesAreSequences, LimitsAssumption DEF SpecialistCallsTools, IInv, OwedInv
  <2>2. RoundsWork' = RoundsWork - (MaxFanOut + 2)
    BY <2>1, WorkSpent
  <2>3. RoundsWork' \in Nat
    <3>1. MaxRounds - round' \in Nat /\ MaxFanOut + 2 \in Nat
      <4>1. round' \in 0..MaxRounds
        BY DEF IInv, TypeOK
      <4>2. MaxRounds \in Nat /\ MaxFanOut + 2 \in Nat
        BY LimitsAssumption
      <4>3. \A a \in Nat : \A b \in 0..a : a - b \in Nat
        OBVIOUS
      <4>. QED  BY <4>1, <4>2, <4>3, Zenon
    <3>. QED  BY <3>1, TimesNatural DEF RoundsWork
  <2>4. SpecialistWork' = RoundsWork' + Len(toolCalls') + 2 /\ SpecialistWork = RoundsWork + 1
    BY <1>1, <2>1 DEF SpecialistWork, InSpecialist
  <2>. QED  BY <1>1, <1>3, <2>1, <2>2, <2>3, <2>4 DEF InSpecialist
<1>6. ASSUME AnswerToolCall, pc = "tools", toolCalls # <<>>
      PROVE  Work' < Work
  <2>1. UNCHANGED <<step, calls, round, pc>> /\ Len(toolCalls)' = Len(toolCalls) - 1
        /\ Len(toolCalls) > 0
    <3>1. toolCalls \in Seq(Tools \cup {Stranger})
      BY DEF IInv, TypeOK
    <3> QED  BY <1>6, <3>1 DEF AnswerToolCall
  <2>2. RoundsWork' = RoundsWork
    BY <2>1, WorkSpent
  <2>3. SpecialistWork = RoundsWork + Len(toolCalls) + 2
        /\ SpecialistWork' = RoundsWork + (Len(toolCalls) - 1) + 2
    BY <1>1, <1>6, <2>1, <2>2 DEF SpecialistWork, InSpecialist
  <2>. QED  BY <1>1, <1>3, <1>6, <2>1, <2>3 DEF InSpecialist
<1>7. CASE RefuseOverBudget \/ RefuseUngranted
  BY <1>6, <1>7 DEF RefuseOverBudget, RefuseUngranted
<1>8. ASSUME NEW artifacts \in 0..MaxArtifacts, RunTool(artifacts)
      PROVE  Work' < Work
  BY <1>6, <1>8 DEF RunTool, Execute
<1>9. ASSUME NEW artifacts \in 1..MaxArtifacts, RunToolAndFail(artifacts)
      PROVE  Work' < Work
  BY <1>2, <1>9 DEF RunToolAndFail, Execute, InSpecialist
<1>10. CASE EndRound
  <2>1. /\ UNCHANGED <<step, calls, round, toolCalls>> /\ pc = "tools"
        /\ pc' \in {"specialist", "specialistForced"}
    BY <1>10 DEF EndRound
  <2>2. RoundsWork' = RoundsWork
    BY <2>1, WorkSpent
  <2>3. SpecialistWork = RoundsWork + Len(toolCalls) + 2
        /\ SpecialistWork' = RoundsWork + Len(toolCalls) + 1
    BY <1>1, <2>1, <2>2 DEF SpecialistWork, InSpecialist
  <2>. QED  BY <1>1, <1>3, <2>1, <2>3 DEF InSpecialist
<1>. QED  BY <1>4, <1>5, <1>7, <1>8, <1>9, <1>10

(* "Hard limits make runaway loops impossible": what is left to do is a natural
   number that every step of the turn makes smaller, and that is 0 only when the
   turn has ended; no turn has more steps than the work it opens with, whatever
   the models answer. *)
THEOREM TurnRunsOut ==
    Spec => /\ [](Work \in Nat /\ (Work = 0 <=> pc \in Ended))
            /\ [][Work' < Work]_vars
<1>1. IInv => Work \in Nat /\ (Work = 0 <=> pc \in Ended)
  BY WorkIsNatural DEF Work
<1>2. IInv /\ IInv' /\ [Next]_vars => [Work' < Work]_vars
  <2>1. IInv /\ IInv' /\ TurnStep => Work' < Work
    BY SupervisorWorks, SpecialistWorks DEF TurnStep
  <2>2. IInv /\ Cancelled => Work' < Work
    <3>1. IInv => Work \in Nat /\ (pc \notin Ended => Work > 0)
      BY WorkIsNatural
    <3>2. Cancelled => pc \notin Ended /\ Work' = 0
      BY DEF Cancelled, Work, Ended
    <3>. QED  BY <3>1, <3>2
  <2>. QED  BY <2>1, <2>2 DEF Next
<1>. QED  BY <1>1, <1>2, Invariance, PTL DEF Spec
=============================================================================
