---------------------------- MODULE Kernel_proofs ----------------------------
(***************************************************************************)
(* Safety of the three small modules of the kernel: the history of a       *)
(* thread (Conversation), for every number of turns and every history      *)
(* limit; the singletons (LazyPools), for every number of requests; and    *)
(* the filter of a model's scratchpad (ReasoningFilter), for every pair of *)
(* tags and every way of cutting an answer.  They share no variable.       *)
(***************************************************************************)
EXTENDS Conversation, LazyPools, ReasoningFilter, SequenceTheorems, WellFoundedInduction,
        TLAPS

Messages == [turn : Turns, role : {"user", "assistant"}]
Views == [limit : Nat, summary : Seq(Messages), tail : Seq(Messages)]

Types ==
    /\ thread \in Seq(Messages)
    /\ pc \in [Turns -> {"idle", "loaded", "seeing", "answering", "done", "failed"}]
    /\ base \in [Turns -> Seq(Messages)]
    /\ view \in [Turns -> Views]
    /\ cursor \in Nat /\ overlapped \subseteq Turns

\* The state a turn's graph runs on ends with its question.
EndsWithQuestion(s, t) == s # <<>> /\ s[Len(s)] = Question(t)

\* A history that has the question of a turn and, right after it, the reply.
Keeps(s, t) == \E i \in 1..Len(s) - 1 : s[i] = Question(t) /\ s[i + 1] = Reply(t)

BaseInv ==
    \A t \in Turns : pc[t] \in {"loaded", "seeing", "answering", "done"} =>
        EndsWithQuestion(base[t], t)

\* A turn that overlaps no other runs on what the thread is.
AloneInv ==
    \A t \in Turns \ overlapped :
        /\ t \in Active => Active = {t}
        /\ pc[t] = "loaded" => base[t] = Append(thread, Question(t))
        /\ pc[t] \in {"seeing", "answering"} => base[t] = thread

\* What the thread keeps of a turn, every turn running has in its state as well.
KeptInv ==
    \A t \in Turns \ overlapped : pc[t] = "done" =>
        /\ Keeps(thread, t)
        /\ \A u \in Active : Keeps(base[u], t)

\* Without overlaps the thread only grows, and the cursor stays within it.
ReadInv ==
    overlapped = {} => /\ cursor <= Len(thread)
                       /\ \A i \in 1..cursor : thread[i] \in read

IInv == Types /\ BaseInv /\ AloneInv /\ KeptInv /\ ReadInv /\ ModelSeesTheTurn

-----------------------------------------------------------------------------
\* What is appended to a history leaves its messages where they are.
LEMMA AppendKeeps ==
    ASSUME NEW s \in Seq(Messages), NEW m \in Messages, NEW t \in Turns, Keeps(s, t)
    PROVE  Keeps(Append(s, m), t)
BY DEF Keeps

\* A reply after the question is a turn kept.
LEMMA ReplyKeeps ==
    ASSUME NEW s \in Seq(Messages), NEW t \in Turns, EndsWithQuestion(s, t)
    PROVE  Keeps(Append(s, Reply(t)), t)
<1>1. Len(s) \in 1..Len(Append(s, Reply(t))) - 1
  BY DEF EndsWithQuestion
<1>2. Append(s, Reply(t))[Len(s)] = Question(t)
  BY DEF EndsWithQuestion
<1>3. Append(s, Reply(t))[Len(s) + 1] = Reply(t)
  OBVIOUS
<1> QED  BY <1>1, <1>2, <1>3 DEF Keeps

LEMMA MessagesOfATurn ==
    ASSUME NEW t \in Turns
    PROVE  Question(t) \in Messages /\ Reply(t) \in Messages
BY DEF Question, Reply, Messages

LEMMA QuestionComesLast ==
    ASSUME NEW s \in Seq(Messages), NEW t \in Turns
    PROVE  /\ Append(s, Question(t)) \in Seq(Messages)
           /\ EndsWithQuestion(Append(s, Question(t)), t)
BY MessagesOfATurn, AppendProperties DEF EndsWithQuestion

\* Half a limit is within it, and not zero.
LEMMA HalfIsWithin ==
    ASSUME NEW l \in Limits
    PROVE  /\ Limit(l) \in Nat \ {0} /\ Half(l) \in 1..Limit(l)
           /\ Limit(l) # 1 => Half(l) + 1 <= Limit(l)
BY ConversationAssumption DEF Limit, Half

\* The two halves of a history, cut anywhere but at its ends.
LEMMA CutInTwo ==
    ASSUME NEW s \in Seq(Messages), NEW n \in 1..Len(s) - 1
    PROVE  /\ LastN(s, n) \in Seq(Messages) /\ AllButLastN(s, n) \in Seq(Messages)
           /\ Len(LastN(s, n)) = n
           /\ LastN(s, n)[n] = s[Len(s)]
           /\ AllButLastN(s, n) \o LastN(s, n) = s
<1> DEFINE k == Len(s) - n
<1>1. k \in 1..Len(s) - 1 /\ n # 0
  OBVIOUS
<1>2. LastN(s, n) = SubSeq(s, k + 1, Len(s)) /\ AllButLastN(s, n) = SubSeq(s, 1, k)
  BY <1>1 DEF LastN, AllButLastN
<1>3. /\ SubSeq(s, k + 1, Len(s)) \in Seq(Messages)
      /\ Len(SubSeq(s, k + 1, Len(s))) = n
      /\ SubSeq(s, k + 1, Len(s))[n] = s[Len(s)]
  <2>1. \A i \in k + 1..Len(s) : s[i] \in Messages
    BY <1>1
  <2>2. n \in 1..Len(s) - (k + 1) + 1 /\ k + 1 + n - 1 = Len(s)
    BY <1>1
  <2>3. k + 1 \in Int /\ Len(s) \in Int /\ k + 1 <= Len(s)
    BY <1>1
  <2>4. Len(s) - (k + 1) + 1 = n
    BY <1>1
  <2> HIDE DEF k
  <2>5. SubSeq(s, k + 1, Len(s)) \in Seq(Messages)
    BY <2>1, <2>3, SubSeqProperties
  <2>6. Len(SubSeq(s, k + 1, Len(s))) = n
    BY <2>3, <2>4, SubSeqProperties
  <2>7. SubSeq(s, k + 1, Len(s))[n] = s[k + 1 + n - 1]
    BY <2>1, <2>2, <2>3, SubSeqProperties
  <2> QED  BY <2>2, <2>5, <2>6, <2>7
<1>4. SubSeq(s, 1, k) \in Seq(Messages)
  BY <1>1
<1>5. SubSeq(s, 1, k) \o SubSeq(s, k + 1, Len(s)) = SubSeq(s, 1, Len(s))
  BY <1>1, ConcatAdjacentSubSeq
<1>6. SubSeq(s, 1, Len(s)) = s
  BY SubSeqFull
<1> QED  BY <1>2, <1>3, <1>4, <1>5, <1>6

-----------------------------------------------------------------------------
LEMMA InitIInv == Init => IInv
BY DEF Init, IInv, Types, BaseInv, AloneInv, KeptInv, ReadInv, ModelSeesTheTurn, Views, NoView,
       Active

LEMMA LoadKeepsIInv ==
    ASSUME IInv, NEW t \in Turns, Load(t)
    PROVE  IInv'
<1> USE DEF IInv, Types, Goto
<1>1. /\ pc' = [pc EXCEPT ![t] = "loaded"] /\ pc[t] = "idle"
      /\ base' = [base EXCEPT ![t] = Append(thread, Question(t))]
      /\ overlapped' = IF Active = {} THEN overlapped ELSE overlapped \cup Active \cup {t}
      /\ UNCHANGED <<thread, view, cursor, read>>
  BY DEF Load
<1>2. /\ Append(thread, Question(t)) \in Seq(Messages)
      /\ EndsWithQuestion(Append(thread, Question(t)), t)
  BY QuestionComesLast
<1>3. Active' = Active \cup {t} /\ t \notin Active
  BY <1>1 DEF Active
<1>4. Types'
  BY <1>1, <1>2 DEF Active
<1>5. BaseInv'
  BY <1>1, <1>2 DEF BaseInv
<1>6. AloneInv'
  BY <1>1, <1>3 DEF AloneInv, Active
<1>7. KeptInv'
  <2> SUFFICES ASSUME NEW u \in Turns \ overlapped', pc'[u] = "done"
               PROVE  Keeps(thread, u) /\ \A v \in Active' : Keeps(base'[v], u)
    BY <1>1 DEF KeptInv
  <2>1. pc[u] = "done" /\ u \notin overlapped
    BY <1>1
  <2>2. Keeps(thread, u) /\ \A v \in Active : Keeps(base[v], u)
    BY <2>1 DEF KeptInv
  <2>3. Keeps(base'[t], u)
    BY <1>1, <2>2, AppendKeeps, MessagesOfATurn
  <2>4. \A v \in Active : base'[v] = base[v]
    BY <1>1, <1>3 DEF Active
  <2> QED  BY <1>3, <2>2, <2>3, <2>4
<1>8. ReadInv'
  BY <1>1 DEF ReadInv
<1>9. ModelSeesTheTurn'
  BY <1>1 DEF ModelSeesTheTurn
<1> QED  BY <1>4, <1>5, <1>6, <1>7, <1>8, <1>9

LEMMA StoreQuestionKeepsIInv ==
    ASSUME IInv, NEW t \in Turns, StoreQuestion(t)
    PROVE  IInv'
<1> USE DEF IInv, Types, Goto
<1>1. /\ pc' = [pc EXCEPT ![t] = "seeing"] /\ pc[t] = "loaded"
      /\ thread' = base[t]
      /\ UNCHANGED <<base, view, cursor, read, overlapped>>
  BY DEF StoreQuestion
<1>2. Active' = Active /\ t \in Active
  BY <1>1 DEF Active
<1>3. Types' /\ BaseInv'
  BY <1>1 DEF BaseInv
<1>4. AloneInv'
  BY <1>1, <1>2 DEF AloneInv, Active
<1>5. KeptInv'
  BY <1>1, <1>2 DEF KeptInv
<1>6. ReadInv'
  <2> SUFFICES ASSUME overlapped = {}
               PROVE  cursor <= Len(thread') /\ \A i \in 1..cursor : thread'[i] \in read
    BY <1>1 DEF ReadInv
  <2>1. thread' = Append(thread, Question(t))
    BY <1>1 DEF AloneInv
  <2>2. cursor <= Len(thread) /\ \A i \in 1..cursor : thread[i] \in read
    BY DEF ReadInv
  <2> QED  BY <2>1, <2>2
<1>7. ModelSeesTheTurn'
  BY <1>1 DEF ModelSeesTheTurn
<1> QED  BY <1>3, <1>4, <1>5, <1>6, <1>7

\* What the model is shown: all of it, or the recent half.
LEMMA SeeKeepsIInv ==
    ASSUME IInv, NEW t \in Turns, See(t)
    PROVE  IInv'
<1> USE DEF IInv, Types, Goto
<1>1. PICK l \in Limits :
        \E v \in IF Len(base[t]) <= Limit(l) THEN {Shown(l, <<>>, base[t])}
                 ELSE {Shown(l, <<>>, LastN(base[t], Half(l))),
                       Shown(l, AllButLastN(base[t], Half(l)), LastN(base[t], Half(l)))} :
           view' = [view EXCEPT ![t] = v]
  BY DEF See
<1> DEFINE last == LastN(base[t], Half(l))
           rest == AllButLastN(base[t], Half(l))
<1>2. PICK v : /\ view' = [view EXCEPT ![t] = v]
               /\ v \in IF Len(base[t]) <= Limit(l) THEN {Shown(l, <<>>, base[t])}
                        ELSE {Shown(l, <<>>, last), Shown(l, rest, last)}
  BY <1>1
<1>3. /\ pc' = [pc EXCEPT ![t] = "answering"] /\ pc[t] = "seeing"
      /\ UNCHANGED <<thread, base, cursor, read, overlapped>>
  BY DEF See
<1>4. EndsWithQuestion(base[t], t) /\ base[t] \in Seq(Messages)
  BY <1>3 DEF BaseInv
<1>5. /\ v \in Views
      /\ Len(v.tail) \in 1..v.limit
      /\ v.limit # 1 => Sent(v) <= v.limit
      /\ v.tail[Len(v.tail)] = Question(t)
      /\ v.summary # <<>> => v.summary \o v.tail = base[t]
  <2>1. /\ Limit(l) \in Nat \ {0} /\ Half(l) \in 1..Limit(l)
        /\ Limit(l) # 1 => Half(l) + 1 <= Limit(l)
    BY HalfIsWithin
  <2>2. CASE Len(base[t]) <= Limit(l)
    <3>1. v = Shown(l, <<>>, base[t])
      BY <1>2, <2>2
    <3>2. Len(base[t]) \in 1..Limit(l)
      BY <1>4, <2>1, <2>2 DEF EndsWithQuestion
    <3>3. v.limit = Limit(l) /\ v.tail = base[t] /\ v.summary = <<>>
      BY <3>1 DEF Shown
    <3>4. Sent(v) = Len(base[t])
      BY <3>2, <3>3 DEF Sent
    <3>5. v \in Views
      BY <1>4, <2>1, <3>1 DEF Views, Shown
    <3> QED  BY <1>4, <3>2, <3>3, <3>4, <3>5 DEF EndsWithQuestion
  <2>3. CASE Len(base[t]) > Limit(l)
    <3>1. Half(l) \in 1..Len(base[t]) - 1
      BY <1>4, <2>1, <2>3
    <3>2. v = Shown(l, <<>>, last) \/ v = Shown(l, rest, last)
      BY <1>2, <2>1, <2>3, <1>4
    <3>3. /\ last \in Seq(Messages) /\ rest \in Seq(Messages) /\ Len(last) = Half(l)
          /\ last[Len(last)] = Question(t) /\ rest \o last = base[t]
      BY <1>4, <3>1, CutInTwo DEF EndsWithQuestion
    <3> HIDE DEF last, rest
    <3>4. v.limit = Limit(l) /\ v.tail = last /\ v.summary \in {<<>>, rest}
      BY <3>2 DEF Shown
    <3>5. v \in Views
      <4>1. <<>> \in Seq(Messages) /\ Limit(l) \in Nat
        BY <2>1
      <4>2. Shown(l, <<>>, last) \in Views /\ Shown(l, rest, last) \in Views
        BY <3>3, <4>1 DEF Views, Shown
      <4> QED  BY <3>2, <4>2
    <3>6. Sent(v) \in {Half(l), Half(l) + 1}
      BY <2>1, <3>3, <3>4 DEF Sent
    <3>7. v.limit # 1 => Sent(v) <= v.limit
      BY <2>1, <3>4, <3>6
    <3>8. v.summary # <<>> => v.summary \o v.tail = base[t]
      BY <3>3, <3>4
    <3> QED  BY <2>1, <3>3, <3>4, <3>5, <3>7, <3>8
  <2>4. Len(base[t]) \in Nat /\ Limit(l) \in Nat
    BY <1>4, <2>1
  <2>5. Len(base[t]) <= Limit(l) \/ Len(base[t]) > Limit(l)
    BY <2>4
  <2> QED  BY <2>2, <2>3, <2>5, Zenon
<1>6. Active' = Active
  BY <1>3 DEF Active
<1>7. Types'
  BY <1>2, <1>3, <1>5
<1>8. BaseInv' /\ AloneInv' /\ KeptInv' /\ ReadInv'
  BY <1>3, <1>6 DEF BaseInv, AloneInv, KeptInv, ReadInv, Active
<1>9. ModelSeesTheTurn'
  BY <1>2, <1>3, <1>5 DEF ModelSeesTheTurn
<1> QED  BY <1>7, <1>8, <1>9

LEMMA AnswerKeepsIInv ==
    ASSUME IInv, NEW t \in Turns, Answer(t)
    PROVE  IInv'
<1> USE DEF IInv, Types, Goto
<1>1. /\ pc' = [pc EXCEPT ![t] = "done"] /\ pc[t] = "answering"
      /\ thread' = Append(base[t], Reply(t))
      /\ UNCHANGED <<base, view, cursor, read, overlapped>>
  BY DEF Answer
<1>2. Active' = Active \ {t} /\ t \in Active
  BY <1>1 DEF Active
<1>3. Types'
  BY <1>1, MessagesOfATurn
<1>4. BaseInv' /\ ModelSeesTheTurn'
  BY <1>1 DEF BaseInv, ModelSeesTheTurn
<1>5. AloneInv'
  BY <1>1, <1>2 DEF AloneInv, Active
<1>6. KeptInv'
  <2> SUFFICES ASSUME NEW u \in Turns \ overlapped, pc'[u] = "done"
               PROVE  Keeps(thread', u) /\ \A v \in Active' : Keeps(base[v], u)
    BY <1>1 DEF KeptInv
  <2>1. CASE u = t
    <3>1. Active' = {}
      BY <1>2, <2>1 DEF AloneInv
    <3>2. Keeps(thread', t)
      BY <1>1, ReplyKeeps DEF BaseInv
    <3> QED  BY <2>1, <3>1, <3>2
  <2>2. CASE u # t
    <3>1. \A v \in Active : Keeps(base[v], u)
      BY <1>1, <2>2 DEF KeptInv
    <3>2. Keeps(thread', u)
      BY <1>1, <1>2, <3>1, AppendKeeps, MessagesOfATurn
    <3> QED  BY <1>2, <3>1, <3>2
  <2> QED  BY <2>1, <2>2
<1>7. ReadInv'
  <2> SUFFICES ASSUME overlapped = {}
               PROVE  cursor <= Len(thread') /\ \A i \in 1..cursor : thread'[i] \in read
    BY <1>1 DEF ReadInv
  <2>1. thread' = Append(thread, Reply(t))
    BY <1>1 DEF AloneInv
  <2>2. cursor <= Len(thread) /\ \A i \in 1..cursor : thread[i] \in read
    BY DEF ReadInv
  <2> QED  BY <2>1, <2>2
<1> QED  BY <1>3, <1>4, <1>5, <1>6, <1>7

\* A turn that fails leaves the thread as it is.
LEMMA FailKeepsIInv ==
    ASSUME IInv, NEW t \in Turns, Fail(t)
    PROVE  IInv'
<1> USE DEF IInv, Types, Goto
<1>1. /\ pc' = [pc EXCEPT ![t] = "failed"] /\ t \in Active
      /\ UNCHANGED <<thread, base, view, cursor, read, overlapped>>
  BY DEF Fail
<1>2. Active' = Active \ {t}
  BY <1>1 DEF Active
<1>3. Types' /\ BaseInv' /\ ModelSeesTheTurn' /\ ReadInv'
  BY <1>1 DEF BaseInv, ModelSeesTheTurn, ReadInv
<1>4. AloneInv'
  BY <1>1, <1>2 DEF AloneInv, Active
<1>5. KeptInv'
  BY <1>1, <1>2 DEF KeptInv
<1> QED  BY <1>3, <1>4, <1>5

LEMMA ExtractKeepsIInv ==
    ASSUME IInv, Extract
    PROVE  IInv'
<1> USE DEF IInv, Types
<1>1. /\ cursor' = Len(thread)
      /\ read' = read \cup {thread[i] : i \in cursor + 1..Len(thread)}
      /\ UNCHANGED <<thread, pc, base, view, overlapped>>
  BY DEF Extract
<1>2. Active' = Active
  BY <1>1 DEF Active
<1>3. Types'
  BY <1>1
<1>4. BaseInv' /\ ModelSeesTheTurn'
  BY <1>1 DEF BaseInv, ModelSeesTheTurn
<1>5. AloneInv' /\ KeptInv'
  BY <1>1, <1>2 DEF AloneInv, KeptInv
<1>6. ReadInv'
  <2> SUFFICES ASSUME overlapped = {}, NEW i \in 1..Len(thread)
               PROVE  thread[i] \in read'
    BY <1>1 DEF ReadInv
  <2>1. i \in 1..cursor \/ i \in cursor + 1..Len(thread)
    OBVIOUS
  <2> QED  BY <1>1, <2>1 DEF ReadInv
<1> QED  BY <1>3, <1>4, <1>5, <1>6

(* What every turn has in its state, and that nothing else disturbs a turn alone,
   in every reachable state. *)
THEOREM Invariance == Spec => []IInv
<1>1. IInv /\ [Next]_vars => IInv'
  <2> SUFFICES ASSUME IInv, [Next]_vars PROVE IInv'
    OBVIOUS
  <2>1. CASE Next
    BY <2>1, LoadKeepsIInv, StoreQuestionKeepsIInv, SeeKeepsIInv, AnswerKeepsIInv,
       FailKeepsIInv, ExtractKeepsIInv DEF Next
  <2>2. CASE UNCHANGED vars
    <3>1. Active' = Active
      BY <2>2 DEF vars, Active
    <3> QED  BY <2>2, <3>1 DEF vars, IInv, Types, BaseInv, AloneInv, KeptInv, ReadInv,
                               ModelSeesTheTurn
  <2> QED  BY <2>1, <2>2
<1> QED  BY InitIInv, <1>1, PTL DEF Spec

(* Whatever the limit and the length of the history, the model is sent at most the
   limit, the summary counted as one message, and at a limit of one at most the summary
   and the question; what it is sent ends with the question, and the summary is of
   what was left out. *)
THEOREM ModelSeesTheTurnHolds == Spec => []ModelSeesTheTurn
<1>1. IInv => ModelSeesTheTurn  BY DEF IInv
<1> QED  BY Invariance, <1>1, PTL

(* A turn that overlapped no other is in the history for good, with any number of
   turns overlapping before and after it; without overlaps no message counts as read
   that was not. *)
THEOREM LossNeedsOverlapHolds == Spec => []LossNeedsOverlap
<1>1. IInv => LossNeedsOverlap
  BY DEF IInv, KeptInv, ReadInv, Keeps, LossNeedsOverlap
<1> QED  BY Invariance, <1>1, PTL

-----------------------------------------------------------------------------
(***************************************************************************)
(* The singletons (LazyPools).                                             *)
(***************************************************************************)
PoolTypes ==
    /\ requestPc \in [Requests -> {"new", "setup", "running", "over"}]
    /\ pool \in Requests \cup {NONE}
    /\ open \subseteq Requests

\* One request's pool, checkpointer and graph are in the globals, and the pool is open.
GlobalsInv ==
    /\ checkpointer = pool
    /\ pool # NONE => pool \in open
    /\ graph # NONE => graph = pool

\* A request in its setup has put a pool into the globals; without a graph the one
\* that is there is still being set up, or that failed.
SetupInv ==
    /\ app # "up" => InSetup = {}
    /\ InSetup # {} => pool # NONE
    /\ graph = NONE /\ pool # NONE => pool \in InSetup \cup failed

PoolsInv == PoolTypes /\ GlobalsInv /\ SetupInv /\ OnlyOvertakenLeak

-----------------------------------------------------------------------------
LEMMA InitPoolsInv == PoolsInit => PoolsInv
BY PoolsAssumption
   DEF PoolsInit, PoolsInv, PoolTypes, GlobalsInv, SetupInv,
       OnlyOvertakenLeak, InSetup

LEMMA ServeKeepsPoolsInv ==
    ASSUME PoolsInv, NEW r \in Requests, Serve(r)
    PROVE  PoolsInv'
<1> USE PoolsAssumption DEF PoolsInv, PoolTypes, GlobalsInv, SetupInv,
            OnlyOvertakenLeak, InSetup
<1>1. CASE HaveGraph(r)
  BY <1>1 DEF HaveGraph
\* The pool that is replaced is one of a request in its setup, or of one that failed.
<1>2. CASE Build(r)
  <2>1. pool # NONE => pool \in overtaken' \cup failed'
    BY <1>2 DEF Build
  <2>2. open' \ {pool'} \subseteq overtaken' \cup failed'
    BY <1>2, <2>1 DEF Build
  <2>3. PoolTypes' /\ GlobalsInv'
    BY <1>2 DEF Build
  <2>4. r \in InSetup'
    BY <1>2 DEF Build
  <2>5. SetupInv'
    BY <1>2, <2>4 DEF Build
  <2>6. (graph # NONE => graph = pool /\ pool \in open)'
    BY <1>2 DEF Build
  <2> QED  BY <2>2, <2>3, <2>5, <2>6
\* The global checkpointer is not NONE here, so there is a graph.
<1>3. CASE FinishSetup(r)
  <2>1. graph' = pool /\ pool # NONE /\ UNCHANGED <<pool, checkpointer, open, app>>
    BY <1>3 DEF FinishSetup
  <2>2. InSetup' \subseteq InSetup
    BY <1>3 DEF FinishSetup
  <2> QED  BY <1>3, <2>1, <2>2 DEF FinishSetup
<1>4. CASE SetupFails(r)
  <2>1. InSetup' = InSetup \ {r} /\ failed' = failed \cup {r}
    BY <1>4 DEF SetupFails
  <2>2. SetupInv'
    BY <1>4, <2>1 DEF SetupFails
  <2> QED  BY <1>4, <2>2 DEF SetupFails
<1>5. CASE EndRequest(r)
  BY <1>5 DEF EndRequest
<1>6. CASE \E which \in {"trace", "payments"} : GetSidePool(r, which)
  BY <1>6 DEF GetSidePool
<1> QED  BY <1>1, <1>2, <1>3, <1>4, <1>5, <1>6 DEF Serve

(* The pools, with their strengthening, in every reachable state. *)
THEOREM PoolsInvariance == PoolsSpec => []PoolsInv
<1>1. PoolsInv /\ [PoolsNext]_poolsVars => PoolsInv'
  <2> SUFFICES ASSUME PoolsInv, [PoolsNext]_poolsVars PROVE PoolsInv'
    OBVIOUS
  <2>1. ASSUME NEW r \in Requests, Serve(r)  PROVE PoolsInv'
    BY <2>1, ServeKeepsPoolsInv
  <2> USE PoolsAssumption
      DEF PoolsInv, PoolTypes, GlobalsInv, SetupInv, OnlyOvertakenLeak, InSetup
  <2>2. CASE CloseTracePool
    BY <2>2 DEF CloseTracePool
  <2>3. CASE CloseGraph
    BY <2>3 DEF CloseGraph
  <2>4. CASE UNCHANGED poolsVars
    BY <2>4 DEF poolsVars
  <2> QED  BY <2>1, <2>2, <2>3, <2>4 DEF PoolsNext
<1> QED  BY InitPoolsInv, <1>1, PTL DEF PoolsSpec

(* However many first requests race and fail, the graph works on the pool that will
   be closed, and only a request overtaken or failed in its setup leaves one open. *)
THEOREM OnlyOvertakenLeakHolds == PoolsSpec => []OnlyOvertakenLeak
<1>1. PoolsInv => OnlyOvertakenLeak  BY DEF PoolsInv
<1> QED  BY PoolsInvariance, <1>1, PTL

-----------------------------------------------------------------------------
(***************************************************************************)
(* The filter of the scratchpads (ReasoningFilter).  What its recursive    *)
(* functions compute is proved by induction on the length of the text,     *)
(* which needs the function to exist (RecursionDefines).                   *)
(***************************************************************************)

\* A nonempty set of natural numbers has a least one.
LEMMA NatMin ==
    ASSUME NEW T, T \subseteq Nat, T # {}
    PROVE  \E x \in T : \A y \in T : x <= y
<1> DEFINE R == OpToRel(<, Nat)
<1>1. IsWellFoundedOn(R, Nat)
  BY NatLessThanWellFounded
<1> HIDE DEF R
<1>2. PICK x \in T : \A y \in T : ~ (<<y, x>> \in R)
  BY <1>1, WFMin
<1>3. \A y, z \in Nat : <<y, z>> \in R <=> y < z
  BY DEF R, OpToRel
<1>4. \A y \in T : x \in Nat /\ y \in Nat /\ ~(y < x)
  BY <1>2, <1>3
<1>5. \A y \in T : x <= y
  BY <1>4
<1> QED  BY <1>5

\* Induction on a size: P contains S if it contains what all smaller elements are in P.
LEMMA SizeInduction ==
    ASSUME NEW S, NEW m \in [S -> Nat], NEW P,
           \A s \in S : (\A r \in S : m[r] < m[s] => r \in P) => s \in P
    PROVE  \A s \in S : s \in P
<1> DEFINE Sizes == {m[s] : s \in S \ P}
<1> SUFFICES ASSUME S \ P # {}  PROVE FALSE
  OBVIOUS
<1>1. Sizes \subseteq Nat /\ Sizes # {}
  OBVIOUS
<1>2. PICK k \in Sizes : \A j \in Sizes : k <= j
  <2> HIDE DEF Sizes
  <2> QED  BY <1>1, NatMin
<1>3. PICK s \in S \ P : m[s] = k
  OBVIOUS
<1>4. \A r \in S \ P : m[s] <= m[r]
  BY <1>2, <1>3
<1>5. \A r \in S : m[r] \in Nat
  OBVIOUS
<1>6. \A r \in S : m[r] < m[s] => r \in P
  BY <1>3, <1>4, <1>5
<1> QED  BY <1>3, <1>6

(* A recursion that goes down in size: B[s][g] is the body of the definition at s,
   with g for the function. *)
GoesDown(S, T, m, B) ==
    /\ T # {}
    /\ \A s \in S : \A g \in [S -> T] : B[s][g] \in T
    /\ \A s \in S : \A g, h \in [S -> T] :
           (\A r \in S : m[r] < m[s] => g[r] = h[r]) => B[s][g] = B[s][h]

\* It has a function that satisfies it.
HasFunction(S, T, B) == \E f \in [S -> T] : \A s \in S : f[s] = B[s][f]

LEMMA RecursionDefines ==
    ASSUME NEW S, NEW T, NEW m \in [S -> Nat], NEW B, GoesDown(S, T, m, B)
    PROVE  HasFunction(S, T, B)
<1> USE DEF GoesDown, HasFunction
<1> DEFINE Follows(g, n) == g \in [S -> T] /\ \A s \in S : m[s] < n => g[s] = B[s][g]
           Good(n) == \E g : Follows(g, n)
           G(n) == CHOOSE g : Follows(g, n)
           f == [s \in S |-> G(m[s] + 1)[s]]
<1>0. \A s \in S : m[s] \in Nat
  OBVIOUS
\* Two functions that follow the body below n agree there.
<1>1. ASSUME NEW n \in Nat, NEW g, NEW h, Follows(g, n), Follows(h, n)
      PROVE  \A s \in S : m[s] < n => g[s] = h[s]
  <2> DEFINE P == {s \in S : m[s] < n => g[s] = h[s]}
  <2>1. ASSUME NEW s \in S, \A r \in S : m[r] < m[s] => r \in P  PROVE s \in P
    <3> SUFFICES ASSUME m[s] < n  PROVE g[s] = h[s]
      OBVIOUS
    <3>1. \A r \in S : m[r] < m[s] => g[r] = h[r]
      BY <1>0, <2>1
    <3>2. B[s][g] = B[s][h]
      BY <1>1, <3>1
    <3> QED  BY <1>1, <3>2
  <2> HIDE DEF P
  <2>2. \A s \in S : s \in P
    BY <2>1, SizeInduction
  <2> QED  BY <2>2 DEF P
<1>2. Good(0)
  <2>1. PICK t : t \in T
    OBVIOUS
  <2>2. Follows([s \in S |-> t], 0)
    BY <2>1
  <2> QED  BY <2>2
\* One more round of the body goes one further.
<1>3. ASSUME NEW n \in Nat, Good(n)  PROVE Good(n + 1)
  <2>1. PICK g : Follows(g, n)
    BY <1>3
  <2> DEFINE h == [s \in S |-> B[s][g]]
  <2>2. h \in [S -> T]
    BY <2>1
  <2>3. ASSUME NEW s \in S, m[s] < n + 1  PROVE h[s] = B[s][h]
    <3>1. \A r \in S : m[r] < m[s] => g[r] = h[r]
      <4> SUFFICES ASSUME NEW r \in S, m[r] < m[s]  PROVE g[r] = B[r][g]
        OBVIOUS
      <4>1. m[r] < n
        BY <2>3
      <4> QED  BY <2>1, <4>1
    <3> HIDE DEF h
    <3>2. B[s][g] = B[s][h]
      BY <2>1, <2>2, <3>1
    <3> QED  BY <3>2 DEF h
  <2>4. Follows(h, n + 1)
    BY <2>2, <2>3
  <2> QED  BY <2>4
<1>4. \A n \in Nat : Good(n)
  <2> DEFINE Bad == {n \in Nat : ~Good(n)}
  <2> HIDE DEF Good
  <2> SUFFICES ASSUME Bad # {}  PROVE FALSE
    OBVIOUS
  <2>1. PICK n \in Bad : \A k \in Bad : n <= k
    BY NatMin
  <2>2. n # 0 /\ n \in Nat
    BY <1>2, <2>1
  <2>3. n - 1 \in Nat /\ ~(n <= n - 1) /\ (n - 1) + 1 = n
    BY <2>2
  <2>4. Good(n - 1)
    BY <2>1, <2>3
  <2>5. Good(n)
    BY <1>3, <2>3, <2>4
  <2> QED  BY <2>1, <2>5
<1>5. \A n \in Nat : Follows(G(n), n)
  <2> SUFFICES ASSUME NEW n \in Nat  PROVE Follows(G(n), n)
    OBVIOUS
  <2>1. \E g : Follows(g, n)
    BY <1>4
  <2> HIDE DEF Follows
  <2> QED  BY <2>1
<1>6. \A s \in S : m[s] \in Nat /\ m[s] + 1 \in Nat /\ m[s] < m[s] + 1
  OBVIOUS
<1>7. \A n \in Nat : G(n) \in [S -> T]
  BY <1>5
<1> HIDE DEF G, Good
<1>8. f \in [S -> T]
  BY <1>6, <1>7
<1>9. ASSUME NEW s \in S  PROVE f[s] = B[s][f]
  <2> DEFINE wider == G(m[s] + 1)
  <2>1. Follows(wider, m[s] + 1)
    BY <1>5, <1>6
  <2>2. ASSUME NEW r \in S, m[r] < m[s]  PROVE f[r] = wider[r]
    <3> DEFINE mine == G(m[r] + 1)
    <3>1. Follows(mine, m[r] + 1)
      BY <1>5, <1>6
    <3>2. m[r] \in Nat /\ m[s] \in Nat /\ m[r] + 1 \in Nat /\ m[r] < m[r] + 1
      BY <1>6
    <3>3. f[r] = mine[r]
      OBVIOUS
    <3> HIDE DEF wider, mine, f
    <3>4. \A q \in S : m[q] < m[r] + 1 => m[q] < m[s] + 1
      BY <2>2, <1>6
    <3>5. Follows(wider, m[r] + 1)
      BY <2>1, <3>4
    <3> HIDE DEF Follows
    <3>6. \A q \in S : m[q] < m[r] + 1 => mine[q] = wider[q]
      BY <1>1, <3>1, <3>2, <3>5
    <3> QED  BY <3>2, <3>3, <3>6
  <2>3. f[s] = wider[s]
    OBVIOUS
  <2> HIDE DEF f, wider
  <2>4. B[s][f] = B[s][wider]
    BY <1>8, <2>1, <2>2
  <2>5. wider[s] = B[s][wider]
    BY <1>6, <2>1
  <2> QED  BY <2>3, <2>4, <2>5
<1> QED  BY <1>8, <1>9

-----------------------------------------------------------------------------
(* Pieces of a text. *)

\* Its letters from i to j.
LEMMA Cut ==
    ASSUME NEW S, NEW s \in Seq(S), NEW i \in 1..Len(s) + 1, NEW j \in (i - 1)..Len(s)
    PROVE  /\ SubSeq(s, i, j) \in Seq(S)
           /\ Len(SubSeq(s, i, j)) = j - i + 1
           /\ \A k \in 1..(j - i + 1) : SubSeq(s, i, j)[k] = s[i + k - 1]
<1>1. i \in Int /\ j \in Int /\ Len(s) \in Nat
  OBVIOUS
<1>2. \A k \in i..j : s[k] \in S
  BY <1>1, ElementOfSeq
<1> QED  BY <1>1, <1>2, SubSeqProperties

\* What follows a text changes none of its beginnings.
LEMMA PrefixOfConcat ==
    ASSUME NEW S, NEW h \in Seq(S), NEW c \in Seq(S), NEW k \in 0..Len(h)
    PROVE  SubSeq(h \o c, 1, k) = SubSeq(h, 1, k)
<1> DEFINE hc == h \o c
<1>1. hc \in Seq(S) /\ Len(hc) = Len(h) + Len(c) /\ Len(h) \in Nat /\ Len(c) \in Nat
      /\ \A i \in 1..Len(h) : hc[i] = h[i]
  BY ConcatProperties
<1> HIDE DEF hc
<1>2. 1 \in 1..Len(hc) + 1 /\ k \in 0..Len(hc) /\ 1 \in 1..Len(h) + 1 /\ 1 - 1 = 0
  BY <1>1
<1>3. SubSeq(hc, 1, k) \in Seq(S) /\ Len(SubSeq(hc, 1, k)) = k - 1 + 1
      /\ \A i \in 1..(k - 1 + 1) : SubSeq(hc, 1, k)[i] = hc[1 + i - 1]
  BY <1>1, <1>2, Cut
<1>4. SubSeq(h, 1, k) \in Seq(S) /\ Len(SubSeq(h, 1, k)) = k - 1 + 1
      /\ \A i \in 1..(k - 1 + 1) : SubSeq(h, 1, k)[i] = h[1 + i - 1]
  BY <1>1, <1>2, Cut
<1>5. \A i \in 1..(k - 1 + 1) : SubSeq(hc, 1, k)[i] = SubSeq(h, 1, k)[i]
  BY <1>1, <1>3, <1>4
<1>6. SubSeq(hc, 1, k) = SubSeq(h, 1, k)
  BY <1>3, <1>4, <1>5, SeqEqual
<1> QED  BY <1>6 DEF hc

\* What follows a text is appended to its ends.
LEMMA SuffixOfConcat ==
    ASSUME NEW S, NEW h \in Seq(S), NEW c \in Seq(S), NEW k \in 1..Len(h) + 1
    PROVE  SubSeq(h \o c, k, Len(h \o c)) = SubSeq(h, k, Len(h)) \o c
<1> DEFINE hc == h \o c
           left == SubSeq(hc, k, Len(hc))
           piece == SubSeq(h, k, Len(h))
           right == piece \o c
<1>1. hc \in Seq(S) /\ Len(hc) = Len(h) + Len(c) /\ Len(h) \in Nat /\ Len(c) \in Nat
      /\ \A i \in 1..Len(h) + Len(c) : hc[i] = IF i <= Len(h) THEN h[i] ELSE c[i - Len(h)]
  BY ConcatProperties
<1> HIDE DEF hc
<1>2. k \in 1..Len(hc) + 1 /\ Len(hc) \in (k - 1)..Len(hc) /\ Len(h) \in (k - 1)..Len(h)
  BY <1>1
<1>3. left \in Seq(S) /\ Len(left) = Len(hc) - k + 1
      /\ \A i \in 1..(Len(hc) - k + 1) : left[i] = hc[k + i - 1]
  BY <1>1, <1>2, Cut
<1>4. piece \in Seq(S) /\ Len(piece) = Len(h) - k + 1
      /\ \A i \in 1..(Len(h) - k + 1) : piece[i] = h[k + i - 1]
  BY <1>1, <1>2, Cut
<1> HIDE DEF left, piece
<1>5. right \in Seq(S) /\ Len(right) = Len(piece) + Len(c)
      /\ \A i \in 1..Len(piece) + Len(c) :
            right[i] = IF i <= Len(piece) THEN piece[i] ELSE c[i - Len(piece)]
  BY <1>4, ConcatProperties
<1> HIDE DEF right
<1>6. Len(left) = Len(right)
  BY <1>1, <1>3, <1>4, <1>5
<1>7. ASSUME NEW i \in 1..Len(left)  PROVE left[i] = right[i]
  <2>0. i \in Nat /\ i >= 1 /\ i <= Len(h) + Len(c) - k + 1 /\ k \in Nat /\ k >= 1
    BY <1>1, <1>3
  <2>1. left[i] = hc[k + i - 1] /\ k + i - 1 \in 1..Len(h) + Len(c)
    BY <1>1, <1>3, <2>0
  <2>2. CASE i <= Len(piece)
    <3>1. k + i - 1 <= Len(h)
      BY <1>1, <1>4, <2>0, <2>2
    <3>2. left[i] = h[k + i - 1]
      BY <1>1, <2>1, <3>1
    <3>3. right[i] = piece[i]
      BY <1>1, <1>4, <1>5, <2>0, <2>2
    <3>4. piece[i] = h[k + i - 1]
      BY <1>1, <1>4, <2>0, <2>2
    <3> QED  BY <3>2, <3>3, <3>4
  <2>3. CASE i > Len(piece)
    <3>1. ~(k + i - 1 <= Len(h)) /\ (k + i - 1) - Len(h) = i - Len(piece)
      BY <1>1, <1>4, <2>0, <2>3
    <3>2. left[i] = c[i - Len(piece)]
      BY <1>1, <2>1, <3>1
    <3>3. right[i] = c[i - Len(piece)]
      BY <1>1, <1>4, <1>5, <2>0, <2>3
    <3> QED  BY <3>2, <3>3
  <2> QED  BY <1>1, <1>4, <2>0, <2>2, <2>3
<1>8. left = right
  BY <1>3, <1>5, <1>6, <1>7, SeqEqual
<1> QED  BY <1>8 DEF left, right, hc, piece

\* The end of the second of two texts is the end of both.
LEMMA SuffixBeyond ==
    ASSUME NEW S, NEW h \in Seq(S), NEW c \in Seq(S), NEW k \in 1..Len(c) + 1
    PROVE  SubSeq(h \o c, Len(h) + k, Len(h \o c)) = SubSeq(c, k, Len(c))
<1> DEFINE hc == h \o c
           left == SubSeq(hc, Len(h) + k, Len(hc))
           right == SubSeq(c, k, Len(c))
<1>1. hc \in Seq(S) /\ Len(hc) = Len(h) + Len(c) /\ Len(h) \in Nat /\ Len(c) \in Nat
      /\ \A i \in 1..Len(h) + Len(c) : hc[i] = IF i <= Len(h) THEN h[i] ELSE c[i - Len(h)]
  BY ConcatProperties
<1> HIDE DEF hc
<1>2. /\ Len(h) + k \in 1..Len(hc) + 1 /\ Len(hc) \in (Len(h) + k - 1)..Len(hc)
      /\ Len(c) \in (k - 1)..Len(c)
  BY <1>1
<1>3. left \in Seq(S) /\ Len(left) = Len(hc) - (Len(h) + k) + 1
      /\ \A i \in 1..(Len(hc) - (Len(h) + k) + 1) : left[i] = hc[Len(h) + k + i - 1]
  <2> DEFINE start == Len(h) + k
  <2> HIDE DEF start
  <2>1. start \in 1..Len(hc) + 1 /\ Len(hc) \in (start - 1)..Len(hc)
    BY <1>2 DEF start
  <2>2. /\ SubSeq(hc, start, Len(hc)) \in Seq(S)
        /\ Len(SubSeq(hc, start, Len(hc))) = Len(hc) - start + 1
        /\ \A i \in 1..(Len(hc) - start + 1) : SubSeq(hc, start, Len(hc))[i] = hc[start + i - 1]
    BY <1>1, <2>1, Cut
  <2> QED  BY <2>2 DEF start
<1>4. right \in Seq(S) /\ Len(right) = Len(c) - k + 1
      /\ \A i \in 1..(Len(c) - k + 1) : right[i] = c[k + i - 1]
  BY <1>1, <1>2, Cut
<1> HIDE DEF left, right
<1>5. Len(left) = Len(right)
  BY <1>1, <1>3, <1>4
<1>6. ASSUME NEW i \in 1..Len(left)  PROVE left[i] = right[i]
  <2>1. i \in Nat /\ i >= 1 /\ i <= Len(c) - k + 1 /\ k \in Nat /\ k >= 1
    BY <1>1, <1>4, <1>5
  <2>2. left[i] = hc[Len(h) + k + i - 1]
    BY <1>1, <1>3, <2>1
  <2>3. /\ Len(h) + k + i - 1 \in 1..Len(h) + Len(c) /\ ~(Len(h) + k + i - 1 <= Len(h))
        /\ Len(h) + k + i - 1 - Len(h) = k + i - 1
    BY <1>1, <2>1
  <2> DEFINE j == Len(h) + k + i - 1
  <2> HIDE DEF j
  <2>4. j \in 1..Len(h) + Len(c) /\ ~(j <= Len(h)) /\ j - Len(h) = k + i - 1
    BY <2>3 DEF j
  <2>5. hc[j] = c[k + i - 1]
    BY <1>1, <2>4
  <2>6. right[i] = c[k + i - 1]
    BY <1>4, <1>1, <2>1
  <2> QED  BY <2>2, <2>5, <2>6 DEF j
<1>7. left = right
  BY <1>3, <1>4, <1>5, <1>6, SeqEqual
<1> QED  BY <1>7 DEF left, right, hc

\* A text is its first k letters and the others.
LEMMA SplitAt ==
    ASSUME NEW S, NEW h \in Seq(S), NEW k \in 0..Len(h)
    PROVE  /\ SubSeq(h, 1, k) \in Seq(S) /\ Len(SubSeq(h, 1, k)) = k
           /\ SubSeq(h, k + 1, Len(h)) \in Seq(S) /\ Len(SubSeq(h, k + 1, Len(h))) = Len(h) - k
           /\ SubSeq(h, 1, k) \o SubSeq(h, k + 1, Len(h)) = h
<1>1. k \in Nat /\ Len(h) \in Nat /\ 1 \in 1..Len(h) + 1 /\ k \in (1 - 1)..Len(h) /\ Len(h) \in k..Len(h)
      /\ k + 1 \in 1..Len(h) + 1 /\ Len(h) \in (k + 1 - 1)..Len(h)
  OBVIOUS
<1>2. SubSeq(h, 1, k) \in Seq(S) /\ Len(SubSeq(h, 1, k)) = k - 1 + 1
  BY <1>1, Cut
<1>3. SubSeq(h, k + 1, Len(h)) \in Seq(S) /\ Len(SubSeq(h, k + 1, Len(h))) = Len(h) - (k + 1) + 1
  <2> DEFINE i == k + 1
  <2>1. i \in 1..Len(h) + 1 /\ Len(h) \in (i - 1)..Len(h)
    BY <1>1
  <2> HIDE DEF i
  <2>2. SubSeq(h, i, Len(h)) \in Seq(S) /\ Len(SubSeq(h, i, Len(h))) = Len(h) - i + 1
    BY <2>1, Cut
  <2> QED  BY <2>2 DEF i
<1>4. SubSeq(h, 1, k) \o SubSeq(h, k + 1, Len(h)) = SubSeq(h, 1, Len(h))
  BY <1>1, ConcatAdjacentSubSeq
<1>5. SubSeq(h, 1, Len(h)) = h
  BY SubSeqFull
<1>6. k - 1 + 1 = k /\ Len(h) - (k + 1) + 1 = Len(h) - k
  BY <1>1
<1> QED  BY <1>2, <1>3, <1>4, <1>5, <1>6, Zenon

\* A beginning of two texts that is longer than the first one.
LEMMA PrefixBeyond ==
    ASSUME NEW S, NEW h \in Seq(S), NEW c \in Seq(S), NEW k \in 0..Len(c)
    PROVE  SubSeq(h \o c, 1, Len(h) + k) = h \o SubSeq(c, 1, k)
<1> DEFINE a == SubSeq(c, 1, k)
           b == SubSeq(c, k + 1, Len(c))
<1>1. a \in Seq(S) /\ b \in Seq(S) /\ Len(a) = k
  BY SplitAt
<1>8. a \o b = c
  BY SplitAt
<1> HIDE DEF a, b
<1>2. (h \o a) \o b = h \o (a \o b)
  BY <1>1, ConcatAssociative
<1> DEFINE ha == h \o a
<1>3. ha \in Seq(S) /\ Len(ha) = Len(h) + k
  BY <1>1, ConcatProperties
<1>4. h \o c = ha \o b
  BY <1>8, <1>2
<1> HIDE DEF ha
<1>5. Len(ha) \in 0..Len(ha)
  BY <1>1, <1>3
<1>6. SubSeq(ha \o b, 1, Len(ha)) = SubSeq(ha, 1, Len(ha))
  BY <1>1, <1>3, <1>5, PrefixOfConcat
<1>7. SubSeq(ha, 1, Len(ha)) = ha
  BY <1>3, SubSeqFull
<1> QED  BY <1>3, <1>4, <1>6, <1>7 DEF ha, a

-----------------------------------------------------------------------------
(* Where a tag occurs in a text. *)
At(tag, s, i) == i \in 1..(Len(s) - Len(tag) + 1) /\ SubSeq(s, i, i + Len(tag) - 1) = tag

\* A tag is there when each of its letters is.
LEMMA LetterByLetter ==
    ASSUME NEW S, NEW tag \in Seq(S), NEW s \in Seq(S), NEW i \in 1..(Len(s) - Len(tag) + 1)
    PROVE  At(tag, s, i) <=> \A k \in 1..Len(tag) : s[i + k - 1] = tag[k]
<1> DEFINE cut == SubSeq(s, i, i + Len(tag) - 1)
<1>1. i \in Nat /\ i >= 1 /\ Len(tag) \in Nat /\ Len(s) \in Nat /\ i + Len(tag) - 1 <= Len(s)
  OBVIOUS
<1>2. cut \in Seq(S) /\ Len(cut) = Len(tag) /\ \A k \in 1..Len(tag) : cut[k] = s[i + k - 1]
  BY <1>1
<1>3. cut = tag <=> \A k \in 1..Len(tag) : cut[k] = tag[k]
  BY <1>2, SeqEqual
<1> QED  BY <1>2, <1>3 DEF At

\* str.find finds the first occurrence, and 0 means that there is none.
LEMMA FindFirst ==
    ASSUME NEW S, NEW tag \in Seq(S), NEW s \in Seq(S)
    PROVE  LET p == Find(tag, s)
           IN  \/ p = 0 /\ \A i : ~At(tag, s, i)
               \/ p \in Nat /\ p >= 1 /\ At(tag, s, p) /\ \A i : At(tag, s, i) => p <= i
<1> DEFINE places == {i \in 1..Len(s) - Len(tag) + 1 : SubSeq(s, i, i + Len(tag) - 1) = tag}
           first == CHOOSE i \in places : \A j \in places : i <= j
<1>1. Find(tag, s) = IF places = {} THEN 0 ELSE first
  BY DEF Find
<1>2. \A i : At(tag, s, i) <=> i \in places
  BY DEF At
<1>3. places \subseteq Nat /\ \A i \in places : i >= 1
  OBVIOUS
<1> HIDE DEF places
<1>4. ASSUME places # {}  PROVE first \in places /\ \A j \in places : first <= j
  BY <1>3, <1>4, NatMin
<1> HIDE DEF first
<1> QED  BY <1>1, <1>2, <1>3, <1>4

\* An occurrence before all others is the one that is found.
LEMMA FindIs ==
    ASSUME NEW S, NEW tag \in Seq(S), NEW s \in Seq(S), NEW p, At(tag, s, p),
           \A i : At(tag, s, i) => p <= i
    PROVE  Find(tag, s) = p
<1> DEFINE q == Find(tag, s)
<1>1. \/ q = 0 /\ \A i : ~At(tag, s, i)
      \/ q \in Nat /\ q >= 1 /\ At(tag, s, q) /\ \A i : At(tag, s, i) => q <= i
  BY FindFirst
<1> HIDE DEF q
<1>2. q \in Nat /\ q <= p /\ p <= q
  BY <1>1
<1>3. p \in Int
  BY DEF At
<1> QED  BY <1>2, <1>3 DEF q

\* An occurrence stays where it is when the text grows, and one that lies in the old
\* part was there before.
LEMMA OccursLeft ==
    ASSUME NEW S, NEW tag \in Seq(S), NEW h \in Seq(S), NEW c \in Seq(S), NEW i \in Nat,
           i >= 1, i + Len(tag) - 1 <= Len(h)
    PROVE  At(tag, h \o c, i) <=> At(tag, h, i)
<1> DEFINE hc == h \o c
<1>1. /\ hc \in Seq(S) /\ Len(hc) = Len(h) + Len(c) /\ Len(h) \in Nat /\ Len(c) \in Nat
      /\ Len(tag) \in Nat
      /\ \A j \in 1..Len(h) + Len(c) : hc[j] = IF j <= Len(h) THEN h[j] ELSE c[j - Len(h)]
  BY ConcatProperties
<1> HIDE DEF hc
<1>2. i \in 1..(Len(hc) - Len(tag) + 1) /\ i \in 1..(Len(h) - Len(tag) + 1)
  BY <1>1
<1>3. \A k \in 1..Len(tag) : hc[i + k - 1] = h[i + k - 1]
  <2> TAKE k \in 1..Len(tag)
  <2> DEFINE j == i + k - 1
  <2>1. j \in 1..Len(h) + Len(c) /\ j <= Len(h)
    BY <1>1
  <2> HIDE DEF j
  <2>2. hc[j] = h[j]
    BY <1>1, <2>1
  <2> QED  BY <2>2 DEF j
<1>6. hc \in Seq(S)
  BY <1>1
<1>4. At(tag, hc, i) <=> \A k \in 1..Len(tag) : hc[i + k - 1] = tag[k]
  BY <1>6, <1>2, LetterByLetter
<1>5. At(tag, h, i) <=> \A k \in 1..Len(tag) : h[i + k - 1] = tag[k]
  BY <1>1, <1>2, LetterByLetter
<1> QED  BY <1>3, <1>4, <1>5 DEF hc

\* An occurrence in what follows is one in the whole, so much further on.
LEMMA OccursBeyond ==
    ASSUME NEW S, NEW tag \in Seq(S), NEW h \in Seq(S), NEW c \in Seq(S), NEW i \in Int, i >= 1
    PROVE  At(tag, h \o c, Len(h) + i) <=> At(tag, c, i)
<1> DEFINE hc == h \o c
           n == Len(h) + i
<1>1. /\ hc \in Seq(S) /\ Len(hc) = Len(h) + Len(c) /\ Len(h) \in Nat /\ Len(c) \in Nat
      /\ Len(tag) \in Nat
      /\ \A j \in 1..Len(h) + Len(c) : hc[j] = IF j <= Len(h) THEN h[j] ELSE c[j - Len(h)]
  BY ConcatProperties
<1> HIDE DEF hc
<1>2. n \in 1..(Len(hc) - Len(tag) + 1) <=> i \in 1..(Len(c) - Len(tag) + 1)
  BY <1>1
<1>3. ASSUME i \in 1..(Len(c) - Len(tag) + 1)  PROVE At(tag, hc, n) <=> At(tag, c, i)
  <2>1. \A k \in 1..Len(tag) : hc[n + k - 1] = c[i + k - 1]
    <3> TAKE k \in 1..Len(tag)
    <3> DEFINE j == n + k - 1
    <3>1. j \in 1..Len(h) + Len(c) /\ ~(j <= Len(h)) /\ j - Len(h) = i + k - 1
      BY <1>1, <1>3
    <3> HIDE DEF j
    <3>2. hc[j] = c[i + k - 1]
      BY <1>1, <3>1
    <3> QED  BY <3>2 DEF j
  <2>2. n \in 1..(Len(hc) - Len(tag) + 1)
    BY <1>2, <1>3
  <2> HIDE DEF n
  <2>5. hc \in Seq(S)
    BY <1>1
  <2>3. At(tag, hc, n) <=> \A k \in 1..Len(tag) : hc[n + k - 1] = tag[k]
    BY <2>5, <2>2, LetterByLetter
  <2>4. At(tag, c, i) <=> \A k \in 1..Len(tag) : c[i + k - 1] = tag[k]
    BY <1>1, <1>3, LetterByLetter
  <2> QED  BY <2>1, <2>3, <2>4
<1>4. ASSUME ~(i \in 1..(Len(c) - Len(tag) + 1))  PROVE ~At(tag, hc, n) /\ ~At(tag, c, i)
  BY <1>2, <1>4 DEF At
<1> QED  BY <1>3, <1>4 DEF hc, n

\* The first occurrence stays the first.
LEMMA FirstStays ==
    ASSUME NEW S, NEW tag \in Seq(S), NEW h \in Seq(S), NEW c \in Seq(S),
           Find(tag, h) # 0
    PROVE  Find(tag, h \o c) = Find(tag, h)
<1> DEFINE p == Find(tag, h)
           hc == h \o c
<1>1. p \in Nat /\ p >= 1 /\ At(tag, h, p) /\ \A i : At(tag, h, i) => p <= i
  BY FindFirst
<1> HIDE DEF p
<1>2. p + Len(tag) - 1 <= Len(h) /\ Len(tag) \in Nat /\ Len(h) \in Nat
  BY <1>1 DEF At
<1>3. At(tag, hc, p)
  BY <1>1, <1>2, OccursLeft
<1>4. ASSUME NEW i, At(tag, hc, i)  PROVE p <= i
  <2>1. i \in Int /\ i >= 1
    BY <1>4 DEF At
  <2>2. CASE i < p
    <3>1. i \in Nat /\ i + Len(tag) - 1 <= Len(h)
      BY <1>1, <1>2, <2>1, <2>2
    <3>2. At(tag, h, i)
      BY <1>4, <2>1, <3>1, OccursLeft
    <3> QED  BY <1>1, <3>2
  <2> QED  BY <1>1, <2>1, <2>2
<1>5. hc \in Seq(S)
  BY ConcatProperties
<1> HIDE DEF hc
<1>6. Find(tag, hc) = p
  BY <1>3, <1>4, <1>5, FindIs
<1> QED  BY <1>6 DEF p, hc

\* Letters with which no occurrence begins may be left out of the search.
LEMMA FirstBeyond ==
    ASSUME NEW S, NEW tag \in Seq(S), NEW a \in Seq(S), NEW d \in Seq(S),
           \A i : At(tag, a \o d, i) => i > Len(a)
    PROVE  Find(tag, a \o d) =
               IF Find(tag, d) = 0 THEN 0 ELSE Len(a) + Find(tag, d)
<1> DEFINE q == Find(tag, d)
           ad == a \o d
<1>1. \/ q = 0 /\ \A i : ~At(tag, d, i)
      \/ q \in Nat /\ q >= 1 /\ At(tag, d, q) /\ \A i : At(tag, d, i) => q <= i
  BY FindFirst
<1> HIDE DEF q
<1>2. ad \in Seq(S) /\ Len(a) \in Nat
  BY ConcatProperties
<1>3. \A i \in Int : i >= 1 => (At(tag, ad, Len(a) + i) <=> At(tag, d, i))
  BY OccursBeyond
<1>4. \A i : At(tag, ad, i) => i > Len(a)
  OBVIOUS
<1> HIDE DEF ad
<1>8. \A i : At(tag, ad, i) => i \in Int
  BY DEF At
<1>5. \A i : At(tag, ad, i) => At(tag, d, i - Len(a)) /\ i - Len(a) >= 1
  <2> SUFFICES ASSUME NEW i, At(tag, ad, i)  PROVE At(tag, d, i - Len(a)) /\ i - Len(a) >= 1
    OBVIOUS
  <2> DEFINE j == i - Len(a)
  <2>1. j \in Int /\ j >= 1 /\ Len(a) + j = i
    BY <1>2, <1>4, <1>8
  <2> HIDE DEF j
  <2>2. At(tag, d, j)
    BY <1>3, <2>1
  <2> QED  BY <2>1, <2>2 DEF j
<1>6. CASE q = 0
  <2>1. \A i : ~At(tag, ad, i)
    BY <1>1, <1>5, <1>6
  <2>2. Find(tag, ad) = 0
    BY <1>2, <2>1, FindFirst
  <2> QED  BY <1>6, <2>2 DEF q, ad
<1>7. CASE q # 0
  <2> DEFINE p == Len(a) + q
  <2>1. At(tag, ad, p) /\ p \in Int
    BY <1>1, <1>2, <1>3, <1>7
  <2>2. ASSUME NEW i, At(tag, ad, i)  PROVE p <= i
    <3>1. q <= i - Len(a) /\ i \in Int
      BY <1>1, <1>5, <1>7, <1>8, <2>2
    <3> QED  BY <1>1, <1>2, <1>7, <3>1
  <2> HIDE DEF p
  <2>3. Find(tag, ad) = p
    BY <1>2, <2>1, <2>2, FindIs
  <2> QED  BY <1>7, <2>3 DEF q, ad, p
<1> QED  BY <1>6, <1>7

-----------------------------------------------------------------------------
Text == Seq(Alphabet)

\* What is left to show of s when s begins inside a block.
AfterBlock(s) ==
    IF Find(CLOSE, s) = 0 THEN <<>>
    ELSE Visible[From(s, Find(CLOSE, s) + Len(CLOSE))]

\* What is shown of s, which begins inside a block or not.
ShownOf(in, s) == IF in THEN AfterBlock(s) ELSE Visible[s]

\* The rest of a text from a place on.
LEMMA FromIs ==
    ASSUME NEW s \in Text, NEW i \in 1..Len(s) + 1
    PROVE  From(s, i) \in Text /\ Len(From(s, i)) = Len(s) - i + 1
<1>1. Len(s) \in (i - 1)..Len(s)
  OBVIOUS
<1> QED  BY <1>1, Cut DEF From, Text

\* What a tag found leaves on both sides of it.
LEMMA AfterTag ==
    ASSUME NEW s \in Text, NEW tag \in Text, Len(tag) > 1, Find(tag, s) # 0
    PROVE  LET p == Find(tag, s)
           IN  /\ p \in 1..Len(s) /\ p + Len(tag) \in 1..Len(s) + 1
               /\ From(s, p + Len(tag)) \in Text
               /\ Len(From(s, p + Len(tag))) < Len(s)
               /\ SubSeq(s, 1, p - 1) \in Text
<1> DEFINE p == Find(tag, s)
           q == p + Len(tag)
<1>1. p \in Nat /\ p >= 1 /\ At(tag, s, p)
  BY FindFirst DEF Text
<1> HIDE DEF p
<1>2. p + Len(tag) - 1 <= Len(s) /\ Len(s) \in Nat /\ Len(tag) \in Nat
  BY <1>1 DEF At, Text
<1>3. q \in 1..Len(s) + 1 /\ p \in 1..Len(s) /\ p - 1 \in 0..Len(s) /\ q > 1
  BY <1>1, <1>2
<1> HIDE DEF q
<1>4. From(s, q) \in Text /\ Len(From(s, q)) = Len(s) - q + 1
  BY <1>3, FromIs
<1>5. Len(From(s, q)) < Len(s)
  BY <1>2, <1>3, <1>4
<1>6. SubSeq(s, 1, p - 1) \in Text
  <2> DEFINE k == p - 1
  <2> HIDE DEF k
  <2>1. k \in 0..Len(s)
    BY <1>3 DEF k
  <2>2. SubSeq(s, 1, k) \in Text
    BY <2>1, SplitAt DEF Text
  <2> QED  BY <2>2 DEF k
<1> QED  BY <1>3, <1>4, <1>5, <1>6 DEF p, q

(* The reference, unfolded once. *)
VisibleBody(f, s) ==
    LET inicio == Find(OPEN, s)
        block == From(s, inicio + Len(OPEN))
        fim == Find(CLOSE, block)
    IN  IF inicio = 0 THEN s
        ELSE SubSeq(s, 1, inicio - 1)
             \o (IF fim = 0 THEN <<>> ELSE f[From(block, fim + Len(CLOSE))])

\* It is a text, and looks at itself only for shorter texts.
LEMMA VisibleBodyGoesDown ==
    ASSUME NEW s \in Text
    PROVE  /\ \A f : (\A r \in Text : Len(r) < Len(s) => f[r] \in Text) => VisibleBody(f, s) \in Text
           /\ \A f, g : (\A r \in Text : Len(r) < Len(s) => f[r] = g[r])
                            => VisibleBody(f, s) = VisibleBody(g, s)
<1> DEFINE inicio == Find(OPEN, s)
           start == SubSeq(s, 1, inicio - 1)
           block == From(s, inicio + Len(OPEN))
           fim == Find(CLOSE, block)
           rest == From(block, fim + Len(CLOSE))
           shows(f) == IF fim = 0 THEN <<>> ELSE f[rest]
<1>1. OPEN \in Text /\ CLOSE \in Text /\ Len(OPEN) > 1 /\ Len(CLOSE) > 1 /\ <<>> \in Text
  BY FilterAssumption DEF Text
<1>2. \A f : VisibleBody(f, s) = IF inicio = 0 THEN s ELSE start \o shows(f)
  BY DEF VisibleBody
<1>3. CASE inicio = 0
  BY <1>2, <1>3
<1>4. CASE inicio # 0
  <2>1. start \in Text /\ block \in Text /\ Len(block) < Len(s)
    BY <1>1, <1>4, AfterTag
  <2> HIDE DEF inicio, start, block
  <2>2. fim # 0 => rest \in Text /\ Len(rest) < Len(block)
    BY <1>1, <2>1, AfterTag
  <2>3. fim # 0 => rest \in Text /\ Len(rest) < Len(s)
    <3>1. \A t \in Text : Len(t) \in Nat
      BY DEF Text
    <3> HIDE DEF fim, rest
    <3> QED  BY <2>1, <2>2, <3>1
  <2> HIDE DEF fim, rest
  <2>4. ASSUME NEW f, \A r \in Text : Len(r) < Len(s) => f[r] \in Text
        PROVE  VisibleBody(f, s) \in Text
    <3>1. shows(f) \in Text
      BY <1>1, <2>3, <2>4
    <3> HIDE DEF shows
    <3>2. start \o shows(f) \in Text
      BY <2>1, <3>1, ConcatProperties DEF Text
    <3> QED  BY <1>2, <1>4, <3>2
  <2>5. ASSUME NEW f, NEW g, \A r \in Text : Len(r) < Len(s) => f[r] = g[r]
        PROVE  VisibleBody(f, s) = VisibleBody(g, s)
    <3>1. shows(f) = shows(g)
      BY <2>3, <2>5
    <3> HIDE DEF shows
    <3> QED  BY <1>2, <1>4, <3>1
  <2> QED  BY <2>4, <2>5
<1> QED  BY <1>3, <1>4

\* So there is such a function, and it shows texts.
LEMMA VisibleIs ==
    /\ Visible \in [Text -> Text]
           /\ \A s \in Text : Visible[s] = VisibleBody(Visible, s)
<1> DEFINE size == [s \in Text |-> Len(s)]
           B == [s \in Text |-> [f \in [Text -> Text] |-> VisibleBody(f, s)]]
<1>1. size \in [Text -> Nat] /\ Text # {}
  <2>1. \A s \in Text : Len(s) \in Nat
    BY DEF Text
  <2>2. Text # {}
    BY EmptySeq DEF Text
  <2> HIDE DEF B
  <2> QED  BY <2>1, <2>2
<1>2. \A s \in Text : \A f \in [Text -> Text] : B[s][f] \in Text
  BY VisibleBodyGoesDown
<1>3. \A s \in Text : \A f, g \in [Text -> Text] :
          (\A r \in Text : size[r] < size[s] => f[r] = g[r]) => B[s][f] = B[s][g]
  BY VisibleBodyGoesDown
<1>4. HasFunction(Text, Text, B)
  <2>1. GoesDown(Text, Text, size, B)
    <3> HIDE DEF size, B
    <3> QED  BY <1>1, <1>2, <1>3 DEF GoesDown
  <2> HIDE DEF size, B
  <2> QED  BY <1>1, <2>1, RecursionDefines
<1>5. PICK f \in [Text -> Text] : f = [s \in Text |-> VisibleBody(f, s)]
  BY <1>4 DEF HasFunction
<1>6. Visible = [s \in Text |-> VisibleBody(Visible, s)]
  BY <1>5, Zenon DEF Visible, VisibleBody, Text
<1> DEFINE P == {s \in Text : Visible[s] \in Text}
<1>7. ASSUME NEW s \in Text, \A r \in Text : size[r] < size[s] => r \in P
      PROVE  s \in P
  <2>1. \A r \in Text : Len(r) < Len(s) => Visible[r] \in Text
    BY <1>7
  <2>2. VisibleBody(Visible, s) \in Text
    BY <2>1, VisibleBodyGoesDown
  <2> QED  BY <1>6, <2>2
<1>8. \A s \in Text : s \in P
  <2> HIDE DEF size, P
  <2> QED  BY <1>1, <1>7, SizeInduction
<1> QED  BY <1>6, <1>8

\* What is known of the tags.
LEMMA TagTypes ==
    OPEN \in Text /\ CLOSE \in Text /\ Len(OPEN) > 1 /\ Len(CLOSE) > 1 /\ <<>> \in Text
           /\ Len(OPEN) \in Nat /\ Len(CLOSE) \in Nat
BY FilterAssumption DEF Text

\* Texts one after the other are a text.
LEMMA ConcatText ==
    ASSUME NEW a \in Text, NEW b \in Text
    PROVE  a \o b \in Text /\ Len(a \o b) = Len(a) + Len(b)
BY ConcatProperties DEF Text

\* However three texts are put together.
Together(a, b, c) == (a \o b) \o c = a \o (b \o c)

LEMMA ConcatTexts ==
    ASSUME NEW a \in Text, NEW b \in Text, NEW c \in Text
    PROVE  Together(a, b, c)
BY ConcatAssociative DEF Text, Together

\* What is shown of a text: all before the first block, and what is after it.
LEMMA VisibleUnfolds ==
    ASSUME NEW s \in Text
    PROVE  LET p == Find(OPEN, s)
           IN  Visible[s] = IF p = 0 THEN s
                   ELSE SubSeq(s, 1, p - 1) \o AfterBlock(From(s, p + Len(OPEN)))
BY VisibleIs DEF VisibleBody, AfterBlock

\* What is shown from within a block is a text.
LEMMA AfterBlockType ==
    ASSUME NEW s \in Text
    PROVE  AfterBlock(s) \in Text
<1>1. Find(CLOSE, s) # 0 => From(s, Find(CLOSE, s) + Len(CLOSE)) \in Text
  BY AfterTag, TagTypes
<1> QED  BY <1>1, TagTypes, VisibleIs DEF AfterBlock

\* No opening tag begins in a: a is shown, and d as if it stood alone.
LEMMA VisibleBeyond ==
    ASSUME NEW a \in Text, NEW d \in Text,
           \A i : At(OPEN, a \o d, i) => i > Len(a)
    PROVE  Visible[a \o d] = a \o Visible[d]
<1> DEFINE q == Find(OPEN, d)
           ad == a \o d
           p == Find(OPEN, ad)
           rest == From(d, q + Len(OPEN))
           start == SubSeq(d, 1, q - 1)
<1>1. p = IF q = 0 THEN 0 ELSE Len(a) + q
  BY TagTypes, FirstBeyond DEF Text
<1>2. ad \in Text /\ Len(a) \in Nat /\ Len(d) \in Nat
  BY ConcatText DEF Text
<1>3. Visible[d] = IF q = 0 THEN d ELSE start \o AfterBlock(rest)
  BY VisibleUnfolds
<1>4. Visible[ad] = IF p = 0 THEN ad
          ELSE SubSeq(ad, 1, p - 1) \o AfterBlock(From(ad, p + Len(OPEN)))
  BY <1>2, VisibleUnfolds
<1>5. CASE q = 0
  BY <1>1, <1>3, <1>4, <1>5
<1>6. CASE q # 0
  <2>1. /\ q \in 1..Len(d) /\ q + Len(OPEN) \in 1..Len(d) + 1
        /\ rest \in Text /\ start \in Text /\ Len(OPEN) \in Nat
    BY <1>6, TagTypes, AfterTag
  <2> HIDE DEF p, q
  <2>2. SubSeq(ad, 1, p - 1) = a \o start
    <3> DEFINE k == q - 1
    <3>1. k \in 0..Len(d) /\ Len(a) + k = p - 1
      BY <1>1, <1>2, <1>6, <2>1
    <3> HIDE DEF k
    <3>2. SubSeq(a \o d, 1, Len(a) + k) = a \o SubSeq(d, 1, k)
      BY <3>1, PrefixBeyond DEF Text
    <3> QED  BY <3>1, <3>2 DEF k
  <2>3. From(ad, p + Len(OPEN)) = rest
    <3> DEFINE k == q + Len(OPEN)
    <3>1. k \in 1..Len(d) + 1 /\ Len(a) + k = p + Len(OPEN)
      BY <1>1, <1>2, <1>6, <2>1
    <3> HIDE DEF k
    <3>2. SubSeq(a \o d, Len(a) + k, Len(a \o d)) = SubSeq(d, k, Len(d))
      BY <3>1, SuffixBeyond DEF Text
    <3> QED  BY <3>1, <3>2 DEF k, From
  <2>4. Visible[ad] = (a \o start) \o AfterBlock(rest)
    <3>1. p # 0
      BY <1>1, <1>2, <1>6, <2>1
    <3> HIDE DEF ad, start, rest
    <3> QED  BY <1>4, <2>2, <2>3, <3>1, Zenon
  <2> DEFINE shows == AfterBlock(rest)
  <2>5. shows \in Text
    BY <2>1, AfterBlockType
  <2> HIDE DEF shows, start
  <2>6. (a \o start) \o shows = a \o (start \o shows)
    <3>1. Together(a, start, shows)
      BY <2>1, <2>5, ConcatTexts
    <3> QED  BY <3>1 DEF Together
  <2> QED  BY <1>3, <1>6, <2>4, <2>6 DEF shows, start, q
<1> QED  BY <1>5, <1>6

\* No closing tag begins in a, which is inside a block: nothing of a is shown.
LEMMA BlockBeyond ==
    ASSUME NEW a \in Text, NEW d \in Text,
           \A i : At(CLOSE, a \o d, i) => i > Len(a)
    PROVE  AfterBlock(a \o d) = AfterBlock(d)
<1> DEFINE q == Find(CLOSE, d)
           ad == a \o d
           p == Find(CLOSE, ad)
<1>1. p = IF q = 0 THEN 0 ELSE Len(a) + q
  BY TagTypes, FirstBeyond DEF Text
<1>2. Len(a) \in Nat /\ Len(d) \in Nat
  BY DEF Text
<1>3. CASE q = 0
  BY <1>1, <1>3 DEF AfterBlock
<1>4. CASE q # 0
  <2>1. q \in 1..Len(d) /\ q + Len(CLOSE) \in 1..Len(d) + 1 /\ Len(CLOSE) \in Nat
    BY <1>4, TagTypes, AfterTag
  <2> DEFINE k == q + Len(CLOSE)
  <2> HIDE DEF p, q
  <2>2. k \in 1..Len(d) + 1 /\ Len(a) + k = p + Len(CLOSE) /\ p # 0
    BY <1>1, <1>2, <1>4, <2>1
  <2> HIDE DEF k
  <2>3. SubSeq(a \o d, Len(a) + k, Len(a \o d)) = SubSeq(d, k, Len(d))
    BY <2>2, SuffixBeyond DEF Text
  <2>4. From(ad, p + Len(CLOSE)) = From(d, q + Len(CLOSE))
    BY <2>2, <2>3 DEF k, From
  <2> QED  BY <1>4, <2>2, <2>4 DEF AfterBlock, p, q
<1> QED  BY <1>3, <1>4

\* The text after a tag that is found in h, when more is to follow.
LEMMA AfterTagGrows ==
    ASSUME NEW tag \in Text, Len(tag) > 1, NEW h \in Text, NEW c \in Text, Find(tag, h) # 0
    PROVE  LET p == Find(tag, h)
           IN  /\ Find(tag, h \o c) = p
               /\ SubSeq(h \o c, 1, p - 1) = SubSeq(h, 1, p - 1)
               /\ From(h \o c, p + Len(tag)) = From(h, p + Len(tag)) \o c
<1> DEFINE p == Find(tag, h)
           k == p + Len(tag)
           j == p - 1
<1>1. p \in 1..Len(h) /\ k \in 1..Len(h) + 1
  BY AfterTag
<1>2. Find(tag, h \o c) = p
  BY FirstStays DEF Text
<1> HIDE DEF p
<1>3. j \in 0..Len(h)
  BY <1>1
<1> HIDE DEF k, j
<1>4. SubSeq(h \o c, 1, j) = SubSeq(h, 1, j)
  BY <1>3, PrefixOfConcat DEF Text
<1>5. SubSeq(h \o c, k, Len(h \o c)) = SubSeq(h, k, Len(h)) \o c
  BY <1>1, SuffixOfConcat DEF Text
<1> QED  BY <1>2, <1>4, <1>5 DEF p, k, j, From

\* With an opening tag in h, what is before it is shown, whatever follows h.
LEMMA VisibleGrows ==
    ASSUME NEW h \in Text, NEW c \in Text, Find(OPEN, h) # 0
    PROVE  LET p == Find(OPEN, h)
           IN  Visible[h \o c] =
                   SubSeq(h, 1, p - 1) \o AfterBlock(From(h, p + Len(OPEN)) \o c)
<1>1. h \o c \in Text
  BY ConcatText
<1> DEFINE p == Find(OPEN, h)
<1>2. /\ Find(OPEN, h \o c) = p
      /\ SubSeq(h \o c, 1, p - 1) = SubSeq(h, 1, p - 1)
      /\ From(h \o c, p + Len(OPEN)) = From(h, p + Len(OPEN)) \o c
  BY TagTypes, AfterTagGrows
<1> DEFINE hc == h \o c
<1>3. Visible[hc] = IF Find(OPEN, hc) = 0 THEN hc
          ELSE SubSeq(hc, 1, Find(OPEN, hc) - 1)
               \o AfterBlock(From(hc, Find(OPEN, hc) + Len(OPEN)))
  BY <1>1, VisibleUnfolds
<1> QED  BY <1>2, <1>3, Zenon

\* With a closing tag in h, what is after it is shown, whatever follows h.
LEMMA BlockGrows ==
    ASSUME NEW h \in Text, NEW c \in Text, Find(CLOSE, h) # 0
    PROVE  AfterBlock(h \o c) =
               Visible[From(h, Find(CLOSE, h) + Len(CLOSE)) \o c]
<1> DEFINE p == Find(CLOSE, h)
<1>1. /\ Find(CLOSE, h \o c) = p
      /\ From(h \o c, p + Len(CLOSE)) = From(h, p + Len(CLOSE)) \o c
  BY TagTypes, AfterTagGrows
<1> QED  BY <1>1, Zenon DEF AfterBlock

\* The last n letters, or all of them.
LEMMA EndingIs ==
    ASSUME NEW s \in Text, NEW n \in Nat
    PROVE  \E k \in 0..Len(s) :
              /\ k = (IF n >= Len(s) THEN 0 ELSE Len(s) - n)
              /\ Ending(s, n) = SubSeq(s, k + 1, Len(s))
              /\ Ending(s, n) \in Text /\ Len(Ending(s, n)) = Len(s) - k
<1> DEFINE k == IF n >= Len(s) THEN 0 ELSE Len(s) - n
<1>0. Len(s) \in Nat
  BY DEF Text
<1>1. k \in 0..Len(s)
  BY <1>0
<1>2. Ending(s, n) = SubSeq(s, k + 1, Len(s))
  <2>1. CASE n >= Len(s)
    <3>1. SubSeq(s, 1, Len(s)) = s
      BY SubSeqFull DEF Text
    <3>2. k + 1 = 1
      BY <2>1
    <3> QED  BY <2>1, <3>1, <3>2 DEF Ending
  <2>2. CASE ~(n >= Len(s))
    BY <2>2 DEF Ending, From
  <2> QED  BY <2>1, <2>2
<1>3. k = (IF n >= Len(s) THEN 0 ELSE Len(s) - n)
  OBVIOUS
<1> HIDE DEF k
<1>4. SubSeq(s, k + 1, Len(s)) \in Text /\ Len(SubSeq(s, k + 1, Len(s))) = Len(s) - k
  BY <1>1, SplitAt DEF Text
<1> QED  BY <1>1, <1>2, <1>3, <1>4

\* _maior_prefixo_de_tag: the longest end of s that could begin an opening tag.
LEMMA LongestIs ==
    ASSUME NEW s \in Text
    PROVE  LET n == LongestTagPrefix(s)
           IN  /\ n \in 0..Len(OPEN) - 1 /\ n <= Len(s)
               /\ n # 0 => Ending(s, n) = SubSeq(OPEN, 1, n)
               /\ \A k \in 1..Len(OPEN) - 1 :
                     k <= Len(s) /\ Ending(s, k) = SubSeq(OPEN, 1, k) => k <= n
<1> DEFINE fits == {n \in 1..Len(OPEN) - 1 :
                        n <= Len(s) /\ Ending(s, n) = SubSeq(OPEN, 1, n)}
           best == CHOOSE n \in fits : \A k \in fits : k <= n
           n == LongestTagPrefix(s)
           missing == {Len(OPEN) - k : k \in fits}
<1>0. Len(OPEN) \in Nat /\ Len(OPEN) > 1 /\ Len(s) \in Nat
  BY TagTypes DEF Text
<1>1. n = IF fits = {} THEN 0 ELSE best
  BY DEF LongestTagPrefix
<1>2. \A k : k \in fits <=> /\ k \in 1..Len(OPEN) - 1
                            /\ k <= Len(s) /\ Ending(s, k) = SubSeq(OPEN, 1, k)
  OBVIOUS
<1> HIDE DEF n
<1>3. ASSUME fits # {}  PROVE best \in fits /\ \A k \in fits : k <= best
  <2>1. missing \subseteq Nat /\ missing # {}
    <3>1. \A k \in fits : k \in 1..Len(OPEN) - 1
      OBVIOUS
    <3> HIDE DEF fits
    <3>2. \A k \in fits : Len(OPEN) - k \in Nat
      BY <1>0, <3>1
    <3> QED  BY <1>3, <3>2
  <2>2. PICK least \in missing : \A j \in missing : least <= j
    <3> HIDE DEF missing
    <3> QED  BY <2>1, NatMin
  <2>3. PICK b \in fits : least = Len(OPEN) - b
    BY <2>2
  <2>4. ASSUME NEW k \in fits  PROVE k <= b
    <3>1. Len(OPEN) - b <= Len(OPEN) - k
      BY <2>2, <2>3
    <3>2. k \in Int /\ b \in Int
      OBVIOUS
    <3> HIDE DEF fits
    <3> QED  BY <1>0, <3>1, <3>2
  <2> HIDE DEF fits
  <2> QED  BY <2>4
<1> HIDE DEF fits, best
<1>4. CASE fits = {}
  <2>1. n = 0
    BY <1>1, <1>4
  <2>2. \A k \in 1..Len(OPEN) - 1 :
            ~(k <= Len(s) /\ Ending(s, k) = SubSeq(OPEN, 1, k))
    BY <1>2, <1>4
  <2> QED  BY <1>0, <2>1, <2>2 DEF n
<1>5. CASE fits # {}
  <2>1. n \in fits /\ \A k \in fits : k <= n
    BY <1>1, <1>3, <1>5
  <2>2. /\ n \in 1..Len(OPEN) - 1 /\ n <= Len(s)
        /\ Ending(s, n) = SubSeq(OPEN, 1, n)
    BY <1>2, <2>1
  <2>3. \A k \in 1..Len(OPEN) - 1 :
            k <= Len(s) /\ Ending(s, k) = SubSeq(OPEN, 1, k) => k <= n
    BY <1>2, <2>1
  <2>4. n \in 0..Len(OPEN) - 1
    BY <1>0, <2>2
  <2> QED  BY <2>2, <2>3, <2>4 DEF n
<1> QED  BY <1>4, <1>5

\* An opening tag that the next letters complete begins in what is held back.
LEMMA HeldIsEnoughForOpen ==
    ASSUME NEW h \in Text, NEW c \in Text, Find(OPEN, h) = 0,
           NEW i, At(OPEN, h \o c, i)
    PROVE  i > Len(h) - LongestTagPrefix(h)
<1> DEFINE n == LongestTagPrefix(h)
           hc == h \o c
<1>1. /\ n \in 0..Len(OPEN) - 1 /\ n <= Len(h)
      /\ \A k \in 1..Len(OPEN) - 1 :
            k <= Len(h) /\ Ending(h, k) = SubSeq(OPEN, 1, k) => k <= n
  BY LongestIs
<1> HIDE DEF n
<1>2. hc \in Text /\ Len(hc) = Len(h) + Len(c) /\ Len(h) \in Nat /\ Len(c) \in Nat
  BY ConcatText DEF Text
<1>3. \A j \in 1..Len(h) : hc[j] = h[j]
  BY ConcatProperties DEF Text
<1>4. OPEN \in Text /\ Len(OPEN) \in Nat /\ Len(OPEN) > 1
  BY TagTypes
<1>5. \A j : ~At(OPEN, h, j)
  <2>1. LET p == Find(OPEN, h)
        IN  \/ p = 0 /\ \A j : ~At(OPEN, h, j)
            \/ p \in Nat /\ p >= 1 /\ At(OPEN, h, p) /\ \A j : At(OPEN, h, j) => p <= j
    BY <1>4, FindFirst DEF Text
  <2> QED  BY <2>1
<1>6. i \in 1..(Len(hc) - Len(OPEN) + 1) /\ i \in Nat /\ i >= 1
  BY <1>2, <1>4 DEF At
<1>7. \A j \in 1..Len(OPEN) : hc[i + j - 1] = OPEN[j]
  <2>1. At(OPEN, hc, i)
    OBVIOUS
  <2> HIDE DEF hc
  <2>2. OPEN \in Seq(Alphabet) /\ hc \in Seq(Alphabet)
    BY <1>2, <1>4 DEF Text
  <2> QED  BY <1>6, <2>1, <2>2, LetterByLetter
<1>8. i + Len(OPEN) - 1 > Len(h)
  <2> SUFFICES ASSUME i + Len(OPEN) - 1 <= Len(h)  PROVE FALSE
    BY <1>2, <1>4, <1>6
  <2>1. At(OPEN, h, i)
    BY <1>4, <1>6, OccursLeft DEF Text
  <2> QED  BY <1>5, <2>1
<1> SUFFICES ASSUME i <= Len(h) - n  PROVE FALSE
  BY <1>1, <1>2, <1>6 DEF n
<1> DEFINE k == Len(h) - i + 1
<1>9. k \in 1..Len(OPEN) - 1 /\ k <= Len(h) /\ k > n /\ k \in Nat
  BY <1>1, <1>2, <1>4, <1>6, <1>8
<1>10. Ending(h, k) = SubSeq(OPEN, 1, k)
  <2>1. Ending(h, k) = SubSeq(h, i, Len(h))
    <3>1. PICK r \in 0..Len(h) : /\ r = (IF k >= Len(h) THEN 0 ELSE Len(h) - k)
                                 /\ Ending(h, k) = SubSeq(h, r + 1, Len(h))
      <4> HIDE DEF k
      <4> QED  BY <1>9, EndingIs
    <3>2. r + 1 = i
      BY <1>2, <1>6, <1>9, <3>1
    <3> QED  BY <3>1, <3>2
  <2> DEFINE end == SubSeq(h, i, Len(h))
             begin == SubSeq(OPEN, 1, k)
  <2>2. i \in 1..Len(h) + 1 /\ Len(h) \in (i - 1)..Len(h)
    BY <1>2, <1>6, <1>9
  <2>3. end \in Text /\ Len(end) = k /\ \A j \in 1..k : end[j] = h[i + j - 1]
    BY <2>2, Cut DEF Text
  <2>4. begin \in Text /\ Len(begin) = k /\ \A j \in 1..k : begin[j] = OPEN[j]
    <3> HIDE DEF k
    <3>1. 1 \in 1..Len(OPEN) + 1 /\ k \in (1 - 1)..Len(OPEN) /\ k - 1 + 1 = k
      BY <1>4, <1>9
    <3>2. begin \in Text /\ Len(begin) = k - 1 + 1 /\ \A j \in 1..(k - 1 + 1) : begin[j] = OPEN[1 + j - 1]
      BY <1>4, <3>1, Cut DEF Text
    <3> HIDE DEF begin
    <3> QED  BY <1>9, <3>1, <3>2
  <2>5. ASSUME NEW j \in 1..k  PROVE end[j] = begin[j]
    <3>1. j \in 1..Len(OPEN) /\ i + j - 1 \in 1..Len(h)
      BY <1>2, <1>4, <1>6, <1>9
    <3>2. hc[i + j - 1] = h[i + j - 1]
      BY <1>3, <3>1
    <3>3. hc[i + j - 1] = OPEN[j]
      BY <1>7, <3>1
    <3> HIDE DEF end, begin, hc, k
    <3> QED  BY <2>3, <2>4, <3>2, <3>3
  <2> HIDE DEF end, begin, k
  <2>6. end = begin
    BY <2>3, <2>4, <2>5, SeqEqual DEF Text
  <2> QED  BY <2>1, <2>6 DEF end, begin
<1> HIDE DEF k
<1> QED  BY <1>1, <1>9, <1>10

\* A closing tag that the next letters complete begins in the last letters, one
\* fewer than the tag has.
LEMMA HeldIsEnoughForClose ==
    ASSUME NEW h \in Text, NEW c \in Text, Find(CLOSE, h) = 0,
           NEW i, At(CLOSE, h \o c, i)
    PROVE  i > Len(h) - (Len(CLOSE) - 1)
<1>1. CLOSE \in Text /\ Len(CLOSE) \in Nat /\ Len(CLOSE) > 1 /\ Len(h) \in Nat
  BY TagTypes DEF Text
<1>2. \A j : ~At(CLOSE, h, j)
  <2>1. LET p == Find(CLOSE, h)
        IN  \/ p = 0 /\ \A j : ~At(CLOSE, h, j)
            \/ p \in Nat /\ p >= 1 /\ At(CLOSE, h, p) /\ \A j : At(CLOSE, h, j) => p <= j
    BY <1>1, FindFirst DEF Text
  <2> QED  BY <2>1
<1>3. i \in Int /\ i >= 1
  BY DEF At
<1> SUFFICES ASSUME ~(i > Len(h) - (Len(CLOSE) - 1))  PROVE FALSE
  OBVIOUS
<1>4. i \in Nat /\ i + Len(CLOSE) - 1 <= Len(h)
  BY <1>1, <1>3
<1>5. At(CLOSE, h, i)
  BY <1>1, <1>3, <1>4, OccursLeft DEF Text
<1> QED  BY <1>2, <1>5

\* What a filter in state st will have shown in the end, if c is all that follows.
Promise(st, c) == st.out \o ShownOf(st.inside, st.held \o c)

\* No more is held back than could still turn out to be a tag.
Settled(st) ==
    /\ st.inside => Len(st.held) < Len(CLOSE)
    /\ ~st.inside => \E n \in 0..Len(OPEN) - 1 : st.held = SubSeq(OPEN, 1, n)

\* The fields of a state of the loop.
LEMMA StateFields ==
    ASSUME NEW st \in States
    PROVE  st.held \in Text /\ st.inside \in BOOLEAN /\ st.out \in Text
BY DEF States, Text

\* What is shown is a text.
LEMMA ShownType ==
    ASSUME NEW in \in BOOLEAN, NEW s \in Text
    PROVE  ShownOf(in, s) \in Text
BY AfterBlockType, VisibleIs DEF ShownOf

\* Without a tag in sight: what is let go and what is held back keep the promise.
LEMMA KeepBackKeeps ==
    ASSUME NEW st \in States,
           Find(Sought(st), st.held) = 0
    PROVE  /\ KeepBack(st) \in States
           /\ Settled(KeepBack(st))
           /\ \A c \in Text : Promise(KeepBack(st), c) = Promise(st, c)
<1> DEFINE h == st.held
           o == st.out
           r == KeepBack(st)
<1>1. h \in Text /\ st.inside \in BOOLEAN /\ o \in Text /\ Len(h) \in Nat
  BY StateFields DEF Text
<1>2. CASE st.inside
  <2> DEFINE b == Ending(h, Len(CLOSE) - 1)
  <2>1. Len(CLOSE) - 1 \in Nat /\ Len(CLOSE) \in Nat
    BY TagTypes
  <2>2. PICK k \in 0..Len(h) :
              /\ k = (IF Len(CLOSE) - 1 >= Len(h) THEN 0 ELSE Len(h) - (Len(CLOSE) - 1))
              /\ b = SubSeq(h, k + 1, Len(h)) /\ b \in Text /\ Len(b) = Len(h) - k
    <3> DEFINE n == Len(CLOSE) - 1
    <3> HIDE DEF n
    <3>1. n \in Nat
      BY <2>1 DEF n
    <3>2. \E k \in 0..Len(h) :
              /\ k = (IF n >= Len(h) THEN 0 ELSE Len(h) - n)
              /\ Ending(h, n) = SubSeq(h, k + 1, Len(h))
              /\ Ending(h, n) \in Text /\ Len(Ending(h, n)) = Len(h) - k
      BY <1>1, <3>1, EndingIs
    <3> QED  BY <3>2 DEF n
  <2> DEFINE a == SubSeq(h, 1, k)
  <2>3. r = [held |-> b, inside |-> TRUE, out |-> o]
    BY <1>2 DEF KeepBack
  <2>4. a \in Text /\ Len(a) = k
    BY <1>1, SplitAt DEF Text
  <2>5. a \o b = h
    <3>1. SubSeq(h, 1, k) \o SubSeq(h, k + 1, Len(h)) = h
      BY <1>1, SplitAt DEF Text
    <3> QED  BY <2>2, <3>1, Zenon
  <2>6. Find(CLOSE, h) = 0
    BY <1>2 DEF Sought
  <2> HIDE DEF r, h, o, b, a
  <2>7. r \in States
    BY <1>1, <2>2, <2>3 DEF States, Text
  <2>8. Settled(r)
    <3>1. Len(b) < Len(CLOSE)
      <4>1. Len(b) = Len(h) - k
        BY <2>2, Zenon
      <4>4. k \in Int
        OBVIOUS
      <4>2. k = IF Len(CLOSE) - 1 >= Len(h) THEN 0 ELSE Len(h) - (Len(CLOSE) - 1)
        BY <2>2, Zenon
      <4>3. Len(h) \in Nat
        BY <1>1
      <4> QED  BY <2>1, <4>1, <4>2, <4>3, <4>4
    <3>2. r.inside = TRUE /\ r.held = b
      BY <2>3
    <3> QED  BY <3>1, <3>2 DEF Settled
  <2>9. ASSUME NEW c \in Text  PROVE AfterBlock(h \o c) = AfterBlock(b \o c)
    <3> DEFINE d == b \o c
    <3>1. a \o d = h \o c
      <4>1. (a \o b) \o c = a \o (b \o c)
        <5>1. Together(a, b, c)
          BY <2>2, <2>4, ConcatTexts
        <5> QED  BY <5>1 DEF Together
      <4> QED  BY <2>5, <4>1, Zenon
    <3>2. d \in Text
      BY <2>2, ConcatText
    <3> HIDE DEF d
    <3>3. ASSUME NEW i, At(CLOSE, a \o d, i)  PROVE i > Len(a)
      <4>1. At(CLOSE, h \o c, i)
        BY <3>1, <3>3, Zenon
      <4>2. i > Len(h) - (Len(CLOSE) - 1)
        BY <1>1, <2>6, <4>1, HeldIsEnoughForClose
      <4>3. i \in Int /\ i >= 1
        BY <4>1 DEF At
      <4> QED  BY <1>1, <2>1, <2>2, <2>4, <4>2, <4>3
    <3>4. AfterBlock(a \o d) = AfterBlock(d)
      BY <2>4, <3>2, <3>3, BlockBeyond
    <3> QED  BY <3>1, <3>4, Zenon DEF d
  <2>10. \A c \in Text : Promise(r, c) = o \o AfterBlock(b \o c)
    BY <2>3 DEF Promise, ShownOf
  <2>11. \A c \in Text : Promise(st, c) = o \o AfterBlock(h \o c)
    BY <1>2 DEF Promise, ShownOf, h, o
  <2>12. \A c \in Text : Promise(r, c) = Promise(st, c)
    BY <2>9, <2>10, <2>11, Zenon
  <2> QED  BY <2>7, <2>8, <2>12 DEF r
<1>3. CASE ~st.inside
  <2> DEFINE n == LongestTagPrefix(h)
             k == Len(h) - n
             b == Ending(h, n)
             a == SubSeq(h, 1, k)
             oa == o \o a
  <2>1. n \in 0..Len(OPEN) - 1 /\ n <= Len(h) /\ (n # 0 => b = SubSeq(OPEN, 1, n))
        /\ Len(OPEN) \in Nat
    BY <1>1, LongestIs, TagTypes
  <2> HIDE DEF n
  <2>2. k \in 0..Len(h) /\ n \in Nat
    BY <1>1, <2>1
  <2>3. b = SubSeq(h, k + 1, Len(h)) /\ b \in Text /\ Len(b) = n
    <3>1. PICK j \in 0..Len(h) :
              /\ j = (IF n >= Len(h) THEN 0 ELSE Len(h) - n)
              /\ b = SubSeq(h, j + 1, Len(h)) /\ b \in Text /\ Len(b) = Len(h) - j
      BY <1>1, <2>2, EndingIs
    <3>2. j = k /\ Len(h) - k = n
      BY <1>1, <2>1, <2>2, <3>1
    <3> QED  BY <3>1, <3>2
  <2>4. a \in Text /\ Len(a) = k
    <3> HIDE DEF k
    <3> QED  BY <1>1, <2>2, SplitAt DEF Text
  <2>5. a \o b = h
    <3>1. SubSeq(h, 1, k) \o SubSeq(h, k + 1, Len(h)) = h
      <4> HIDE DEF k
      <4> QED  BY <1>1, <2>2, SplitAt DEF Text
    <3> QED  BY <2>3, <3>1, Zenon
  <2>6. r = [held |-> b, inside |-> FALSE, out |-> oa]
    BY <1>3 DEF KeepBack, ButEnding, n
  <2>7. Find(OPEN, h) = 0
    BY <1>3 DEF Sought
  <2>8. oa \in Text
    BY <1>1, <2>4, ConcatText
  <2> HIDE DEF r, h, o, b, a, oa
  <2>9. r \in States
    BY <2>3, <2>6, <2>8 DEF States, Text
  <2>10. Settled(r)
    <3>1. b = SubSeq(OPEN, 1, n)
      <4>1. CASE n = 0
        <5>1. SubSeq(OPEN, 1, 0) = <<>>
          BY SubSeqEmpty
        <5>2. b = <<>>
          BY <2>3, <4>1, EmptySeq DEF Text
        <5> QED  BY <4>1, <5>1, <5>2
      <4> QED  BY <2>1, <4>1
    <3> QED  BY <2>1, <2>6, <3>1 DEF Settled
  <2>11. ASSUME NEW c \in Text  PROVE Visible[h \o c] = a \o Visible[b \o c]
    <3> DEFINE d == b \o c
    <3>1. a \o d = h \o c
      <4>1. (a \o b) \o c = a \o (b \o c)
        <5>1. Together(a, b, c)
          BY <2>3, <2>4, ConcatTexts
        <5> QED  BY <5>1 DEF Together
      <4> QED  BY <2>5, <4>1, Zenon
    <3>2. d \in Text
      BY <2>3, ConcatText
    <3> HIDE DEF d
    <3>3. ASSUME NEW i, At(OPEN, a \o d, i)  PROVE i > Len(a)
      <4>1. At(OPEN, h \o c, i)
        BY <3>1, <3>3, Zenon
      <4>2. i > Len(h) - n
        BY <1>1, <2>7, <4>1, HeldIsEnoughForOpen DEF n
      <4> QED  BY <2>4, <4>2
    <3>4. Visible[a \o d] = a \o Visible[d]
      BY <2>4, <3>2, <3>3, VisibleBeyond
    <3> QED  BY <3>1, <3>4, Zenon DEF d
  <2>12. ASSUME NEW c \in Text  PROVE Promise(r, c) = Promise(st, c)
    <3> DEFINE v == Visible[b \o c]
    <3>1. Promise(r, c) = oa \o v
      BY <2>6 DEF Promise, ShownOf
    <3>2. Promise(st, c) = o \o Visible[h \o c]
      BY <1>3 DEF Promise, ShownOf, h, o
    <3>3. v \in Text
      <4>1. b \o c \in Text
        BY <2>3, ConcatText
      <4> QED  BY <4>1, VisibleIs
    <3>4. Visible[h \o c] = a \o v
      BY <2>11
    <3> HIDE DEF v
    <3>5. (o \o a) \o v = o \o (a \o v)
      <4>1. Together(o, a, v)
        BY <1>1, <2>4, <3>3, ConcatTexts
      <4> QED  BY <4>1 DEF Together
    <3> QED  BY <3>1, <3>2, <3>4, <3>5, Zenon DEF oa
  <2> QED  BY <2>9, <2>10, <2>12 DEF r
<1> QED  BY <1>1, <1>2, <1>3

\* With a tag: going on after it keeps the promise, on a shorter text.
LEMMA PassKeeps ==
    ASSUME NEW st \in States,
           Find(Sought(st), st.held) # 0
    PROVE  LET r == Pass(st, Find(Sought(st), st.held))
           IN  /\ r \in States
               /\ Len(r.held) < Len(st.held)
               /\ \A c \in Text : Promise(r, c) = Promise(st, c)
<1> DEFINE h == st.held
           o == st.out
           p == Find(Sought(st), h)
           r == Pass(st, p)
<1>1. h \in Text /\ st.inside \in BOOLEAN /\ o \in Text
  BY StateFields
<1>2. CASE st.inside
  <2> DEFINE b == From(h, p + Len(CLOSE))
  <2>1. p = Find(CLOSE, h) /\ r = [held |-> b, inside |-> FALSE, out |-> o]
    BY <1>2 DEF Sought, Pass
  <2>2. b \in Text /\ Len(b) < Len(h)
    BY <1>1, <2>1, AfterTag, TagTypes
  <2>3. \A c \in Text : AfterBlock(h \o c) = Visible[b \o c]
    BY <1>1, <2>1, BlockGrows
  <2>6. \A c \in Text : Promise(st, c) = o \o AfterBlock(h \o c)
    BY <1>2 DEF Promise, ShownOf
  <2> HIDE DEF r, b, p
  <2>4. r \in States /\ Len(r.held) < Len(h)
    BY <1>1, <2>1, <2>2 DEF States, Text
  <2>5. \A c \in Text : Promise(r, c) = o \o Visible[b \o c]
    BY <2>1 DEF Promise, ShownOf
  <2>7. \A c \in Text : Promise(r, c) = Promise(st, c)
    BY <2>3, <2>5, <2>6, Zenon
  <2> QED  BY <2>4, <2>7 DEF r, p
<1>3. CASE ~st.inside
  <2> DEFINE b == From(h, p + Len(OPEN))
             a == SubSeq(h, 1, p - 1)
             oa == o \o a
  <2>1. p = Find(OPEN, h) /\ r = [held |-> b, inside |-> TRUE, out |-> oa]
    BY <1>3 DEF Sought, Pass
  <2>2. b \in Text /\ Len(b) < Len(h) /\ a \in Text
    BY <1>1, <2>1, AfterTag, TagTypes
  <2>3. \A c \in Text : Visible[h \o c] = a \o AfterBlock(b \o c)
    BY <1>1, <2>1, VisibleGrows
  <2>4. \A c \in Text : Promise(st, c) = o \o Visible[h \o c]
    BY <1>3 DEF Promise, ShownOf
  <2> HIDE DEF r, b, p, a
  <2>5. oa \in Text
    BY <1>1, <2>2, ConcatText
  <2> HIDE DEF oa
  <2>6. r \in States /\ Len(r.held) < Len(h)
    BY <2>1, <2>2, <2>5 DEF States, Text
  <2>7. ASSUME NEW c \in Text  PROVE Promise(r, c) = Promise(st, c)
    <3> DEFINE v == AfterBlock(b \o c)
    <3>1. Promise(r, c) = oa \o v
      BY <2>1 DEF Promise, ShownOf
    <3>2. v \in Text
      <4>1. b \o c \in Text
        BY <2>2, ConcatText
      <4> QED  BY <4>1, AfterBlockType
    <3>3. Promise(st, c) = o \o (a \o v)
      BY <2>3, <2>4, Zenon
    <3> HIDE DEF v
    <3>4. (o \o a) \o v = o \o (a \o v)
      <4> HIDE DEF o
      <4>1. Together(o, a, v)
        BY <1>1, <2>2, <3>2, ConcatTexts
      <4> QED  BY <4>1 DEF Together
    <3> QED  BY <3>1, <3>3, <3>4, Zenon DEF oa
  <2> QED  BY <2>6, <2>7 DEF r, p
<1> QED  BY <1>1, <1>2, <1>3

(* The loop of feed, unfolded once. *)
LoopBody(f, st) ==
    LET place == Find(Sought(st), st.held)
    IN  IF st.held = <<>> THEN st
        ELSE IF place = 0 THEN KeepBack(st) ELSE f[Pass(st, place)]

\* The loop looks at itself only for a shorter text, so there is such a function.
LEMMA LoopIs ==
    \A st \in States : Loop[st] = LoopBody(Loop, st)
<1> DEFINE size == [st \in States |-> Len(st.held)]
           B == [st \in States |-> [f \in [States -> States] |-> LoopBody(f, st)]]
           place(st) == Find(Sought(st), st.held)
<1>1. size \in [States -> Nat]
  BY StateFields DEF Text
<1>2. \A st \in States : place(st) # 0 =>
          Pass(st, place(st)) \in States /\ Len(Pass(st, place(st)).held) < Len(st.held)
  BY PassKeeps
<1>3. \A st \in States : place(st) = 0 => KeepBack(st) \in States
  BY KeepBackKeeps
<1>4. States # {}
  <2>1. [held |-> <<>>, inside |-> FALSE, out |-> <<>>] \in States
    BY EmptySeq DEF States
  <2> QED  BY <2>1
<1>5. ASSUME NEW st \in States, NEW f \in [States -> States]  PROVE B[st][f] \in States
  <2>1. B[st][f] = LoopBody(f, st)
    OBVIOUS
  <2> HIDE DEF B
  <2>2. LoopBody(f, st) \in States
    BY <1>2, <1>3 DEF LoopBody
  <2> QED  BY <2>1, <2>2
<1>6. ASSUME NEW st \in States, NEW f \in [States -> States], NEW g \in [States -> States],
             \A r \in States : size[r] < size[st] => f[r] = g[r]
      PROVE  B[st][f] = B[st][g]
  <2>1. B[st][f] = LoopBody(f, st) /\ B[st][g] = LoopBody(g, st)
    OBVIOUS
  <2>2. \A r \in States : size[r] = Len(r.held)
    OBVIOUS
  <2> HIDE DEF B, size
  <2>3. LoopBody(f, st) = LoopBody(g, st)
    BY <1>2, <1>6, <2>2 DEF LoopBody
  <2> QED  BY <2>1, <2>3
<1>7. HasFunction(States, States, B)
  <2>1. GoesDown(States, States, size, B)
    <3> HIDE DEF size, B
    <3> QED  BY <1>4, <1>5, <1>6 DEF GoesDown
  <2> HIDE DEF size, B
  <2> QED  BY <1>1, <2>1, RecursionDefines
<1>8. PICK f \in [States -> States] : f = [st \in States |-> LoopBody(f, st)]
  BY <1>7 DEF HasFunction
<1>9. Loop = [st \in States |-> LoopBody(Loop, st)]
  BY <1>8, Zenon DEF Loop, LoopBody
<1> QED  BY <1>9

\* Wherever the loop stops, it has kept the promise it started with, and holds back
\* no more than it must.
LEMMA DrainKeeps ==
    ASSUME NEW start \in States
    PROVE  LET st == Drain(start)
           IN  /\ st \in States /\ Settled(st)
               /\ \A c \in Text : Promise(st, c) = Promise(start, c)
<1> DEFINE Kept(r, st) == /\ r \in States /\ Settled(r)
                          /\ \A c \in Text : Promise(r, c) = Promise(st, c)
           size == [st \in States |-> Len(st.held)]
           P == {st \in States : Kept(Loop[st], st)}
           place(st) == Find(Sought(st), st.held)
<1>1. size \in [States -> Nat]
  BY StateFields DEF Text
<1>2. ASSUME NEW st \in States, \A r \in States : size[r] < size[st] => r \in P
      PROVE  Kept(Loop[st], st)
  <2>1. Loop[st] = LoopBody(Loop, st)
    BY LoopIs
  <2>2. CASE st.held = <<>>
    <3>1. Loop[st] = st
      BY <2>1, <2>2 DEF LoopBody
    <3>2. Settled(st)
      <4>1. Len(<<>>) = 0 /\ SubSeq(OPEN, 1, 0) = <<>> /\ 0 \in 0..Len(OPEN) - 1 /\ 0 < Len(CLOSE)
        BY TagTypes, EmptySeq, SubSeqEmpty
      <4> QED  BY <2>2, <4>1 DEF Settled
    <3> QED  BY <3>1, <3>2
  <2>3. CASE st.held # <<>> /\ place(st) = 0
    <3>1. Loop[st] = KeepBack(st)
      BY <2>1, <2>3 DEF LoopBody
    <3> QED  BY <2>3, <3>1, KeepBackKeeps
  <2>4. CASE st.held # <<>> /\ place(st) # 0
    <3> DEFINE r == Pass(st, place(st))
    <3>1. Loop[st] = Loop[r]
      BY <2>1, <2>4 DEF LoopBody
    <3>2. /\ r \in States /\ Len(r.held) < Len(st.held)
          /\ \A c \in Text : Promise(r, c) = Promise(st, c)
      BY <2>4, PassKeeps
    <3> HIDE DEF r
    <3>3. r \in P
      BY <1>2, <3>2
    <3>4. Kept(Loop[r], r)
      BY <3>3
    <3> QED  BY <3>1, <3>2, <3>4
  <2> QED  BY <2>2, <2>3, <2>4
<1>3. \A st \in States : (\A r \in States : size[r] < size[st] => r \in P) => st \in P
  BY <1>2
<1>4. \A st \in States : st \in P
  <2> HIDE DEF size, P
  <2> QED  BY <1>1, <1>3, SizeInduction
<1> QED  BY <1>4 DEF Drain

-----------------------------------------------------------------------------
Now == [held |-> held, inside |-> inside, out |-> shown]

FilterTypes ==
    held \in Text /\ inside \in BOOLEAN /\ shown \in Text /\ ended \in BOOLEAN /\ text \in Text

\* Whatever follows, it will be filtered as if the whole text had come at once.
PromiseInv ==
    ~ended => Settled(Now) /\ \A c \in Text : Visible[text \o c] = Promise(Now, c)

FilterInv == FilterTypes /\ PromiseInv /\ StripsAnyChunking

\* The promise for the empty text is what StripsAnyChunking says.
LEMMA PromiseStrips ==
    ASSUME NEW st \in States, NEW tx \in Text, Settled(st),
           \A c \in Text : Visible[tx \o c] = Promise(st, c)
    PROVE  /\ st.out \o (IF st.inside THEN <<>> ELSE st.held) = Visible[tx]
           /\ st.inside => Len(st.held) < Len(CLOSE)
           /\ ~st.inside => \E n \in 0..Len(OPEN) - 1 : st.held = SubSeq(OPEN, 1, n)
<1> DEFINE h == st.held
<1>1. OPEN \in Text /\ Len(OPEN) \in Nat /\ CLOSE \in Text /\ Len(CLOSE) \in Nat /\ <<>> \in Text
      /\ h \in Text /\ Len(h) \in Nat
  BY TagTypes, StateFields DEF Text
<1>2. tx \o <<>> = tx /\ h \o <<>> = h
  BY <1>1, ConcatEmptySeq DEF Text
<1>3. Visible[tx] = Promise(st, <<>>)
  BY <1>1, <1>2
<1>4. Promise(st, <<>>) = st.out \o ShownOf(st.inside, h)
  BY <1>2 DEF Promise
<1>5. CASE st.inside
  <2>1. Len(h) < Len(CLOSE)
    BY <1>5 DEF Settled
  <2>2. \A i : ~At(CLOSE, h, i)
    BY <1>1, <2>1 DEF At
  <2>3. Find(CLOSE, h) = 0
    <3> HIDE DEF h
    <3> QED  BY <1>1, <2>2, FindFirst DEF Text
  <2>4. ShownOf(st.inside, h) = <<>>
    BY <1>5, <2>3 DEF ShownOf, AfterBlock
  <2> QED  BY <1>3, <1>4, <1>5, <2>1, <2>4
<1>6. CASE ~st.inside
  <2>1. PICK n \in 0..Len(OPEN) - 1 : h = SubSeq(OPEN, 1, n)
    BY <1>6 DEF Settled
  <2>2. Len(h) = n
    <3>1. n \in 0..Len(OPEN)
      BY <1>1
    <3> QED  BY <1>1, <2>1, <3>1, SplitAt DEF Text
  <2>3. \A i : ~At(OPEN, h, i)
    BY <1>1, <2>2 DEF At
  <2>4. Find(OPEN, h) = 0
    <3> HIDE DEF h
    <3> QED  BY <1>1, <2>3, FindFirst DEF Text
  <2>5. ShownOf(st.inside, h) = h
    BY <1>1, <1>6, <2>4, VisibleUnfolds DEF ShownOf
  <2> QED  BY <1>3, <1>4, <1>6, <2>1, <2>5
<1> QED  BY <1>5, <1>6, StateFields

\* The invariant holds before the first chunk.
LEMMA InitFilterInv ==
    FilterInit => FilterInv
<1> SUFFICES ASSUME FilterInit  PROVE FilterInv
  OBVIOUS
<1>1. FilterTypes /\ ~ended
  BY TagTypes DEF FilterInit, FilterTypes
<1>2. ASSUME NEW c \in Text  PROVE Visible[text \o c] = Promise(Now, c)
  <2>1. <<>> \o c = c
    BY ConcatEmptySeq DEF Text
  <2>2. Promise(Now, c) = <<>> \o Visible[c]
    BY <2>1 DEF Promise, Now, ShownOf, FilterInit
  <2>3. Visible[c] \in Text
    BY VisibleIs
  <2> DEFINE v == Visible[c]
  <2>4. <<>> \o v = v
    <3> HIDE DEF v
    <3> QED  BY <2>3, ConcatEmptySeq DEF Text, v
  <2>5. text \o c = c
    BY <2>1 DEF FilterInit
  <2> QED  BY <2>2, <2>4, <2>5, Zenon
<1>3. Settled(Now)
  <2>1. Now.held = <<>> /\ Now.inside = FALSE
    BY DEF Now, FilterInit
  <2>2. SubSeq(OPEN, 1, 0) = <<>> /\ 0 \in 0..Len(OPEN) - 1
    BY TagTypes, SubSeqEmpty
  <2> QED  BY <2>1, <2>2 DEF Settled
<1>4. PromiseInv
  BY <1>2, <1>3 DEF PromiseInv
<1>5. Now \in States
  BY <1>1 DEF Now, FilterTypes, States, Text
<1>6. StripsAnyChunking
  BY <1>1, <1>2, <1>3, <1>5, PromiseStrips DEF Now, FilterTypes, StripsAnyChunking
<1> QED  BY <1>1, <1>4, <1>6 DEF FilterInv

\* A chunk: the promise for c is the promise before for the chunk and c.
LEMMA FeedKeepsFilterInv ==
    ASSUME FilterInv, NEW chunk \in Chunks, Feed(chunk)
    PROVE  FilterInv'
<1> DEFINE start == [held |-> held \o chunk, inside |-> inside, out |-> <<>>]
           st == Drain(start)
           tx == text \o chunk
           next == [held |-> st.held, inside |-> st.inside, out |-> shown \o st.out]
<1>1. chunk \in Text /\ <<>> \in Text
  BY TagTypes, FilterAssumption DEF Chunks, Text
<1>2. FilterTypes /\ ~ended /\ PromiseInv
  BY DEF FilterInv, Feed
<1>3. held \in Text /\ shown \in Text /\ text \in Text /\ inside \in BOOLEAN
  BY <1>2 DEF FilterTypes
<1>4. held \o chunk \in Text /\ tx \in Text
  BY <1>1, <1>3, ConcatText
<1>5. start \in States
  BY <1>1, <1>3, <1>4 DEF States, Text
<1>6. st \in States /\ Settled(st) /\ \A c \in Text : Promise(st, c) = Promise(start, c)
  <2> HIDE DEF start
  <2> QED  BY <1>5, DrainKeeps
<1>7. /\ text' = tx /\ held' = st.held /\ inside' = st.inside /\ shown' = shown \o st.out
      /\ ended' = ended
  BY DEF Feed
<1>8. ASSUME NEW c \in Text  PROVE Promise(start, c) = ShownOf(inside, held \o (chunk \o c))
  <2> DEFINE hcc == (held \o chunk) \o c
             shows == ShownOf(inside, hcc)
  <2>1. Promise(start, c) = <<>> \o shows
    BY DEF Promise
  <2>2. hcc \in Text
    <3> DEFINE hc == held \o chunk
    <3> HIDE DEF hc
    <3>1. hc \in Text
      BY <1>4 DEF hc
    <3>2. hc \o c \in Text
      BY <3>1, ConcatText
    <3> QED  BY <3>2 DEF hc
  <2>3. hcc = held \o (chunk \o c)
    <3>1. (held \o chunk) \o c = held \o (chunk \o c)
      <4>1. held \in Text /\ chunk \in Text
        BY <1>1, <1>3
      <4>2. Together(held, chunk, c)
        BY <4>1, ConcatTexts
      <4> HIDE DEF start, st, tx, next, hcc, shows
      <4> QED  BY <4>2 DEF Together
    <3> QED  BY <3>1
  <2> HIDE DEF hcc
  <2>4. shows \in Text
    BY <1>3, <2>2, ShownType
  <2> HIDE DEF shows
  <2>5. <<>> \o shows = shows
    BY <2>4, ConcatEmptySeq DEF Text
  <2> QED  BY <2>1, <2>3, <2>5, Zenon DEF shows
<1> HIDE DEF start, st
<1>9. st.held \in Text /\ st.inside \in BOOLEAN /\ st.out \in Text
  BY <1>6, StateFields
<1>10. shown \o st.out \in Text
  BY <1>3, <1>9, ConcatText
<1>11. next \in States
  BY <1>9, <1>10 DEF States, Text
<1>12. Settled(next)
  BY <1>6 DEF Settled
<1>13. ASSUME NEW c \in Text  PROVE Visible[tx \o c] = Promise(next, c)
  <2> DEFINE cc == chunk \o c
             v == ShownOf(st.inside, st.held \o c)
             o == st.out
  <2>1. cc \in Text
    BY <1>1, ConcatText
  <2>2. tx \o c = text \o cc
    <3>1. Together(text, chunk, c)
      BY <1>1, <1>3, ConcatTexts
    <3> QED  BY <3>1 DEF Together
  <2>3. Visible[text \o cc] = Promise(Now, cc)
    <3> HIDE DEF cc
    <3> QED  BY <1>2, <2>1 DEF PromiseInv
  <2>4. Promise(Now, cc) = shown \o ShownOf(inside, held \o cc)
    BY DEF Promise, Now
  <2>5. ShownOf(inside, held \o cc) = o \o v
    <3>1. Promise(st, c) = o \o v
      BY DEF Promise
    <3> QED  BY <1>6, <1>8, <3>1, Zenon
  <2>6. v \in Text
    <3>1. st.held \o c \in Text
      BY <1>9, ConcatText
    <3> QED  BY <1>9, <3>1, ShownType
  <2>7. Promise(next, c) = (shown \o o) \o v
    BY DEF Promise
  <2>8. (shown \o o) \o v = shown \o (o \o v)
    <3> HIDE DEF o, v
    <3>1. o \in Text
      BY <1>9 DEF o
    <3>2. Together(shown, o, v)
      BY <1>3, <2>6, <3>1, ConcatTexts
    <3> QED  BY <3>2 DEF Together
  <2> HIDE DEF cc, v, o, tx, next
  <2> QED  BY <2>2, <2>3, <2>4, <2>5, <2>7, <2>8, Zenon
<1>14. /\ next.out \o (IF next.inside THEN <<>> ELSE next.held) = Visible[tx]
       /\ next.inside => Len(next.held) < Len(CLOSE)
       /\ ~next.inside => \E n \in 0..Len(OPEN) - 1 : next.held = SubSeq(OPEN, 1, n)
  <2> HIDE DEF next, tx
  <2> QED  BY <1>4, <1>11, <1>12, <1>13, PromiseStrips
<1>15. StripsAnyChunking'
  BY <1>7, <1>14 DEF StripsAnyChunking
<1>16. FilterTypes'
  BY <1>2, <1>4, <1>7, <1>9, <1>10 DEF FilterTypes
<1>17. PromiseInv'
  <2>1. Now' = next
    BY <1>7 DEF Now
  <2> HIDE DEF next
  <2> QED  BY <1>7, <1>12, <1>13, <2>1 DEF PromiseInv
<1> QED  BY <1>15, <1>16, <1>17 DEF FilterInv

\* The end: what is held back outside a block is no tag, and is shown.
LEMMA FlushKeepsFilterInv ==
    ASSUME FilterInv, Flush
    PROVE  FilterInv'
<1>1. FilterTypes /\ StripsAnyChunking
  BY DEF FilterInv
<1>2. held \in Text /\ shown \in Text /\ text \in Text /\ inside \in BOOLEAN /\ <<>> \in Text
  BY <1>1, TagTypes DEF FilterTypes
<1>3. /\ ended' = TRUE /\ held' = <<>> /\ inside' = inside /\ text' = text
      /\ shown' = IF inside THEN shown ELSE shown \o held
  BY DEF Flush
<1>4. shown' \in Text
  BY <1>2, <1>3, ConcatText
<1>5. FilterTypes'
  BY <1>2, <1>3, <1>4 DEF FilterTypes
<1>6. PromiseInv'
  BY <1>3 DEF PromiseInv
<1>7. shown \o (IF inside THEN <<>> ELSE held) = Visible[text]
  BY <1>1 DEF StripsAnyChunking
<1>8. shown' \o (IF inside' THEN <<>> ELSE held') = Visible[text']
  <2>1. (IF inside' THEN <<>> ELSE held') = <<>>
    BY <1>3
  <2>2. shown' \o <<>> = shown'
    BY <1>4, ConcatEmptySeq DEF Text
  <2>3. CASE inside
    <3>1. shown \o <<>> = shown
      BY <1>2, ConcatEmptySeq DEF Text
    <3>2. shown' = shown /\ shown \o <<>> = Visible[text]
      BY <1>3, <1>7, <2>3
    <3> QED  BY <1>3, <2>1, <2>2, <3>1, <3>2, Zenon
  <2>4. CASE ~inside
    <3>1. shown' = shown \o held /\ shown \o held = Visible[text]
      BY <1>3, <1>7, <2>4, Zenon
    <3> QED  BY <1>3, <2>1, <2>2, <3>1, Zenon
  <2> QED  BY <1>2, <2>3, <2>4
<1>9. StripsAnyChunking'
  BY <1>3, <1>8 DEF StripsAnyChunking
<1> QED  BY <1>5, <1>6, <1>9 DEF FilterInv

\* The invariant depends on the filter alone.
LEMMA StutterKeepsFilterInv ==
    ASSUME FilterInv, UNCHANGED filterVars
    PROVE  FilterInv'
<1>1. held' = held /\ inside' = inside /\ shown' = shown /\ ended' = ended /\ text' = text
  BY DEF filterVars
<1>2. Now' = Now
  BY <1>1 DEF Now
<1> QED  BY <1>1, <1>2 DEF FilterInv, FilterTypes, PromiseInv, StripsAnyChunking

(* The inductive invariant of the filter: at every cut of the stream, whatever
   follows will be filtered as if the whole text had come at once. *)
THEOREM FilterInvariance ==
    FilterSpec => []FilterInv
<1>1. FilterInit => FilterInv
  BY InitFilterInv
<1>2. FilterInv /\ [FilterNext]_filterVars => FilterInv'
  BY FeedKeepsFilterInv, FlushKeepsFilterInv, StutterKeepsFilterInv DEF FilterNext
<1> QED  BY <1>1, <1>2, PTL DEF FilterSpec

(* For every pair of tags, every answer and every way of cutting it into chunks, the
   user sees the answer without its scratchpads. *)
THEOREM StripsAnyChunkingHolds ==
    FilterSpec => []StripsAnyChunking
<1>1. FilterInv => StripsAnyChunking
  BY DEF FilterInv
<1> QED  BY <1>1, FilterInvariance, PTL
=============================================================================
