-------------------------- MODULE RunStream_proofs --------------------------
(***************************************************************************)
(* Safety of the run's stream, for every pair of timeouts and every bound. *)
(* The properties are not inductive: what makes them hold is the shape the *)
(* queue has while the producer works and after it has finished, and where *)
(* the clock may stand while the generator waits.  IInv says both.         *)
(***************************************************************************)
EXTENDS RunStream, SequenceTheorems, TLAPS

Working == {"created", "running", "storing", "stored"}

\* Only progress is queued.
AllProgress(q) == \A i \in 1..Len(q) : q[i] = Progress

\* Progress, one terminal event, the sentinel.
Closing(q) ==
    /\ Len(q) >= 2
    /\ q[Len(q)] = Sentinel
    /\ q[Len(q) - 1] \in Endings
    /\ \A i \in 1..(Len(q) - 2) : q[i] = Progress

\* The sentinel alone.
Closed(q) == Len(q) = 1 /\ q[1] = Sentinel

\* The generator's clock: a wait never lasts beyond the deadline.
ClockInv ==
    cons = "waiting" => now <= waitUntil /\ waitUntil <= prazo

\* Cancellation is asked for exactly when the generator ends.
CancelInv ==
    /\ cancelReq = (cons = "ended")
    /\ gone => cons = "ended"
    /\ prod = "cancelled" => cons = "ended"

\* What the client has received, and what it has not yet.
EndingInv ==
    /\ cons # "ended" => ending \in {<<>>, <<"done">>, <<"error">>}
    /\ cons = "ended" /\ ~gone =>
          Len(ending) >= 1 /\ ending[1] \in {"done", "error", "timeout"}

QueueInv ==
    /\ cons # "ended" /\ prod \in Working => ending = <<>> /\ AllProgress(queue)
    /\ cons # "ended" /\ prod = "finished" =>
          \/ /\ ending = <<>> /\ Closing(queue)
             /\ queue[Len(queue) - 1] = "done" => reply = "text"
          \/ /\ ending \in {<<"done">>, <<"error">>}
             /\ Closed(queue)

ReplyInv ==
    cons # "ended" /\ prod \in {"created", "running", "storing"} => reply = "none"

IInv == TypeOK /\ ClockInv /\ CancelInv /\ EndingInv /\ QueueInv /\ ReplyInv

-----------------------------------------------------------------------------
(* Lemmas on queues. *)

\* Taking from a queue of progress events leaves one.
LEMMA TailOfProgress ==
    ASSUME NEW q \in Seq(Items), q # <<>>, AllProgress(q)
    PROVE  Head(q) = Progress /\ AllProgress(Tail(q))
BY DEF AllProgress

\* Adding a progress event to a queue of progress events leaves one.
LEMMA AppendProgress ==
    ASSUME NEW q \in Seq(Items), AllProgress(q)
    PROVE  AllProgress(Append(q, Progress))
BY DEF AllProgress

\* The terminal event and the sentinel, put after progress events, close a queue.
LEMMA ClosingQueue ==
    ASSUME NEW q \in Seq(Items), AllProgress(q), NEW event \in Endings
    PROVE  /\ Closing(q \o <<event, Sentinel>>)
           /\ LET r == q \o <<event, Sentinel>> IN r[Len(r) - 1] = event
BY DEF AllProgress, Closing, Endings, Items

\* Taking from a closing queue leaves a closing queue, or its sentinel was taken.
LEMMA TailOfClosing ==
    ASSUME NEW q \in Seq(Items), Closing(q)
    PROVE  /\ q # <<>>
           /\ \/ /\ Head(q) = Progress
                 /\ Closing(Tail(q))
                 /\ Tail(q)[Len(Tail(q)) - 1] = q[Len(q) - 1]
              \/ /\ Head(q) \in Endings
                 /\ Head(q) = q[Len(q) - 1]
                 /\ Closed(Tail(q))
<1>1. q # <<>> /\ Len(q) \in Nat /\ Len(Tail(q)) = Len(q) - 1 /\ Head(q) = q[1]
  BY DEF Closing
<1>2. CASE Len(q) = 2
  <2>1. q[2] = Sentinel /\ q[1] \in Endings
    BY <1>2 DEF Closing
  <2>2. Tail(q)[1] = q[2]
    BY <1>1, <1>2, HeadTailProperties
  <2>. QED  BY <1>1, <1>2, <2>1, <2>2 DEF Closed
<1>3. CASE Len(q) # 2
  <2>1. \A i \in 1..(Len(q) - 1) : Tail(q)[i] = q[i + 1]
    BY <1>1
  <2>2. Len(q) >= 3 /\ Head(q) = Progress
    BY <1>1, <1>3 DEF Closing
  <2>3. Closing(Tail(q))
    BY <1>1, <2>1, <2>2 DEF Closing
  <2>. QED  BY <1>1, <2>1, <2>2, <2>3
<1>. QED  BY <1>2, <1>3

-----------------------------------------------------------------------------
(* Every reachable state has the declared type: module RunStream's variables
   hold what runs.py can put in them. *)
THEOREM TypeCorrect == Spec => []TypeOK
<1>1. Init => TypeOK
  <2>1. <<>> \in Seq(Items) /\ <<>> \in Seq({Progress, "timeout"} \cup Endings)
    OBVIOUS
  <2>2. Init => queue \in Seq(Items) /\ ending \in Seq({Progress, "timeout"} \cup Endings)
    BY <2>1 DEF Init
  <2>3. Init => cancelReq \in BOOLEAN /\ gone \in BOOLEAN
    BY Zenon DEF Init
  <2>. QED  BY <2>2, <2>3 DEF Init, TypeOK
<1>2. TypeOK /\ [Next]_vars => TypeOK'
  <2> SUFFICES ASSUME TypeOK, [Next]_vars PROVE TypeOK'
    OBVIOUS
  <2> USE ClockAssumption DEF TypeOK
  <2>1. CASE Producer
    <3> USE DEF clockVars, consVars
    <3>1. CASE Begin  BY <3>1 DEF Begin
    <3>2. CASE Emit  BY <3>2 DEF Emit, prodVars, Items, Progress
    <3>3. CASE StartWrite  BY <3>3 DEF StartWrite
    <3>4. CASE ThreadCommits  BY <3>4 DEF ThreadCommits
    <3>5. CASE GraphReturns  BY <3>5 DEF GraphReturns
    <3>6. ASSUME NEW text \in {"text", "empty"}, StoreReply(text) PROVE TypeOK'
      BY <3>6 DEF StoreReply
    <3>7. CASE Conclude  BY <3>7 DEF Conclude, FinishWith, Items, Endings
    <3>8. CASE TurnRaises  BY <3>8 DEF TurnRaises, FinishWith, Items, Endings
    <3>9. CASE StoreRaises  BY <3>9 DEF StoreRaises, FinishWith, Items, Endings
    <3>10. CASE Cancelled  BY <3>10 DEF Cancelled, Items
    <3>. QED  BY <2>1, <3>1, <3>2, <3>3, <3>4, <3>5, <3>6, <3>7, <3>8, <3>9, <3>10 DEF Producer
  <2>2. CASE Start
    BY <2>2 DEF Start, prodVars
  <2>3. ASSUME Take PROVE TypeOK'
    <3>1. Head(queue) \in Items /\ queue' \in Seq(Items)
      BY <2>3, HeadTailProperties DEF Take
    <3>2. CASE Head(queue) = Sentinel
      BY <2>3, <3>1, <3>2 DEF Take, Leave, clockVars, prodVars
    <3>3. CASE Head(queue) # Sentinel
      <4>1. Head(queue) \in {Progress, "timeout"} \cup Endings
        BY <3>1, <3>3 DEF Items
      <4>2. ending' = Seen(Head(queue))
        BY <2>3, <3>3 DEF Take
      <4>3. ending' \in Seq({Progress, "timeout"} \cup Endings)
        BY <4>1, <4>2 DEF Seen
      <4>. QED  BY <2>3, <3>1, <3>3, <4>3 DEF Take, clockVars, prodVars
    <3>. QED  BY <3>2, <3>3
  <2>4. ASSUME Expire PROVE TypeOK'
    BY <2>4 DEF Expire, Leave, Seen, clockVars, prodVars
  <2>5. ASSUME Wait PROVE TypeOK'
    BY <2>5 DEF Wait, prodVars
  <2>6. CASE Disconnect
    BY <2>6 DEF Disconnect, Leave, clockVars, prodVars
  <2>7. CASE Tick
    BY <2>7 DEF Tick, consVars, prodVars
  <2>8. CASE UNCHANGED vars
    BY <2>8 DEF vars, clockVars, consVars, prodVars
  <2>. QED
    BY <2>1, <2>2, <2>3, <2>4, <2>5, <2>6, <2>7, <2>8
       DEF Next, Consumer, ResumeExpired, ResumeTakes, ResumeWaits, Woken, TimedOut
<1>. QED  BY <1>1, <1>2, PTL DEF Spec

-----------------------------------------------------------------------------
(* The inductive invariant.  The producer's steps append to the queue, the
   generator's take from it: the two lemmas split the next-state relation. *)

\* The producer's steps, its worker thread's included.
LEMMA ProducerKeepsIInv ==
    ASSUME IInv, TypeOK', Producer
    PROVE  IInv'
<1> USE DEF IInv, TypeOK, clockVars, consVars
<1>1. UNCHANGED <<now, prazo, waitUntil, cons, cancelReq, ending, gone>>
  BY DEF Producer, Begin, Emit, StartWrite, ThreadCommits, GraphReturns, StoreReply,
         Conclude, TurnRaises, StoreRaises, FinishWith, Cancelled, prodVars
<1>2. ClockInv' /\ EndingInv'
  BY <1>1 DEF ClockInv, EndingInv
<1>3. ASSUME UNCHANGED queue, prod' \in Working, prod \in Working, UNCHANGED reply
      PROVE  QueueInv'
  BY <1>1, <1>3 DEF QueueInv, Working
<1>4. ASSUME NEW event \in Endings, FinishWith(event), prod \in Working, ~cancelReq,
             event = "done" => reply' = "text"
      PROVE  CancelInv' /\ QueueInv' /\ ReplyInv'
  <2>1. ending = <<>> /\ AllProgress(queue) /\ cons # "ended"
    BY <1>4 DEF CancelInv, QueueInv
  <2>2. Closing(queue') /\ queue'[Len(queue') - 1] = event
    BY <1>4, <2>1, ClosingQueue DEF FinishWith
  <2>. QED  BY <1>1, <1>4, <2>1, <2>2 DEF CancelInv, QueueInv, ReplyInv, FinishWith, Working
<1>5. CASE Begin
  BY <1>1, <1>2, <1>3, <1>5 DEF Begin, CancelInv, ReplyInv, Working
<1>6. CASE Emit
  <2>1. CancelInv' /\ ReplyInv'
    BY <1>1, <1>6 DEF Emit, prodVars, CancelInv, ReplyInv
  <2>2. AllProgress(queue')
    BY <1>6, AppendProgress DEF Emit, Alive, CancelInv, QueueInv, Working
  <2>. QED  BY <1>1, <1>2, <1>6, <2>1, <2>2 DEF Emit, prodVars, QueueInv, Working
<1>7. CASE StartWrite
  BY <1>1, <1>2, <1>3, <1>7 DEF StartWrite, CancelInv, ReplyInv, Working
<1>8. CASE ThreadCommits
  BY <1>1, <1>2, <1>8 DEF ThreadCommits, CancelInv, ReplyInv, QueueInv
<1>9. CASE GraphReturns
  BY <1>1, <1>2, <1>3, <1>9 DEF GraphReturns, CancelInv, ReplyInv, Working
<1>10. ASSUME NEW text \in {"text", "empty"}, StoreReply(text) PROVE IInv'
  BY <1>1, <1>2, <1>10 DEF StoreReply, CancelInv, ReplyInv, QueueInv, Working
<1>11. CASE Conclude
  <2>1. PICK event \in Endings : FinishWith(event) /\ (event = "done" => reply' = "text")
    BY <1>11 DEF Conclude, Endings
  <2>. QED  BY <1>2, <1>4, <1>11, <2>1 DEF Conclude, Alive, Working
<1>12. CASE TurnRaises
  BY <1>2, <1>4, <1>12 DEF TurnRaises, Alive, Working, Endings
<1>13. CASE StoreRaises
  BY <1>2, <1>4, <1>13 DEF StoreRaises, Alive, Working, Endings
<1>14. CASE Cancelled
  BY <1>1, <1>2, <1>14 DEF Cancelled, CancelInv, ReplyInv, QueueInv, Working
<1>. QED
  BY <1>5, <1>6, <1>7, <1>8, <1>9, <1>10, <1>11, <1>12, <1>13, <1>14 DEF Producer

\* The generator takes an item, whichever await it was suspended in.
LEMMA TakeKeepsIInv ==
    ASSUME IInv, TypeOK', Take, cons \in {"waiting", "sending"}
    PROVE  IInv'
<1> USE DEF IInv, TypeOK, clockVars, prodVars
<1>1. UNCHANGED <<now, prazo, waitUntil, prod, reply, gone>> /\ queue' = Tail(queue)
  BY DEF Take
<1>2. CASE prod \in Working
  <2>1. Head(queue) = Progress /\ AllProgress(queue') /\ ending = <<>>
    BY <1>1, <1>2, TailOfProgress DEF Take, QueueInv
  <2>2. cons' = "sending" /\ ending' = <<>> /\ UNCHANGED cancelReq
    BY <2>1 DEF Take, Seen, Progress, Sentinel
  <2>. QED
    BY <1>1, <1>2, <2>1, <2>2 DEF ClockInv, CancelInv, EndingInv, QueueInv, ReplyInv, Working
<1>3. CASE prod = "finished" /\ ending = <<>>
  <2>1. Closing(queue) /\ (queue[Len(queue) - 1] = "done" => reply = "text")
    BY <1>3 DEF QueueInv
  <2>2. CASE Head(queue) = Progress
    <3>1. cons' = "sending" /\ ending' = <<>> /\ UNCHANGED cancelReq
      BY <1>3, <2>2 DEF Take, Seen, Progress, Sentinel
    <3>2. Closing(queue') /\ queue'[Len(queue') - 1] = queue[Len(queue) - 1]
      BY <1>1, <2>1, <2>2, TailOfClosing DEF Progress, Endings
    <3>. QED
      BY <1>1, <1>3, <2>1, <3>1, <3>2
         DEF ClockInv, CancelInv, EndingInv, QueueInv, ReplyInv, Working
  <2>3. CASE Head(queue) # Progress
    <3>1. Head(queue) \in Endings /\ Closed(queue')
      BY <1>1, <2>1, <2>3, TailOfClosing
    <3>2. cons' = "sending" /\ ending' \in {<<"done">>, <<"error">>} /\ UNCHANGED cancelReq
      BY <1>3, <3>1, <2>3 DEF Take, Seen, Sentinel, Endings
    <3>. QED
      BY <1>1, <1>3, <3>1, <3>2
         DEF ClockInv, CancelInv, EndingInv, QueueInv, ReplyInv, Working
  <2>. QED  BY <2>2, <2>3
<1>4. CASE prod = "finished" /\ ending # <<>>
  <2>1. ending \in {<<"done">>, <<"error">>} /\ Closed(queue)
    BY <1>4 DEF QueueInv
  <2>2. cons' = "ended" /\ cancelReq' = TRUE /\ UNCHANGED ending
    BY <2>1 DEF Take, Leave, Closed
  <2>3. Len(ending) >= 1 /\ ending[1] \in {"done", "error", "timeout"}
    BY <2>1
  <2>. QED
    BY <1>1, <1>4, <2>2, <2>3 DEF ClockInv, CancelInv, EndingInv, QueueInv, ReplyInv
<1>5. prod \in Working \cup {"finished"}
  BY DEF CancelInv, Working
<1>. QED  BY <1>2, <1>3, <1>4, <1>5

\* The generator sends the timeout and leaves.
LEMMA ExpireKeepsIInv ==
    ASSUME IInv, TypeOK', Expire, cons \in {"waiting", "sending"}
    PROVE  IInv'
<1> USE DEF IInv, TypeOK, clockVars, prodVars
<1>1. UNCHANGED <<now, prazo, waitUntil, prod, reply, gone, queue>>
      /\ cons' = "ended" /\ cancelReq' = TRUE
  BY DEF Expire, Leave
<1>2. ending \in {<<>>, <<"done">>, <<"error">>}
  BY DEF CancelInv, QueueInv, Working
<1>3. ending' = Append(ending, "timeout")
  BY DEF Expire, Seen, Progress
<1>4. Len(ending') >= 1 /\ ending'[1] \in {"done", "error", "timeout"}
  BY <1>2, <1>3
<1>. QED  BY <1>1, <1>4 DEF ClockInv, CancelInv, EndingInv, QueueInv, ReplyInv

\* Every step keeps the invariant.
LEMMA StepKeepsIInv ==
    ASSUME IInv, TypeOK', [Next]_vars
    PROVE  IInv'
<1> USE DEF IInv, TypeOK
<1>1. CASE Producer
  BY <1>1, ProducerKeepsIInv
<1>2. CASE Start
  BY <1>2, ClockAssumption
     DEF Start, prodVars, ClockInv, CancelInv, EndingInv, QueueInv, ReplyInv
<1>3. CASE ResumeExpired \/ TimedOut
  BY <1>3, ExpireKeepsIInv DEF ResumeExpired, TimedOut
<1>4. CASE ResumeTakes \/ Woken
  BY <1>4, TakeKeepsIInv DEF ResumeTakes, Woken
<1>5. CASE ResumeWaits
  BY <1>5, ClockAssumption
     DEF ResumeWaits, Wait, prodVars, ClockInv, CancelInv, EndingInv, QueueInv, ReplyInv
<1>6. CASE Disconnect
  BY <1>6 DEF Disconnect, Leave, clockVars, prodVars,
              ClockInv, CancelInv, EndingInv, QueueInv, ReplyInv
<1>7. CASE Tick
  BY <1>7 DEF Tick, consVars, prodVars, ClockInv, CancelInv, EndingInv, QueueInv, ReplyInv
<1>8. CASE UNCHANGED vars
  BY <1>8 DEF vars, clockVars, consVars, prodVars,
              ClockInv, CancelInv, EndingInv, QueueInv, ReplyInv
<1>. QED
  BY <1>1, <1>2, <1>3, <1>4, <1>5, <1>6, <1>7, <1>8 DEF Next, Consumer

(* IInv holds in every reachable state. *)
THEOREM Invariance == Spec => []IInv
<1>1. Init /\ TypeOK => IInv
  <2> SUFFICES ASSUME Init, TypeOK PROVE IInv
    OBVIOUS
  <2>1. CancelInv
    BY Zenon DEF Init, CancelInv
  <2>2. AllProgress(queue)
    BY DEF Init, AllProgress
  <2>3. ClockInv /\ EndingInv /\ QueueInv /\ ReplyInv
    BY <2>2 DEF Init, ClockInv, EndingInv, QueueInv, ReplyInv
  <2>. QED  BY <2>1, <2>3 DEF IInv
<1>2. IInv /\ TypeOK' /\ [Next]_vars => IInv'
  BY StepKeepsIInv
<1>. QED  BY <1>1, <1>2, TypeCorrect, PTL DEF Spec

(* The generator takes nothing from the queue after the deadline. *)
THEOREM DeadlineCutsHolds == Spec => DeadlineCuts
<1>1. IInv /\ TypeOK' /\ [Next]_vars => [Len(queue') < Len(queue) => now <= prazo]_queue
  <2> SUFFICES ASSUME IInv, TypeOK', Next, Len(queue') < Len(queue)
               PROVE  now <= prazo
    BY DEF vars
  <2> USE DEF IInv, TypeOK
  <2>1. CASE Producer
    <3>1. Len(queue') >= Len(queue)
      BY <2>1 DEF Producer, Begin, Emit, StartWrite, ThreadCommits, GraphReturns, StoreReply,
                  Conclude, TurnRaises, StoreRaises, FinishWith, Cancelled, Items, Endings
    <3>. QED  BY <3>1
  <2>2. CASE ResumeTakes
    BY <2>2 DEF ResumeTakes
  <2>3. CASE Woken
    BY <2>3 DEF Woken, ClockInv
  <2>4. CASE Start \/ ResumeExpired \/ ResumeWaits \/ TimedOut \/ Disconnect \/ Tick
    <3>1. UNCHANGED queue
      BY <2>4 DEF Start, ResumeExpired, ResumeWaits, TimedOut, Expire, Wait, Disconnect, Tick
    <3>. QED  BY <3>1
  <2>. QED  BY <2>1, <2>2, <2>3, <2>4 DEF Next, Consumer
<1>. QED  BY <1>1, Invariance, TypeCorrect, PTL DEF Spec, DeadlineCuts

\* After the end of the stream no write begins: the one a thread may be
\* executing is the only one still to be committed.
LateInv ==
    /\ cons # "ended" => late = 0
    /\ thread = "writing" => late = 0
    /\ late <= 1

(* A write committed after the end of the stream was the only one: the cancelled
   producer starts no other. *)
THEOREM OneWriteOutlivesHolds == Spec => []OneWriteOutlives
<1>1. Init => LateInv
  BY DEF Init, LateInv
<1>2. IInv /\ LateInv /\ [Next]_vars => LateInv'
  <2> SUFFICES ASSUME IInv, LateInv, [Next]_vars PROVE LateInv'
    OBVIOUS
  <2> USE DEF IInv, TypeOK, LateInv
  <2>1. CASE Producer
    <3>1. CASE StartWrite
      BY <3>1 DEF StartWrite, Alive, CancelInv, consVars
    <3>2. CASE ThreadCommits
      BY <3>2 DEF ThreadCommits, consVars
    <3>3. UNCHANGED <<cons, thread, late>> \/ StartWrite \/ ThreadCommits
      BY <2>1 DEF Producer, Begin, Emit, GraphReturns, StoreReply, Conclude, TurnRaises,
                  StoreRaises, FinishWith, Cancelled, consVars, prodVars
    <3>. QED  BY <3>1, <3>2, <3>3
  <2>2. CASE Consumer \/ Disconnect \/ Tick
    BY <2>2 DEF Consumer, Start, ResumeExpired, ResumeTakes, ResumeWaits, Woken, TimedOut, Take,
                Expire, Wait, Leave, Disconnect, Tick, prodVars, consVars
  <2>3. CASE UNCHANGED vars
    BY <2>3 DEF vars, consVars, prodVars
  <2>. QED  BY <2>1, <2>2, <2>3 DEF Next
<1>3. LateInv => OneWriteOutlives
  BY DEF LateInv, OneWriteOutlives
<1>. QED  BY <1>1, <1>2, <1>3, Invariance, PTL DEF Spec

-----------------------------------------------------------------------------
(* RunStream implements EventStream: whatever the turn does and however the
   client reads, it sees a stream the abstract specification allows. *)
THEOREM ImplementsEventStream == Spec => StreamPromise
<1> USE DEF Promise!Init, Promise!Next, Promise!streamVars, Promise!Store, Promise!Answer,
            Promise!Refuse, Promise!Expire, Promise!Close, Promise!Leave
<1>1. Init => Promise!Init
  BY DEF Init
<1>2. IInv /\ TypeOK' /\ [Next]_vars => [Promise!Next]_(Promise!streamVars)
  <2> SUFFICES ASSUME IInv, [Next]_vars
               PROVE  Promise!Next \/ UNCHANGED Promise!streamVars
    OBVIOUS
  <2> USE DEF IInv, TypeOK, clockVars, consVars, prodVars
  <2>1. CASE Producer
    <3>1. UNCHANGED <<cons, gone, ending>>
      BY <2>1 DEF Producer, Begin, Emit, StartWrite, ThreadCommits, GraphReturns, StoreReply,
                  Conclude, TurnRaises, StoreRaises, FinishWith, Cancelled
    <3>2. UNCHANGED reply \/ (reply = "none" /\ reply' \in {"text", "empty"})
      <4>1. CASE StoreRaises
        BY <4>1 DEF StoreRaises, Alive, ReplyInv, CancelInv
      <4>. QED
        BY <2>1, <4>1 DEF Producer, Begin, Emit, StartWrite, ThreadCommits, GraphReturns,
                          StoreReply, Conclude, TurnRaises, Cancelled
    <3>. QED  BY <3>1, <3>2
  <2>2. CASE Start
    BY <2>2 DEF Start
  <2>3. ASSUME Expire, cons \in {"waiting", "sending"}
        PROVE  Promise!Expire
    <3>1. ending \in {<<>>, <<"done">>, <<"error">>} /\ ending' = Append(ending, "timeout")
      BY <2>3 DEF EndingInv, Expire, Seen, Progress
    <3>. QED  BY <2>3, <3>1 DEF Expire, Leave
  <2>4. ASSUME Take, cons \in {"waiting", "sending"}
        PROVE  Promise!Next \/ UNCHANGED Promise!streamVars
    <3>1. CASE prod \in Working
      <4>1. Head(queue) = Progress /\ ending = <<>>
        BY <2>4, <3>1, TailOfProgress DEF Take, QueueInv
      <4>. QED  BY <2>4, <4>1 DEF Take, Seen, Progress, Sentinel
    <3>2. CASE prod = "finished" /\ ending = <<>>
      <4>1. Closing(queue) /\ (queue[Len(queue) - 1] = "done" => reply = "text")
        BY <2>4, <3>2 DEF QueueInv
      <4>2. CASE Head(queue) = Progress
        BY <2>4, <3>2, <4>2 DEF Take, Seen, Progress, Sentinel
      <4>3. CASE Head(queue) # Progress
        <5>1. Head(queue) \in Endings /\ Head(queue) = queue[Len(queue) - 1]
          BY <4>1, <4>3, TailOfClosing
        <5>2. ending' = Append(<<>>, Head(queue)) /\ cons' # "ended"
          BY <2>4, <3>2, <4>3, <5>1 DEF Take, Seen, Sentinel, Endings
        <5>3. Append(<<>>, "done") = <<"done">> /\ Append(<<>>, "error") = <<"error">>
          OBVIOUS
        <5>. QED  BY <2>4, <3>2, <4>1, <5>1, <5>2, <5>3 DEF Take, Endings
      <4>. QED  BY <4>2, <4>3
    <3>3. CASE prod = "finished" /\ ending # <<>>
      <4>1. Closed(queue)
        BY <2>4, <3>3 DEF QueueInv
      <4>. QED  BY <2>4, <3>3, <4>1 DEF Take, Leave, Closed
    <3>. QED  BY <2>4, <3>1, <3>2, <3>3 DEF CancelInv, Working
  <2>5. CASE ResumeWaits
    BY <2>5 DEF ResumeWaits, Wait
  <2>6. CASE Disconnect
    BY <2>6 DEF Disconnect, Leave
  <2>7. CASE Tick
    BY <2>7 DEF Tick
  <2>8. CASE UNCHANGED vars
    BY <2>8 DEF vars
  <2>. QED
    BY <2>1, <2>2, <2>3, <2>4, <2>5, <2>6, <2>7, <2>8
       DEF Next, Consumer, ResumeExpired, ResumeTakes, Woken, TimedOut
<1>. QED
  BY <1>1, <1>2, Invariance, TypeCorrect, PTL DEF Spec, StreamPromise, Promise!Spec

-----------------------------------------------------------------------------
(* What a client may conclude from EventStream alone, whatever implements it. *)
ClientMayConclude ==
    /\ ending \in Seq({"done", "error", "timeout"}) /\ Len(ending) <= 2
    /\ Len(ending) = 2 => ending[1] \in {"done", "error"} /\ ending[2] = "timeout"
    /\ ending # <<>> /\ ending[1] = "done" => reply = "text"
    /\ cons = "ended" /\ ~gone => ending # <<>>

\* Every step that EventStream allows keeps it.
LEMMA PromiseKeepsConclusions ==
    ASSUME ClientMayConclude, [Promise!Next]_(Promise!streamVars)
    PROVE  ClientMayConclude'
<1> USE DEF ClientMayConclude
<1>1. ASSUME NEW text \in {"text", "empty"}, Promise!Store(text)  PROVE ClientMayConclude'
  BY <1>1 DEF Promise!Store
<1>2. CASE Promise!Answer
  BY <1>2 DEF Promise!Answer
<1>3. CASE Promise!Refuse
  BY <1>3 DEF Promise!Refuse
<1>4. CASE Promise!Expire
  <2>1. /\ ending' = Append(ending, "timeout") /\ UNCHANGED <<gone, reply>>
        /\ ending = <<>> \/ (Len(ending) = 1 /\ ending[1] \in {"done", "error"})
    BY <1>4 DEF Promise!Expire
  <2>2. /\ ending' \in Seq({"done", "error", "timeout"}) /\ Len(ending') = Len(ending) + 1
        /\ ending'[Len(ending) + 1] = "timeout"
        /\ \A i \in 1..Len(ending) : ending'[i] = ending[i]
    BY <2>1
  <2> QED  BY <2>1, <2>2
<1>5. CASE Promise!Close
  BY <1>5 DEF Promise!Close
<1>6. CASE Promise!Leave
  BY <1>6 DEF Promise!Leave
<1>7. CASE UNCHANGED Promise!streamVars
  BY <1>7 DEF Promise!streamVars
<1> QED
  BY <1>1, <1>2, <1>3, <1>4, <1>5, <1>6, <1>7 DEF Promise!Next

(* The client of a run receives at most one of "done" and "error", a timeout only
   as the last event, a "done" only for a reply that is in the conversation, and
   some ending unless it left.  The proof looks at EventStream, not at the
   queue and the clocks that implement it. *)
THEOREM ClientConcludes == Spec => []ClientMayConclude
<1>1. Promise!Init => ClientMayConclude
  BY DEF Promise!Init, ClientMayConclude
<1>2. ClientMayConclude /\ [Promise!Next]_(Promise!streamVars) => ClientMayConclude'
  BY PromiseKeepsConclusions
<1> QED  BY <1>1, <1>2, ImplementsEventStream, PTL DEF StreamPromise, Promise!Spec
=============================================================================
