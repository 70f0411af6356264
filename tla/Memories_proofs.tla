--------------------------- MODULE Memories_proofs ---------------------------
(***************************************************************************)
(* Safety of module Memories for every number of tasks, window, bound and  *)
(* set of wordings.                                                        *)
(***************************************************************************)
EXTENDS Memories, TLAPS

\* A task at work has a cursor that the row has reached, and every message the
\* row marks was new to a task that finished.
CursorInv ==
    /\ \A t \in Tasks : pc[t] \in {"extracting", "storing"} => lidas[t] <= cursor
    /\ 1..cursor \subseteq covered

\* What a task is storing comes from the messages it found unread, and it holds
\* nothing to insert before it has looked something up.
FactsInv ==
    \A t \in Tasks :
      /\ pc[t] \in {"loaded", "extracting"} => novel[t] = {}
      /\ pc[t] = "storing" =>
            \A fact \in facts[t] \cup novel[t] : lidas[t] < fact.msg /\ fact.msg <= total[t]

\* A task that has marked stays so, the row has reached its messages, and a task
\* that began after it reads the row beyond them.
MarkedInv ==
    \A t \in Tasks :
        /\ pc[t] = "marked" => total[t] <= cursor
        /\ \A u \in after[t] :
              /\ pc[u] = "marked"
              /\ pc[t] \in {"extracting", "storing"} => total[u] <= lidas[t]

\* A memory comes from within the thread its task loaded, beyond the threads of
\* the tasks that had marked when it began.
MemoryInv ==
    \A m \in memories :
        /\ m.msg <= total[m.by]
        /\ \A u \in m.after : pc[u] = "marked" /\ total[u] < m.msg

AfterType == after \in [Tasks -> SUBSET Tasks]

IInv == TypeOK /\ AfterType /\ CursorInv /\ FactsInv /\ MarkedInv /\ MemoryInv

-----------------------------------------------------------------------------
\* The invariant holds on an empty thread.
LEMMA InitIInv == Init => IInv
BY MemoriesAssumption
   DEF Init, IInv, TypeOK, AfterType, CursorInv, FactsInv, MarkedInv, MemoryInv, Facts

\* What a model is shown are messages of the thread that the task found unread.
LEMMA SeenIsUnread ==
    ASSUME TypeOK, NEW t \in Tasks, NEW m \in Seen(t)
    PROVE  /\ m \in 1..MaxMessages
           /\ lidas[t] < m /\ m <= total[t]
<1>1. lidas[t] \in 0..length /\ total[t] \in 0..length /\ length \in 0..MaxMessages
  BY DEF TypeOK
<1>2. m \in (lidas[t] + 1)..total[t]
  BY DEF Seen, Unread
<1> QED  BY <1>1, <1>2, MemoriesAssumption

\* The types of a state and of its successor, cited by the lemmas that follow.
LEMMA StepKeepsTypes ==
    ASSUME TypeOK, AfterType, [Next]_vars
    PROVE  TypeOK' /\ AfterType'
<1> USE MemoriesAssumption DEF TypeOK, AfterType, Facts, thread, Goto
<1>1. CASE Converse  BY <1>1 DEF Converse
<1>2. ASSUME NEW t \in Tasks, Load(t)  PROVE TypeOK' /\ AfterType'
  BY <1>2 DEF Load
<1>3. ASSUME NEW t \in Tasks, ReadCursor(t)  PROVE TypeOK' /\ AfterType'
  BY <1>3 DEF ReadCursor
<1>4. ASSUME NEW t \in Tasks, ExtractNothingUsable(t)  PROVE TypeOK' /\ AfterType'
  BY <1>4 DEF ExtractNothingUsable
<1>5. ASSUME NEW t \in Tasks, Mark(t)  PROVE TypeOK' /\ AfterType'
  BY <1>5 DEF Mark
<1>6. ASSUME NEW t \in Tasks, Lost(t)  PROVE TypeOK' /\ AfterType'
  BY <1>6 DEF Lost
<1>7. ASSUME NEW t \in Tasks, NEW messages \in SUBSET Seen(t), NEW w \in Wordings,
             Extract(t, messages, w)
      PROVE  TypeOK' /\ AfterType'
  <2>1. messages \subseteq 1..MaxMessages
    BY SeenIsUnread
  <2>2. {[msg |-> m, wording |-> w] : m \in messages} \subseteq Facts
    BY <2>1
  <2>3. facts' \in [Tasks -> SUBSET Facts]
    BY <1>7, <2>2 DEF Extract
  <2> QED  BY <1>7, <2>3 DEF Extract
<1>8. ASSUME NEW t \in Tasks, NEW fact \in facts[t], CheckFact(t, fact)
      PROVE  TypeOK' /\ AfterType'
  BY <1>8 DEF CheckFact
<1>9. ASSUME NEW t \in Tasks, NEW fact \in novel[t], StoreFact(t, fact)
      PROVE  TypeOK' /\ AfterType'
  BY <1>9 DEF StoreFact
<1>10. CASE UNCHANGED vars  BY <1>10 DEF vars
<1> QED  BY <1>1, <1>2, <1>3, <1>4, <1>5, <1>6, <1>7, <1>8, <1>9, <1>10 DEF Next

\* A step keeps the order of cursors, tasks and memories.
LEMMA StepKeepsOrder ==
    ASSUME IInv, TypeOK', AfterType', [Next]_vars
    PROVE  CursorInv' /\ FactsInv' /\ MarkedInv' /\ MemoryInv'
<1> DEFINE Goal == CursorInv' /\ FactsInv' /\ MarkedInv' /\ MemoryInv'
<1> USE DEF IInv, TypeOK, AfterType, CursorInv, FactsInv, MarkedInv, MemoryInv, thread, Goto
<1>1. CASE Converse  BY <1>1 DEF Converse
<1>2. ASSUME NEW t \in Tasks, Load(t)  PROVE Goal
  BY <1>2 DEF Load
<1>3. ASSUME NEW t \in Tasks, ReadCursor(t)  PROVE Goal
  BY <1>3 DEF ReadCursor
<1>4. ASSUME NEW t \in Tasks, ExtractNothingUsable(t)  PROVE Goal
  BY <1>4 DEF ExtractNothingUsable
<1>5. ASSUME NEW t \in Tasks, Mark(t)  PROVE Goal
  BY <1>5 DEF Mark, Unread
<1>6. ASSUME NEW t \in Tasks, Lost(t)  PROVE Goal
  BY <1>6 DEF Lost
<1>7. ASSUME NEW t \in Tasks, NEW messages \in SUBSET Seen(t), NEW w \in Wordings,
             Extract(t, messages, w)
      PROVE  Goal
  <2>1. FactsInv'
    <3> SUFFICES ASSUME NEW u \in Tasks, pc'[u] = "storing",
                        NEW fact \in facts'[u] \cup novel'[u]
                 PROVE  lidas'[u] < fact.msg /\ fact.msg <= total'[u]
      BY <1>7 DEF FactsInv, Extract
    <3>1. CASE u # t  BY <1>7, <3>1 DEF Extract
    <3>2. CASE u = t
      <4>1. fact \in {[msg |-> m, wording |-> w] : m \in messages} \/ fact \in novel[t]
        BY <1>7, <3>2 DEF Extract
      <4>2. CASE fact \in novel[t]
        BY <1>7, <3>2, <4>2 DEF Extract
      <4>3. ASSUME NEW m \in messages, fact = [msg |-> m, wording |-> w]
            PROVE  lidas'[u] < fact.msg /\ fact.msg <= total'[u]
        BY <1>7, <3>2, <4>3, SeenIsUnread DEF Extract
      <4> QED  BY <4>1, <4>2, <4>3
    <3> QED  BY <3>1, <3>2
  <2> QED  BY <1>7, <2>1 DEF Extract
<1>8. ASSUME NEW t \in Tasks, NEW fact \in facts[t], CheckFact(t, fact)  PROVE Goal
  BY <1>8 DEF CheckFact
<1>9. ASSUME NEW t \in Tasks, NEW fact \in novel[t], StoreFact(t, fact)  PROVE Goal
  BY <1>9 DEF StoreFact
<1>10. CASE UNCHANGED vars  BY <1>10 DEF vars
<1> QED  BY <1>1, <1>2, <1>3, <1>4, <1>5, <1>6, <1>7, <1>8, <1>9, <1>10 DEF Next

\* The inductive invariant of the extraction tasks.
THEOREM Invariance == Spec => []IInv
<1>1. IInv /\ [Next]_vars => IInv'
  BY StepKeepsTypes, StepKeepsOrder DEF IInv
<1> QED  BY InitIInv, <1>1, PTL DEF Spec

(* The types of the state, the cursor within the thread. *)
THEOREM TypeCorrect == Spec => []TypeOK
<1>1. IInv => TypeOK  BY DEF IInv
<1> QED  BY Invariance, <1>1, PTL

(* What is marked as read was new to a task that finished, for any number of
   tasks of one thread. *)
THEOREM NothingMarkedUnreadHolds == Spec => []NothingMarkedUnread
<1>1. IInv => NothingMarkedUnread  BY DEF IInv, CursorInv, NothingMarkedUnread
<1> QED  BY Invariance, <1>1, PTL

(* No two tasks of which one began after the other had marked take from the same
   message. *)
THEOREM ReadOnceHolds == Spec => []ReadOnce
<1>1. IInv => ReadOnce
  BY DEF IInv, TypeOK, MemoryInv, ReadOnce
<1> QED  BY Invariance, <1>1, PTL

(* No step of any task moves the cursor back. *)
THEOREM CursorNeverGoesBackHolds == Spec => CursorNeverGoesBack
<1>1. TypeOK /\ [Next]_vars => [cursor' >= cursor]_cursor
  BY DEF TypeOK, vars, thread, Next, Converse, Load, ReadCursor, ExtractNothingUsable,
         Mark, Lost, Extract, CheckFact, StoreFact
<1> QED  BY TypeCorrect, <1>1, PTL DEF Spec, CursorNeverGoesBack
=============================================================================
