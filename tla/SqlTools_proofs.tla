-------------------------- MODULE SqlTools_proofs --------------------------
(***************************************************************************)
(* Reads and writes of a turn, for every number of sources, statements and *)
(* writing calls and any length of a batch.                                *)
(***************************************************************************)
EXTENDS SqlTools, TLAPS

\* Writing calls that have begun.
Begun == Len(sizes)

Types ==
    /\ rows \in [Sources -> SUBSET UNION Range(rows)] /\ lastId \in [Sources -> Nat]
    /\ batch \in Seq(Statements) /\ sizes \in Seq(Nat)

\* The calls the database knows of: those that were reported, and the one in
\* progress once it has committed.
CallsInv ==
    /\ \A r \in Committed : r.call \in 0..(IF pc = "committed" THEN Begun ELSE Called)
    /\ pc # "idle" => sizes[Begun] = Len(batch)

\* What is staged is what has been executed, and what was committed is the batch.
StagedInv ==
    /\ pc = "executing" =>
          /\ {r.pos : r \in staged} = 1..Len(results)
          /\ \A r \in staged : r.call = Begun
    /\ pc = "committed" => {r.pos : r \in Written(Begun)} = 1..sizes[Begun]

\* An insert of S at place i or before it gave out this id.
GivenBy(S, i, id) == \E p \in S : p.pos <= i /\ p.stmt.verb = "insert" /\ p.id = id

\* An id returned to the batch is one the batch was given, and the statements
\* that name it name a row of the batch.
ParentInv ==
    pc = "executing" =>
      /\ \A i \in DOMAIN results : results[i] # NoId => GivenBy(staged, i, results[i])
      /\ \A r \in staged : r.stmt.ref # 0 => GivenBy(staged, r.stmt.ref, r.parent)

\* Rows that the model was told it has written.
Promised(s) == {r \in rows[s] : r.call # 0 /\ r.call <= Called /\ told[r.call] = "ok"}

\* What is kept of a read has the rows promised on its source.
CacheInv ==
    \A k \in DOMAIN cache :
      \E q \in Questions :
        /\ Key(q) = k /\ cache[k].asked = q
        /\ Promised(q.source) \subseteq cache[k].seen

IInv ==
    /\ TypeOK /\ Types /\ CallsInv /\ StagedInv /\ ParentInv /\ CacheInv
    /\ AllOrNothing /\ OkIsWritten /\ ChildrenNameTheirParent

-----------------------------------------------------------------------------
(* Lemmas. *)

\* The rows of all sources, source by source.
LEMMA CommittedRows ==
    ASSUME DOMAIN rows = Sources
    PROVE  Committed = UNION {rows[s] : s \in Sources}
BY DEF Committed, Range

\* Rows added to one source are added to those of all.
LEMMA AddRows ==
    ASSUME Types, NEW s \in Sources, NEW new, rows' = [rows EXCEPT ![s] = @ \cup new]
    PROVE  Committed' = Committed \cup new /\ rows' \in [Sources -> SUBSET Committed']
<1>1. DOMAIN rows = Sources /\ DOMAIN rows' = Sources
  BY DEF Types
<1>2. Committed = UNION {rows[t] : t \in Sources}
  BY <1>1, CommittedRows
<1>3. Committed' = UNION {rows'[t] : t \in Sources}
  BY <1>1 DEF Committed, Range
<1>4. \A t \in Sources : rows'[t] = IF t = s THEN rows[t] \cup new ELSE rows[t]
  BY <1>1
<1>5. Committed' = Committed \cup new
  BY <1>2, <1>3, <1>4
<1>6. \A t \in Sources : rows'[t] \in SUBSET Committed'
  BY <1>3
<1> QED  BY <1>1, <1>5, <1>6

\* A placeholder that can be resolved has the id of an insert before it.
LEMMA ResolveGives ==
    ASSUME TypeOK, ParentInv, pc = "executing", NEW st \in Statements, Resolvable(st), st.ref # 0
    PROVE  GivenBy(staged, st.ref, Resolve(st))
BY DEF ParentInv, Resolvable, Resolve

\* While no batch has committed unreported, a row is that of a reported call or of
\* another writer.
LEMMA CallOfRow ==
    ASSUME Types, CallsInv, pc # "committed", NEW s \in Sources, NEW r \in rows[s]
    PROVE  r.call \in 0..Called
<1>1. r \in Committed
  BY CommittedRows DEF Types
<1> QED  BY <1>1 DEF CallsInv

LEMMA InitIInv == Init => IInv
<1> SUFFICES ASSUME Init PROVE IInv  OBVIOUS
<1>1. Committed = {}
  BY DEF Init, Committed, Range
<1>2. TypeOK /\ Types
  BY <1>1 DEF Init, TypeOK, Types, Called, Committed
<1> QED
  BY <1>1, <1>2 DEF Init, IInv, CallsInv, StagedInv, ParentInv, CacheInv, AllOrNothing,
                    OkIsWritten, ChildrenNameTheirParent, Called, Begun

-----------------------------------------------------------------------------
(* The steps. *)

\* A read changes what is kept and nothing else.
LEMMA ReadKeepsIInv ==
    ASSUME IInv, NEW q \in Questions, Reuse(q) \/ Read(q) \/ ReadFails(q)
    PROVE  IInv'
<1> USE DEF IInv
<1>1. UNCHANGED <<rows, lastId, work, told, sizes>>
  BY DEF Reuse, Read, ReadFails
<1>2. UNCHANGED <<Committed, Called, Begun>> /\ (\A c : UNCHANGED Written(c))
      /\ (\A s : UNCHANGED Promised(s))
  BY <1>1 DEF Committed, Called, Begun, Written, Promised
<1>3. CacheInv' /\ DOMAIN cache' \subseteq {Key(k) : k \in Questions}
  <2>1. CASE UNCHANGED cache
    BY <1>1, <1>2, <2>1 DEF CacheInv, TypeOK
  <2>2. CASE Read(q)
    <3> DEFINE result == [asked |-> q, seen |-> rows[q.source]]
    <3>1. cache' = [k \in DOMAIN cache \cup {Key(q)} |->
                      IF k = Key(q) THEN result ELSE cache[k]]
      BY <2>2 DEF Read
    <3>2. DOMAIN cache' = DOMAIN cache \cup {Key(q)} /\ cache'[Key(q)] = result
          /\ \A k \in DOMAIN cache : k # Key(q) => cache'[k] = cache[k]
      BY <3>1
    <3>3. Promised(q.source) \subseteq rows[q.source]
      BY DEF Promised
    <3> QED  BY <1>2, <3>2, <3>3 DEF CacheInv, TypeOK
  <2> QED  BY <2>1, <2>2 DEF Reuse, ReadFails
<1>4. TypeOK' /\ Types'
  BY <1>1, <1>2, <1>3 DEF TypeOK, Types, work, Accepted, Committed
<1> QED
  BY <1>1, <1>2, <1>3, <1>4 DEF CallsInv, StagedInv, ParentInv, AllOrNothing, OkIsWritten,
                                ChildrenNameTheirParent, work, GivenBy

\* A refused call is told "error", and has no row.
LEMMA RefuseKeepsIInv ==
    ASSUME IInv, NEW b \in BoundedSeq(Statements, MaxBatch), Refuse(b)
    PROVE  IInv'
<1> USE DEF IInv
<1>1. UNCHANGED <<rows, lastId, cache, work>> /\ pc = "idle"
  BY DEF Refuse
<1>2. UNCHANGED Committed /\ (\A c : UNCHANGED Written(c))
  BY <1>1 DEF Committed, Written
<1>3. told' = Append(told, "error") /\ sizes' = Append(sizes, Len(b)) /\ Len(b) \in Nat
  BY DEF Refuse, BoundedSeq, SeqOf
<1>4. Begun = Called /\ Called' = Called + 1 /\ Begun' = Called' /\ Called \in Nat
  BY <1>1, <1>3 DEF TypeOK, Types, Begun, Called
<1>5. Written(Called + 1) = {}
  BY <1>1, <1>4 DEF CallsInv, Written
<1>6. \A s \in Sources : UNCHANGED Promised(s)
  BY <1>1, <1>3, <1>4, CallOfRow DEF Promised, TypeOK, Called
<1>7. TypeOK' /\ Types'
  BY <1>1, <1>3, <1>4 DEF TypeOK, Types, work, Accepted, Begun
<1>8. AllOrNothing' /\ OkIsWritten'
  <2>1. \A c \in DOMAIN sizes' : c = Called + 1 \/ (c \in DOMAIN sizes /\ sizes'[c] = sizes[c])
    <3>1. sizes \in Seq(Nat) /\ Len(sizes) = Called
      BY <1>4 DEF Types, Begun
    <3> QED  BY <1>3, <1>4, <3>1
  <2>2. \A c \in DOMAIN told' :
            \/ c = Called + 1 /\ told'[c] = "error"
            \/ c \in DOMAIN told /\ c \in DOMAIN sizes /\ told'[c] = told[c]
    <3>1. told \in Seq({"ok", "error"}) /\ Len(told) = Called
      BY DEF TypeOK, Called
    <3>2. sizes \in Seq(Nat) /\ Len(sizes) = Called
      BY <1>4 DEF Types, Begun
    <3> QED  BY <1>3, <1>4, <3>1, <3>2
  <2>3. AllOrNothing'
    BY <1>2, <1>5, <2>1, Zenon DEF AllOrNothing
  <2>4. \A c \in DOMAIN sizes : sizes'[c] = sizes[c]
    BY <1>3 DEF Types
  <2>5. OkIsWritten'
    BY <1>2, <2>2, <2>4, Zenon DEF OkIsWritten
  <2> QED  BY <2>3, <2>5
<1>9. CallsInv'
  BY <1>1, <1>2, <1>4 DEF CallsInv, work
<1>10. StagedInv' /\ ParentInv' /\ CacheInv' /\ ChildrenNameTheirParent'
  BY <1>1, <1>2, <1>6, SqlAssumption
     DEF StagedInv, ParentInv, CacheInv, ChildrenNameTheirParent, work
<1> QED  BY <1>7, <1>8, <1>9, <1>10

\* A call that begins has no row yet.
LEMMA StartKeepsIInv ==
    ASSUME IInv, NEW b \in BoundedSeq(Statements, MaxBatch), NEW s \in Sources, Start(s, b)
    PROVE  IInv'
<1> USE DEF IInv
<1>1. UNCHANGED <<rows, lastId, cache, results, staged, told>> /\ pc = "idle" /\ pc' = "executing"
  BY DEF Start
<1>2. UNCHANGED <<Committed, Called>> /\ (\A c : UNCHANGED Written(c))
      /\ (\A t : UNCHANGED Promised(t))
  BY <1>1 DEF Committed, Written, Called, Promised
<1>3. sizes' = Append(sizes, Len(b)) /\ Len(b) \in Nat /\ batch' = b /\ b \in Seq(Statements)
      /\ source' = s
  BY DEF Start, BoundedSeq, SeqOf
<1>4. Begun = Called /\ Begun' = Called + 1 /\ Called \in Nat
  BY <1>1, <1>3 DEF TypeOK, Types, Begun, Called
<1>5. Written(Called + 1) = {}
  BY <1>1, <1>4 DEF CallsInv, Written
<1>6. TypeOK' /\ Types'
  BY <1>1, <1>2, <1>3, <1>4 DEF TypeOK, Types, Accepted, Start, Begun, Called
<1>7. AllOrNothing' /\ OkIsWritten'
  <2>1. \A c \in DOMAIN sizes' : c = Called + 1 \/ (c \in DOMAIN sizes /\ sizes'[c] = sizes[c])
    <3>1. sizes \in Seq(Nat) /\ Len(sizes) = Called
      BY <1>4 DEF Types, Begun
    <3> QED  BY <1>3, <1>4, <3>1
  <2>2. AllOrNothing'
    BY <1>2, <1>5, <2>1, Zenon DEF AllOrNothing
  <2>3. \A c \in DOMAIN told : sizes'[c] = sizes[c]
    BY <1>3, <1>4 DEF Types, TypeOK, Called, Begun
  <2>4. OkIsWritten'
    BY <1>1, <1>2, <2>3, Zenon DEF OkIsWritten
  <2> QED  BY <2>2, <2>4
<1>8. CallsInv'
  BY <1>1, <1>2, <1>3, <1>4 DEF CallsInv, Begun, Types
<1>9. StagedInv' /\ ParentInv'
  <2>1. results = <<>> /\ staged = {}
    BY <1>1 DEF TypeOK
  <2> QED  BY <1>1, <2>1 DEF StagedInv, ParentInv
<1>10. CacheInv' /\ ChildrenNameTheirParent'
  BY <1>1, <1>2 DEF CacheInv, ChildrenNameTheirParent
<1> QED  BY <1>6, <1>7, <1>8, <1>9, <1>10

\* A statement that runs is staged, with the id of an insert before it if it
\* names one, and returns the id of an insert at its place or before it.
LEMMA ExecuteKeepsIInv ==
    ASSUME IInv, Execute
    PROVE  IInv'
<1> USE DEF IInv
<1> DEFINE id == IF Current.verb = "insert" THEN lastId[source] + 1 ELSE NoId
<1>1. UNCHANGED <<rows, cache, pc, source, batch, answer, told, sizes>> /\ pc = "executing"
      /\ Resolvable(Current) /\ Position <= Len(batch)
      /\ staged' = staged \cup {Effect(Current, id)}
      /\ lastId' = [lastId EXCEPT ![source] = IF id = NoId THEN @ ELSE id]
      /\ results' = Append(results, Returned(Current, id))
  BY DEF Execute
<1>2. UNCHANGED <<Committed, Called, Begun>> /\ (\A c : UNCHANGED Written(c))
      /\ (\A t : UNCHANGED Promised(t))
  BY <1>1 DEF Committed, Written, Called, Promised, Begun
<1>3. source \in Sources /\ lastId[source] \in Nat /\ id \in Nat
  BY <1>1 DEF TypeOK, Types, NoId
<1>4. Len(results) \in Nat /\ Position = Len(results) + 1 /\ Position \in DOMAIN batch
      /\ Current \in Statements
  BY <1>1 DEF TypeOK, Types, Position, Current
<1>5. Current.ref \in Nat /\ Engine[source] \in {"postgresql", "mysql", "sqlite"}
      /\ (Current.returns => Current.verb = "insert")
  BY <1>3, <1>4, SqlAssumption
<1>6. Returned(Current, id) \in Nat
  BY <1>3, <1>5, <1>4 DEF Returned, NoId, TypeOK, Last
<1>7. results' \in Seq(Nat) /\ Len(results') = Position
      /\ results'[Position] = Returned(Current, id)
      /\ \A i \in DOMAIN results : results'[i] = results[i]
  BY <1>1, <1>4, <1>6 DEF TypeOK
<1>8. TypeOK' /\ Types'
  BY <1>1, <1>2, <1>3, <1>4, <1>7 DEF TypeOK, Types, Accepted
<1>9. StagedInv'
  <2>1. Effect(Current, id).pos = Position /\ Effect(Current, id).call = Called + 1
    BY DEF Effect
  <2>2. Begun = Called + 1
    BY <1>1 DEF TypeOK, Begun, Called
  <2>3. {r.pos : r \in staged'} = {r.pos : r \in staged} \cup {Position}
    BY <1>1, <2>1
  <2>4. {r.pos : r \in staged} = 1..Len(results) /\ \A r \in staged : r.call = Begun
    BY <1>1 DEF StagedInv
  <2>5. 1..Len(results') = (1..Len(results)) \cup {Position}
    BY <1>4, <1>7
  <2> QED  BY <1>1, <1>2, <2>1, <2>2, <2>3, <2>4, <2>5 DEF StagedInv
<1>10. ParentInv'
  <2>1. \A n, i : GivenBy(staged, n, i) => GivenBy(staged', n, i)
    BY <1>1 DEF GivenBy
  <2>2. Returned(Current, id) # NoId => GivenBy(staged', Position, Returned(Current, id))
    <3>1. CASE Returned(Current, id) = id /\ id # NoId
      <4>1. Effect(Current, id) \in staged' /\ Effect(Current, id).pos = Position
            /\ Effect(Current, id).stmt = Current /\ Effect(Current, id).id = id
        BY <1>1 DEF Effect
      <4>2. Current.verb = "insert"
        BY <3>1
      <4> QED  BY <1>4, <3>1, <4>1, <4>2 DEF GivenBy
    <3>2. CASE results # <<>> /\ Returned(Current, id) = results[Len(results)]
      <4>1. Len(results) \in DOMAIN results
        BY <1>4, <3>2 DEF TypeOK
      <4>2. Returned(Current, id) # NoId => GivenBy(staged, Len(results), Returned(Current, id))
        BY <1>1, <3>2, <4>1 DEF ParentInv
      <4>3. \A p \in staged : p.pos \in Nat
        <5>1. \A p \in staged : p.pos \in {r.pos : r \in staged}
          OBVIOUS
        <5>2. {r.pos : r \in staged} = 1..Len(results)
          BY <1>1 DEF StagedInv
        <5>3. \A i \in 1..Len(results) : i \in Nat
          BY <1>4
        <5> QED  BY <5>1, <5>2, <5>3
      <4>4. \A p \in staged : p.pos <= Len(results) => p.pos <= Position
        BY <1>4, <4>3
      <4> QED  BY <1>1, <4>2, <4>4 DEF GivenBy
    <3>3. CASE Returned(Current, id) = NoId
      BY <3>3
    <3> QED  BY <1>5, <3>1, <3>2, <3>3 DEF Returned, Last
  <2>3. \A i \in DOMAIN results' : results'[i] # NoId => GivenBy(staged', i, results'[i])
    <3>1. \A i \in DOMAIN results' : i \in DOMAIN results \/ i = Position
      BY <1>4, <1>7 DEF TypeOK
    <3>2. \A i \in DOMAIN results : results[i] # NoId => GivenBy(staged, i, results[i])
      BY <1>1 DEF ParentInv
    <3> QED  BY <1>7, <2>1, <2>2, <3>1, <3>2
  <2>4. Current.ref # 0 => GivenBy(staged, Current.ref, Resolve(Current))
    BY <1>1, <1>4, ResolveGives
  <2>5. Effect(Current, id).stmt = Current /\ Effect(Current, id).parent = Resolve(Current)
    BY DEF Effect
  <2>6. \A r \in staged' : r.stmt.ref # 0 => GivenBy(staged', r.stmt.ref, r.parent)
    BY <1>1, <2>1, <2>4, <2>5 DEF ParentInv
  <2> QED  BY <2>3, <2>6 DEF ParentInv
<1>11. CallsInv' /\ CacheInv' /\ AllOrNothing' /\ OkIsWritten' /\ ChildrenNameTheirParent'
  BY <1>1, <1>2 DEF CallsInv, CacheInv, AllOrNothing, OkIsWritten, ChildrenNameTheirParent
<1> QED  BY <1>8, <1>9, <1>10, <1>11

\* The report of a call ends it: its place among the calls told is the last.
LEMMA ReportOf ==
    ASSUME TypeOK, Types, pc # "idle", NEW outcome \in {"ok", "error"}, Report(outcome),
           UNCHANGED <<rows, sizes>>
    PROVE  /\ Called \in Nat /\ Begun = Called + 1 /\ Called' = Begun /\ Begun' = Begun
           /\ told' \in Seq({"ok", "error"}) /\ told'[Begun] = outcome
           /\ \A c \in 1..Called : told'[c] = told[c]
           /\ UNCHANGED Committed /\ \A c : UNCHANGED Written(c)
BY DEF TypeOK, Types, Report, Called, Begun, Committed, Written

\* A call that is reported has no row, or all of its batch; only in the second
\* case it is told "ok", and then no read is kept.
LEMMA ReportKeepsIInv ==
    ASSUME IInv, Fail \/ CommitUnacknowledged \/ Succeed
    PROVE  IInv'
<1> USE DEF IInv
<1>1. PICK outcome \in {"ok", "error"} :
        /\ Report(outcome) /\ pc # "idle" /\ UNCHANGED <<rows, lastId, sizes>>
        /\ outcome = "ok" => pc = "committed" /\ cache' = <<>>
        /\ outcome = "error" => UNCHANGED cache
  BY DEF Fail, CommitUnacknowledged, Succeed
<1>2. /\ Called \in Nat /\ Begun = Called + 1 /\ Called' = Begun /\ Begun' = Begun
      /\ told' \in Seq({"ok", "error"}) /\ told'[Begun] = outcome
      /\ \A c \in 1..Called : told'[c] = told[c]
      /\ UNCHANGED Committed /\ \A c : UNCHANGED Written(c)
  BY <1>1, ReportOf
<1>3. pc' = "idle" /\ source' = NoSource /\ batch' = <<>> /\ results' = <<>> /\ staged' = {}
  BY <1>1 DEF Report
<1>4. TypeOK' /\ Types'
  BY <1>1, <1>2, <1>3 DEF TypeOK, Types, Called, Begun, Report, Committed
<1>5. CallsInv' /\ StagedInv' /\ ParentInv'
  BY <1>2, <1>3 DEF CallsInv, StagedInv, ParentInv
<1>6. AllOrNothing' /\ ChildrenNameTheirParent'
  BY <1>1, <1>2, <1>3 DEF AllOrNothing, ChildrenNameTheirParent
<1>7. OkIsWritten'
  <2>1. \A c \in DOMAIN told' : c \in 1..Called \/ c = Begun
    BY <1>2 DEF Called
  <2>2. \A c \in 1..Called : c \in DOMAIN told /\ sizes'[c] = sizes[c]
    BY <1>1, <1>2 DEF TypeOK, Called
  <2>3. outcome = "ok" => {r.pos : r \in Written(Begun)} = 1..sizes[Begun]
    BY <1>1 DEF StagedInv
  <2> QED  BY <1>1, <1>2, <2>1, <2>2, <2>3 DEF OkIsWritten
<1>8. CacheInv'
  <2>1. CASE outcome = "ok"
    BY <1>1, <2>1 DEF CacheInv
  <2>2. CASE outcome = "error"
    <3>1. \A s \in Sources : Promised(s)' \subseteq Promised(s)
      <4> SUFFICES ASSUME NEW s \in Sources, NEW r \in Promised(s)'  PROVE r \in Promised(s)
        OBVIOUS
      <4>1. r \in rows[s] /\ r.call # 0 /\ r.call <= Called' /\ told'[r.call] = "ok"
        BY <1>1 DEF Promised
      <4>2. r.call \in 0..Begun
        <5>1. r \in Committed
          BY <4>1, CommittedRows DEF Types
        <5> QED  BY <1>2, <5>1 DEF CallsInv
      <4>3. r.call \in 1..Called
        BY <1>2, <2>2, <4>1, <4>2
      <4> QED  BY <1>2, <4>1, <4>3 DEF Promised
    <3> QED  BY <1>1, <2>2, <3>1, SqlAssumption DEF CacheInv
  <2> QED  BY <2>1, <2>2
<1> QED  BY <1>4, <1>5, <1>6, <1>7, <1>8

\* A commit makes the staged rows, which are the batch, rows of the source.
LEMMA CommitKeepsIInv ==
    ASSUME IInv, Commit
    PROVE  IInv'
<1> USE DEF IInv
<1>1. /\ pc = "executing" /\ pc' = "committed" /\ Position > Len(batch)
      /\ rows' = [rows EXCEPT ![source] = @ \cup staged]
      /\ UNCHANGED <<lastId, cache, source, batch, results, staged, answer, told, sizes>>
  BY DEF Commit
<1>2. source \in Sources /\ UNCHANGED <<Called, Begun>> /\ Begun = Called + 1 /\ Called \in Nat
      /\ sizes[Begun] = Len(batch) /\ Begun \in DOMAIN sizes
  BY <1>1 DEF TypeOK, Types, Called, Begun, CallsInv
<1>3. Committed' = Committed \cup staged /\ rows' \in [Sources -> SUBSET Committed']
  BY <1>1, <1>2, AddRows
<1>4. Len(results) = Len(batch)
  BY <1>1 DEF TypeOK, Types, Position
<1>5. (\A r \in staged : r.call = Begun) /\ {r.pos : r \in staged} = 1..Len(batch)
  BY <1>1, <1>4 DEF StagedInv
<1>6. (\A r \in Committed : r.call \in 0..Called) /\ Written(Begun) = {}
  BY <1>1, <1>2 DEF CallsInv, Written
<1>7. Written(Begun)' = staged /\ \A c \in DOMAIN sizes : c # Begun => Written(c)' = Written(c)
  <2>1. \A c : Written(c)' = {r \in Committed \cup staged : r.call = c}
    BY <1>3 DEF Written
  <2>2. \A c : Written(c) = {r \in Committed : r.call = c}
    BY DEF Written
  <2>3. Written(Begun)' = staged
    <3>1. Written(Begun)' = {r \in Committed \cup staged : r.call = Begun}
      BY <1>2, <1>3 DEF Written
    <3>2. \A r \in Committed : r.call # Begun
      BY <1>2, <1>6
    <3> QED  BY <1>5, <3>1, <3>2
  <2>4. \A c \in DOMAIN sizes : c # Begun => Written(c)' = Written(c)
    BY <1>5, <2>1, <2>2
  <2> QED  BY <2>3, <2>4
<1>8. TypeOK' /\ Types'
  BY <1>1, <1>2, <1>3 DEF TypeOK, Types, Accepted, Committed
<1>9. CallsInv' /\ StagedInv' /\ ParentInv'
  BY <1>1, <1>2, <1>3, <1>5, <1>6, <1>7 DEF CallsInv, StagedInv, ParentInv
<1>10. AllOrNothing' /\ OkIsWritten'
  <2>1. \A c \in DOMAIN told : c \in DOMAIN sizes /\ c # Begun
    BY <1>1, <1>2 DEF TypeOK, Types, Called, Begun
  <2> QED  BY <1>1, <1>2, <1>5, <1>7, <2>1 DEF AllOrNothing, OkIsWritten
<1>11. ChildrenNameTheirParent'
  <2>1. \A c : Written(c) \subseteq Written(c)'
    BY <1>3 DEF Written
  <2>2. ASSUME NEW r \in staged, r.stmt.ref # 0
        PROVE  \E p \in Written(r.call)' :
                   p.pos <= r.stmt.ref /\ p.stmt.verb = "insert" /\ p.id = r.parent
    <3>1. PICK p \in staged :
              p.pos <= r.stmt.ref /\ p.stmt.verb = "insert" /\ p.id = r.parent
      BY <1>1, <2>2 DEF ParentInv, GivenBy
    <3>2. p \in Committed' /\ p.call = r.call
      BY <1>3, <1>5
    <3> QED  BY <3>1, <3>2 DEF Written
  <2>3. ASSUME NEW r \in Committed, r.call # 0, r.stmt.ref # 0
        PROVE  \E p \in Written(r.call)' :
                   p.pos <= r.stmt.ref /\ p.stmt.verb = "insert" /\ p.id = r.parent
    BY <2>1, <2>3 DEF ChildrenNameTheirParent
  <2> QED  BY <1>3, <2>2, <2>3 DEF ChildrenNameTheirParent
<1>12. CacheInv'
  <2>1. \A s \in Sources : Promised(s)' \subseteq Promised(s)
    <3> SUFFICES ASSUME NEW s \in Sources, NEW r \in Promised(s)'  PROVE r \in Promised(s)
      OBVIOUS
    <3>1. r \in rows'[s] /\ r.call # 0 /\ r.call <= Called /\ told[r.call] = "ok"
      BY <1>1, <1>2 DEF Promised
    <3>2. r \in rows[s] \/ r \in staged
      BY <1>1, <1>2, <3>1 DEF Types
    <3>3. r \notin staged
      BY <1>2, <1>5, <3>1
    <3> QED  BY <3>1, <3>2, <3>3 DEF Promised
  <2> QED  BY <1>1, <2>1, SqlAssumption DEF CacheInv
<1> QED  BY <1>8, <1>9, <1>10, <1>11, <1>12

\* The row of another writer is that of no call.
LEMMA ForeignKeepsIInv ==
    ASSUME IInv, NEW s \in Sources, Foreign(s)
    PROVE  IInv'
<1> USE DEF IInv
<1> DEFINE new == [call |-> 0, id |-> lastId[s] + 1]
<1>1. /\ lastId' = [lastId EXCEPT ![s] = @ + 1] /\ rows' = [rows EXCEPT ![s] = @ \cup {new}]
      /\ UNCHANGED <<cache, work, answer, told, sizes>>
  BY DEF Foreign
<1>2. Committed' = Committed \cup {new} /\ rows' \in [Sources -> SUBSET Committed']
  BY <1>1, AddRows
<1>3. UNCHANGED <<Called, Begun>> /\ Called \in Nat /\ Begun \in Nat
  BY <1>1 DEF Called, Begun, TypeOK, Types
<1>4. \A c : c # 0 => Written(c)' = Written(c)
  BY <1>2 DEF Written
<1>5. 0 \notin DOMAIN sizes /\ 0 \notin DOMAIN told /\ (pc # "idle" => Begun # 0)
  BY <1>3 DEF TypeOK, Types, Called, Begun
<1>6. TypeOK' /\ Types'
  <2>1. TypeOK'
    BY <1>1, <1>3 DEF TypeOK, Accepted, work
  <2>2. lastId' \in [Sources -> Nat] /\ batch' \in Seq(Statements) /\ sizes' \in Seq(Nat)
    BY <1>1 DEF Types, work
  <2> QED  BY <1>2, <2>1, <2>2 DEF Types, Committed
<1>7. CallsInv' /\ StagedInv' /\ ParentInv'
  BY <1>1, <1>2, <1>3, <1>4, <1>5 DEF CallsInv, StagedInv, ParentInv, work, GivenBy
<1>8. AllOrNothing' /\ OkIsWritten'
  <2>1. UNCHANGED <<sizes, told>>
    BY <1>1
  <2>2. AllOrNothing'
    BY <1>4, <1>5, <2>1 DEF AllOrNothing
  <2>3. OkIsWritten'
    BY <1>4, <1>5, <2>1 DEF OkIsWritten
  <2> QED  BY <2>2, <2>3
<1>9. ChildrenNameTheirParent'
  BY <1>2, <1>4 DEF ChildrenNameTheirParent
<1>10. CacheInv'
  <2>1. \A t \in Sources : Promised(t)' \subseteq Promised(t)
    BY <1>1, <1>3 DEF Promised, Types
  <2> QED  BY <1>1, <2>1, SqlAssumption DEF CacheInv
<1> QED  BY <1>6, <1>7, <1>8, <1>9, <1>10

-----------------------------------------------------------------------------
(* The rows, the reads kept and the batch in progress, in every reachable state. *)
THEOREM Invariance == Spec => []IInv
<1>1. IInv /\ [Next]_vars => IInv'
  <2> SUFFICES ASSUME IInv, [Next]_vars PROVE IInv'
    OBVIOUS
  <2>1. CASE UNCHANGED vars
    BY <2>1 DEF vars, work, IInv, TypeOK, Types, CallsInv, StagedInv, ParentInv, CacheInv,
                AllOrNothing, OkIsWritten, ChildrenNameTheirParent, Committed, Written, Called,
                Begun, Promised, GivenBy, Accepted
  <2> QED
    BY <2>1, ReadKeepsIInv, RefuseKeepsIInv, StartKeepsIInv, ExecuteKeepsIInv, ReportKeepsIInv,
       CommitKeepsIInv, ForeignKeepsIInv DEF Next
<1> QED  BY InitIInv, <1>1, PTL DEF Spec

(* The types of the state: a transaction is at rest or has an accepted batch. *)
THEOREM TypeCorrect == Spec => []TypeOK
<1>1. IInv => TypeOK  BY DEF IInv
<1> QED  BY Invariance, <1>1, PTL

(* A batch of any length, failing at any statement, is written whole or not at all. *)
THEOREM AllOrNothingHolds == Spec => []AllOrNothing
<1>1. IInv => AllOrNothing  BY DEF IInv
<1> QED  BY Invariance, <1>1, PTL

(* What the model was told "ok" is in the database. *)
THEOREM OkIsWrittenHolds == Spec => []OkIsWritten
<1>1. IInv => OkIsWritten  BY DEF IInv
<1> QED  BY Invariance, <1>1, PTL

(* A child row names an insert before it in its own transaction, on every engine. *)
THEOREM ChildrenNameTheirParentHolds == Spec => []ChildrenNameTheirParent
<1>1. IInv => ChildrenNameTheirParent  BY DEF IInv
<1> QED  BY Invariance, <1>1, PTL

(* No read of the turn, reused or not, is older than a write it was told of. *)
THEOREM ReadsSeeOwnWritesHolds == Spec => ReadsSeeOwnWrites
<1> DEFINE A == answer' # <<>> =>
          \A r \in rows[answer'.asked.source] :
              (r.call # 0 /\ r.call <= Called /\ told[r.call] = "ok") => r \in answer'.seen
<1>1. IInv /\ [Next]_vars => [A]_answer
  <2> SUFFICES ASSUME IInv, Next, answer' # answer, answer' # <<>>,
                      NEW r \in rows[answer'.asked.source], r.call # 0, r.call <= Called,
                      told[r.call] = "ok"
               PROVE  r \in answer'.seen
    BY DEF vars
  <2>1. PICK q \in Questions : Reuse(q) \/ Read(q)
    BY DEF Next, ReadFails, Refuse, Start, Execute, Fail, Commit, CommitUnacknowledged, Succeed,
           Foreign
  <2>2. CASE Reuse(q)
    <3>1. PICK k \in DOMAIN cache : answer' = cache[k]
      BY <2>2 DEF Reuse
    <3>2. \E p \in Questions : cache[k].asked = p /\ Promised(p.source) \subseteq cache[k].seen
      BY DEF IInv, CacheInv
    <3> QED  BY <3>1, <3>2 DEF Promised
  <2>3. CASE Read(q)
    BY <2>3 DEF Read
  <2> QED  BY <2>1, <2>2, <2>3
<1> QED  BY Invariance, <1>1, PTL DEF Spec, ReadsSeeOwnWrites

-----------------------------------------------------------------------------
(* The calls implement WriteCalls.                                          *)

\* The statements of each call that are in the database.
Effects == [c \in DOMAIN sizes |-> {r.pos : r \in Written(c)}]

\* A step that begins no call, ends none and leaves the rows of the calls alone.
LEMMA Stutter ==
    ASSUME UNCHANGED <<sizes, told>>, \A c \in DOMAIN sizes : UNCHANGED Written(c)
    PROVE  UNCHANGED W!vars
<1>1. \A c \in DOMAIN sizes : {r.pos : r \in Written(c)'} = {r.pos : r \in Written(c)}
  OBVIOUS
<1> QED  BY <1>1 DEF W!vars

\* Whether a call is in progress, on both sides.
LEMMA Progress ==
    ASSUME IInv
    PROVE  /\ Called \in Nat /\ Begun \in Nat /\ W!Latest = Begun
           /\ sizes \in Seq(Nat) /\ told \in Seq({"ok", "error"})
           /\ W!InProgress <=> pc # "idle"
BY DEF IInv, TypeOK, Types, Called, Begun, W!Latest, W!InProgress

\* A call that begins has nothing in the database.
LEMMA BeginsEmpty ==
    ASSUME IInv, pc = "idle", NEW n \in 0..MaxBatch, sizes' = Append(sizes, n),
           UNCHANGED rows
    PROVE  W!Add(n)
<1>1. \A c : UNCHANGED Written(c)
  BY DEF Written, Committed
<1>2. DOMAIN sizes' = DOMAIN sizes \cup {Begun + 1} /\ Called = Begun
  <2>1. Called \in Nat /\ Begun \in Nat /\ sizes \in Seq(Nat) /\ n \in Nat
    BY Progress, SqlAssumption
  <2>2. Called = Begun
    BY <2>1 DEF IInv, TypeOK, Begun
  <2>3. Len(sizes') = Begun + 1 /\ sizes' \in Seq(Nat)
    BY <2>1 DEF Begun
  <2> QED  BY <2>1, <2>2, <2>3 DEF Begun
<1>3. Written(Begun + 1) = {}
  BY <1>2, Progress DEF IInv, CallsInv, Written
<1>4. \A c \in DOMAIN sizes' : c \notin DOMAIN sizes => Written(c)' = {}
  BY <1>1, <1>2, <1>3
<1>5. Effects' = [c \in DOMAIN sizes' |-> IF c \in DOMAIN sizes THEN Effects[c] ELSE {}]
  BY <1>1, <1>4 DEF Effects
<1> QED  BY <1>5, Progress DEF W!Add, Effects

\* A commit puts the whole batch of the call in progress in the database at once.
LEMMA CommitTakesEffect ==
    ASSUME IInv, Commit
    PROVE  W!TakeEffect
<1>1. /\ pc = "executing" /\ rows' = [rows EXCEPT ![source] = @ \cup staged]
      /\ Position > Len(batch) /\ UNCHANGED <<told, sizes>>
  BY DEF Commit
<1>2. Called \in Nat /\ Begun = Called + 1 /\ Begun \in DOMAIN sizes /\ source \in Sources
      /\ sizes[Begun] = Len(batch)
  BY <1>1, Progress DEF IInv, TypeOK, Types, CallsInv, Called, Begun
<1>3. Committed' = Committed \cup staged
  BY <1>1, <1>2, AddRows DEF IInv
<1>4. {r.pos : r \in staged} = 1..sizes[Begun] /\ \A r \in staged : r.call = Begun
  <2>1. Len(results) = Len(batch)
    BY <1>1 DEF IInv, TypeOK, Types, Position
  <2> QED  BY <1>1, <1>2, <2>1 DEF IInv, StagedInv
<1>5. \A r \in Committed : r.call # Begun
  BY <1>1, <1>2 DEF IInv, CallsInv
<1>6. Written(Begun) = {} /\ Written(Begun)' = staged
  <2>1. Begun' = Begun
    BY <1>1 DEF Begun
  <2>2. Written(Begun)' = {r \in Committed \cup staged : r.call = Begun}
    BY <1>3, <2>1 DEF Written
  <2>3. Written(Begun) = {}
    BY <1>5 DEF Written
  <2> QED  BY <1>4, <1>5, <2>2, <2>3
<1>7. \A c \in DOMAIN sizes : c # Begun => Written(c)' = Written(c)
  <2>1. \A c : c # Begun => {r \in Committed \cup staged : r.call = c} = {r \in Committed : r.call = c}
    BY <1>4
  <2> QED  BY <1>3, <2>1 DEF Written
<1>8. Effects' = [Effects EXCEPT ![Begun] = 1..sizes[Begun]]
  <2>1. DOMAIN Effects' = DOMAIN Effects /\ DOMAIN Effects = DOMAIN sizes
    BY <1>1 DEF Effects
  <2>2. ASSUME NEW c \in DOMAIN sizes
        PROVE  Effects'[c] = IF c = Begun THEN 1..sizes[Begun] ELSE Effects[c]
    <3>1. Effects'[c] = {r.pos : r \in Written(c)'} /\ Effects[c] = {r.pos : r \in Written(c)}
      BY <1>1 DEF Effects
    <3>2. CASE c = Begun
      BY <1>1, <1>4, <1>6, <3>1, <3>2 DEF Begun
    <3>3. CASE c # Begun
      BY <1>7, <3>1, <3>3
    <3> QED  BY <3>2, <3>3
  <2> QED  BY <2>1, <2>2 DEF Effects
<1>9. Effects[Begun] = {}
  BY <1>2, <1>6 DEF Effects
<1> QED  BY <1>1, <1>8, <1>9, Progress DEF W!TakeEffect, Effects

\* A report changes nothing in the database, and "ok" is told of a whole batch.
LEMMA ReportReports ==
    ASSUME IInv, Fail \/ CommitUnacknowledged \/ Succeed
    PROVE  \E outcome \in {"ok", "error"} : W!Report(outcome)
<1>1. PICK outcome \in {"ok", "error"} :
        /\ told' = Append(told, outcome) /\ pc # "idle" /\ UNCHANGED <<rows, sizes>>
        /\ outcome = "ok" => pc = "committed"
  BY DEF Fail, CommitUnacknowledged, Succeed, Report
<1>2. Begun \in DOMAIN sizes
  BY <1>1, Progress DEF Begun, IInv, TypeOK, Called
<1>3. outcome = "ok" => Effects[Begun] = 1..sizes[Begun]
  BY <1>1, <1>2 DEF Effects, IInv, StagedInv
<1>4. UNCHANGED Effects
  BY <1>1 DEF Effects, Written, Committed
<1> QED  BY <1>1, <1>3, <1>4, Progress DEF W!Report, Effects

\* The row of another writer is not one of a call.
LEMMA ForeignStutters ==
    ASSUME IInv, NEW s \in Sources, Foreign(s)
    PROVE  UNCHANGED W!vars
<1>1. Committed' = Committed \cup {[call |-> 0, id |-> lastId[s] + 1]}
  BY AddRows DEF IInv, Foreign
<1>2. \A c : c # 0 => Written(c)' = Written(c)
  BY <1>1 DEF Written
<1>3. UNCHANGED <<sizes, told>> /\ \A c \in DOMAIN sizes : c # 0
  BY Progress DEF Foreign
<1> QED  BY <1>2, <1>3, Stutter

\* Every step of the turn is one of WriteCalls, or leaves what it shows alone.
LEMMA StepSimulation ==
    ASSUME IInv, [Next]_vars
    PROVE  [W!Next]_(W!vars)
<1>1. CASE (\E q \in Questions : Reuse(q) \/ Read(q) \/ ReadFails(q)) \/ Execute \/ UNCHANGED vars
  <2>1. UNCHANGED <<rows, sizes, told>>
    BY <1>1 DEF Reuse, Read, ReadFails, Execute, vars
  <2> QED  BY <2>1, Stutter DEF Written, Committed
<1>2. CASE \E b \in BoundedSeq(Statements, MaxBatch) : Refuse(b) \/ \E s \in Sources : Start(s, b)
  <2>1. PICK b \in BoundedSeq(Statements, MaxBatch) : Refuse(b) \/ \E s \in Sources : Start(s, b)
    BY <1>2
  <2>2. Len(b) \in 0..MaxBatch
    BY SqlAssumption DEF BoundedSeq, SeqOf
  <2>3. W!Add(Len(b))
    BY <2>1, <2>2, BeginsEmpty DEF Refuse, Start
  <2>4. W!Refuse(Len(b)) \/ W!Begin(Len(b))
    BY <2>1, <2>3 DEF W!Refuse, W!Begin, Refuse, Start, Accepted
  <2> QED  BY <2>2, <2>4 DEF W!Next
<1>3. CASE Commit
  BY <1>3, CommitTakesEffect DEF W!Next
<1>4. CASE Fail \/ CommitUnacknowledged \/ Succeed
  BY <1>4, ReportReports DEF W!Next
<1>5. CASE \E s \in Sources : Foreign(s)
  BY <1>5, ForeignStutters
<1> QED  BY <1>1, <1>2, <1>3, <1>4, <1>5 DEF Next

(* The transactions of a turn, with other writers on the same databases, implement
   the promise of the writing tools: at once, at most once, never after the report. *)
THEOREM WritesAreAtomicHolds == Spec => WritesAreAtomic
<1>1. Init => W!Init
  BY DEF Init, W!Init, Effects
<1>2. IInv /\ [Next]_vars => [W!Next]_(W!vars)
  BY StepSimulation
<1> QED  BY Invariance, <1>1, <1>2, PTL DEF Spec, WritesAreAtomic, W!Spec
=============================================================================
