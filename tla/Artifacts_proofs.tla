-------------------------- MODULE Artifacts_proofs --------------------------
(***************************************************************************)
(* Object store and artifacts table, for every number of tools, uploads    *)
(* and completions and any number of PUTs to an upload URL.                *)
(***************************************************************************)
EXTENDS Artifacts, TLAPS

Types ==
    /\ TypeOK
    /\ madeBy \in [Artifacts -> Tools \cup {NoTool}] /\ reused \subseteq Artifacts
    /\ verified \in [Artifacts -> Contents] /\ loaded \in [Tools -> Contents]
    /\ \A a \in Artifacts : object[a] # NoContent => object[a].size # "none"

\* A tool's object is what it saved, until a completion deletes it for its size.
OriginInv ==
    \A a \in Artifacts :
      /\ Unused(a) => object[a] = NoContent /\ ~LookedAt(a)
      /\ a \in row => madeBy[a] # NoTool \/ LookedAt(a)
      /\ madeBy[a] # NoTool =>
            url[a] = "none" /\ (object[a] = verified[a] \/ (object[a] = NoContent /\ Forfeit(a)))

\* What a tool call has made so far has a row and is in its answer, the one it is
\* registering excepted.
ToolInv ==
    \A t \in Tools :
      /\ pc[t] = "opening" => input[t] \in Artifacts
      /\ pc[t] = "loading" => input[t] \in row
      /\ pc[t] = "saved" =>
            current[t] \in Artifacts /\ madeBy[current[t]] = t /\ left[t] > 0
      /\ \A a \in Artifacts : madeBy[a] = t =>
            /\ pc[t] \in {"working", "saved", "ok", "error"}
            /\ pc[t] = "error" \/ (pc[t] = "saved" /\ a = current[t])
               \/ (a \in row /\ a \in outputs[t])

\* What a completion has measured is what is there, unless it was written again or
\* another completion has deleted it for its size; and of a tool, what it saved.
UploadInv ==
    \A k \in Completions :
      /\ step[k] = "idle" => upload[k] = NoArtifact
      /\ step[k] \in {"publishing", "deleting"} =>
            /\ upload[k] \in Artifacts
            /\ madeBy[upload[k]] # NoTool => measured[k] = verified[upload[k]]
      /\ step[k] = "publishing" =>
            /\ measured[k].size = "fits"
            /\ upload[k] \notin reused => object[upload[k]] = measured[k]
      /\ step[k] = "deleting" =>
            /\ measured[k].size = "exceeds"
            /\ upload[k] \notin reused => object[upload[k]] \in {measured[k], NoContent}

\* What was published under a row is there, or forfeit.
RowInv ==
    \A a \in row \ reused :
        \/ object[a] = verified[a] /\ (madeBy[a] = NoTool => object[a].size = "fits")
        \/ (object[a] = NoContent /\ Forfeit(a))

\* A tool that has loaded its input works on an artifact that has a row.
LoadInv ==
    \A t \in Tools : loaded[t] # NoContent =>
      /\ pc[t] \notin {"idle", "opening", "loading"} /\ input[t] \in row
      /\ input[t] \notin reused => loaded[t] = verified[input[t]]

IInv == Types /\ OriginInv /\ ToolInv /\ UploadInv /\ RowInv /\ LoadInv

-----------------------------------------------------------------------------
LEMMA InitIInv == Init => IInv
<1> SUFFICES ASSUME Init PROVE IInv  OBVIOUS
<1> USE ArtifactsAssumption DEF Init, NoContent
<1>1. Types
  BY DEF Types, TypeOK, Contents, Ids
<1> QED  BY <1>1 DEF IInv, OriginInv, ToolInv, UploadInv, RowInv, LoadInv, LookedAt, Forfeit, Unused

-----------------------------------------------------------------------------
(* The tools. *)

\* A call that begins has made and loaded nothing.
LEMMA BeginKeepsIInv ==
    ASSUME IInv, NEW t \in Tools, NEW a \in Ids, NEW n \in Nat, Begin(t, a, n)
    PROVE  IInv'
<1> USE ArtifactsAssumption DEF IInv, Types, Begin, Goto, store, completions, ghosts
<1>1. Types'
  BY DEF TypeOK, Ids
<1>2. OriginInv' /\ UploadInv' /\ RowInv'
  BY DEF OriginInv, UploadInv, RowInv, LookedAt, Forfeit, Unused
<1>3. ToolInv'
  <2>1. \A b \in Artifacts : madeBy[b] # t
    BY DEF ToolInv
  <2>2. \A u \in Tools : u # t => pc'[u] = pc[u] /\ input'[u] = input[u] /\ left'[u] = left[u]
    BY DEF TypeOK
  <2>3. pc'[t] \in {"working", "opening"} /\ input'[t] = a /\ (pc'[t] = "opening" => a \in Artifacts)
    BY DEF TypeOK, Ids
  <2> QED  BY <2>1, <2>2, <2>3 DEF ToolInv
<1>4. LoadInv'
  BY DEF LoadInv, TypeOK
<1> QED  BY <1>1, <1>2, <1>3, <1>4

\* A row that is found stays, and what is loaded is what it stands for.
LEMMA InputKeepsIInv ==
    ASSUME IInv, NEW t \in Tools, Open(t) \/ Load(t)
    PROVE  IInv'
<1> USE DEF IInv, Types, Goto, store, completions, ghosts
<1>1. UNCHANGED <<store, input, left, current, outputs, completions, madeBy, verified, reused>>
  BY DEF Open, Load
<1>2. \/ pc[t] = "opening" /\ pc' = [pc EXCEPT ![t] = "loading"] /\ input[t] \in row
         /\ UNCHANGED loaded
      \/ pc[t] = "loading" /\ pc' = [pc EXCEPT ![t] = "working"]
         /\ loaded' = [loaded EXCEPT ![t] = object[input[t]]]
  BY DEF Open, Load
<1>3. Types'
  BY <1>1, <1>2 DEF TypeOK, ToolInv
<1>4. OriginInv' /\ UploadInv' /\ RowInv'
  BY <1>1 DEF OriginInv, UploadInv, RowInv, LookedAt, Forfeit, Unused
<1>5. ToolInv'
  BY <1>1, <1>2 DEF ToolInv, TypeOK
<1>6. LoadInv'
  BY <1>1, <1>2 DEF LoadInv, TypeOK, RowInv, ToolInv
<1> QED  BY <1>3, <1>4, <1>5, <1>6

\* A payload is saved under an id that nobody has.
LEMMA SaveKeepsIInv ==
    ASSUME IInv, NEW t \in Tools, Save(t)
    PROVE  IInv'
<1> USE ArtifactsAssumption DEF IInv, Types, Goto, ghosts, completions
<1>1. PICK a \in Artifacts :
        \E size \in Sizes :
          /\ Unused(a) /\ pc[t] = "working" /\ left[t] > 0
          /\ current' = [current EXCEPT ![t] = a]
          /\ object' = [object EXCEPT ![a] = Made(size)]
          /\ verified' = [verified EXCEPT ![a] = Made(size)]
          /\ madeBy' = [madeBy EXCEPT ![a] = t] /\ pc' = [pc EXCEPT ![t] = "saved"]
          /\ UNCHANGED <<row, url, input, left, outputs, completions, loaded, reused>>
  BY DEF Save
<1>2. a \notin row /\ ~LookedAt(a) /\ url[a] = "none" /\ madeBy[a] = NoTool
  BY <1>1 DEF OriginInv, Unused
<1>7. PICK size \in Sizes :
         /\ object' = [object EXCEPT ![a] = Made(size)]
         /\ verified' = [verified EXCEPT ![a] = Made(size)]
  BY <1>1
<1> DEFINE made == Made(size)
<1>8. made \in Contents /\ made.size # "none"
  BY DEF Made, Sizes, Contents
<1>9. made # NoContent
  BY <1>8 DEF NoContent
<1>6. object' = [object EXCEPT ![a] = made] /\ verified' = [verified EXCEPT ![a] = made]
  BY <1>7
<1> HIDE DEF made
<1>3. Types'
  BY <1>1, <1>6, <1>8 DEF TypeOK, Ids
<1>4. OriginInv' /\ UploadInv' /\ RowInv'
  <2>1. \A b \in Artifacts : b # a =>
          object'[b] = object[b] /\ verified'[b] = verified[b] /\ madeBy'[b] = madeBy[b]
    BY <1>1, <1>6 DEF TypeOK
  <2>2. object'[a] = made /\ verified'[a] = made /\ madeBy'[a] = t
    BY <1>1, <1>6 DEF TypeOK
  <2>3. \A k \in Completions : upload[k] # a
    BY <1>2 DEF LookedAt
  <2>4. OriginInv'
    <3>1. \A b \in Artifacts : LookedAt(b)' = LookedAt(b)
      BY <1>1 DEF LookedAt
    <3>2. \A b \in Artifacts : b # a => Unused(b)' = Unused(b) /\ Forfeit(b)' = Forfeit(b)
      BY <1>1, <2>1, <3>1 DEF Unused, Forfeit
    <3>3. ~Unused(a)' /\ url'[a] = "none" /\ a \notin row' /\ object'[a] = verified'[a]
      BY <1>1, <1>2, <2>2 DEF Unused
    <3>. QED  BY <1>1, <2>1, <3>1, <3>2, <3>3 DEF OriginInv
  <2>5. UploadInv'
    BY <1>1, <2>1, <2>3 DEF UploadInv
  <2>6. RowInv'
    BY <1>1, <1>2, <2>1 DEF RowInv, LookedAt, Forfeit
  <2>. QED  BY <2>4, <2>5, <2>6
<1>5. ToolInv'
  BY <1>1, <1>2 DEF ToolInv, TypeOK
<1>11. LoadInv'
  BY <1>1, <1>2, <1>6 DEF LoadInv, TypeOK
<1> QED  BY <1>3, <1>4, <1>5, <1>11

\* The row of what was saved.
LEMMA InsertKeepsIInv ==
    ASSUME IInv, NEW t \in Tools, Insert(t)
    PROVE  IInv'
<1> USE ArtifactsAssumption DEF IInv, Types, Goto, ghosts, completions
<1> DEFINE a == current[t]
<1>1. /\ pc[t] = "saved" /\ row' = row \cup {a}
      /\ outputs' = [outputs EXCEPT ![t] = @ \cup {a}] /\ left' = [left EXCEPT ![t] = @ - 1]
      /\ pc' = [pc EXCEPT ![t] = "working"]
      /\ UNCHANGED <<object, url, input, current, completions, ghosts>>
  BY DEF Insert
<1>2. /\ a \in Artifacts /\ madeBy[a] = t /\ left[t] > 0 /\ t # NoTool
      /\ object[a] = verified[a] \/ (object[a] = NoContent /\ Forfeit(a))
  BY <1>1 DEF ToolInv, OriginInv
<1>3. Types'
  BY <1>1, <1>2 DEF TypeOK
<1>4. OriginInv' /\ UploadInv' /\ RowInv'
  BY <1>1, <1>2 DEF OriginInv, UploadInv, RowInv, LookedAt, Forfeit, Unused
<1>5. ToolInv'
  BY <1>1, <1>2 DEF ToolInv, TypeOK
<1>6. LoadInv'
  BY <1>1, <1>2 DEF LoadInv, TypeOK
<1> QED  BY <1>3, <1>4, <1>5, <1>6

\* A call that is over has registered everything, or reports an error.
LEMMA EndKeepsIInv ==
    ASSUME IInv, NEW t \in Tools, Answer(t) \/ ToolFails(t)
    PROVE  IInv'
<1> USE ArtifactsAssumption DEF IInv, Types, Goto, ghosts, completions, store
<1>1. UNCHANGED <<store, input, completions, ghosts>>
  BY DEF Answer, ToolFails
<1>2. \/ /\ pc[t] = "working" /\ pc' = [pc EXCEPT ![t] = "ok"]
         /\ UNCHANGED <<left, outputs>> /\ current' = [current EXCEPT ![t] = NoArtifact]
      \/ /\ pc[t] \in {"opening", "loading", "working", "saved"}
         /\ pc' = [pc EXCEPT ![t] = "error"] /\ outputs' = [outputs EXCEPT ![t] = {}]
         /\ left' = [left EXCEPT ![t] = 0] /\ current' = [current EXCEPT ![t] = NoArtifact]
  BY DEF Answer, ToolFails
<1>3. Types'
  BY <1>1, <1>2 DEF TypeOK, Ids
<1>4. OriginInv' /\ UploadInv' /\ RowInv'
  BY <1>1 DEF OriginInv, UploadInv, RowInv, LookedAt, Forfeit, Unused
<1>5. ToolInv'
  BY <1>1, <1>2 DEF ToolInv, TypeOK
<1>6. LoadInv'
  BY <1>1, <1>2 DEF LoadInv, TypeOK
<1> QED  BY <1>3, <1>4, <1>5, <1>6

-----------------------------------------------------------------------------
(* The uploads. *)

\* A URL is given out for an id that nobody has, and ends its time.
LEMMA UrlKeepsIInv ==
    ASSUME IInv, NEW a \in Artifacts, RegisterInit(a) \/ Expire(a)
    PROVE  IInv'
<1> USE DEF IInv, Types, tools, completions, ghosts
<1>1. UNCHANGED <<object, row, tools, completions, ghosts>>
  BY DEF RegisterInit, Expire
<1>2. PICK new \in {"open", "expired"} : url' = [url EXCEPT ![a] = new]
  BY DEF RegisterInit, Expire
<1>3. madeBy[a] = NoTool
  BY DEF RegisterInit, Expire, Unused, OriginInv
<1>4. Types'
  BY <1>1, <1>2 DEF TypeOK
<1>5. OriginInv' /\ UploadInv'
  BY <1>1, <1>2, <1>3 DEF OriginInv, UploadInv, LookedAt, Forfeit, Unused, TypeOK
<1>6. ToolInv' /\ RowInv' /\ LoadInv'
  BY <1>1 DEF ToolInv, RowInv, LoadInv, LookedAt, Forfeit
<1> QED  BY <1>4, <1>5, <1>6

\* Whoever writes an upload that a completion has looked at has used the URL again.
LEMMA PutKeepsIInv ==
    ASSUME IInv, NEW a \in Artifacts, Put(a)
    PROVE  IInv'
<1> USE DEF IInv, Types, tools, completions
<1>1. PICK new \in [size : {"fits", "exceeds"}, put : Nat] : object' = [object EXCEPT ![a] = new]
  <2>1. PICK size \in {"fits", "exceeds"} :
          object' = [object EXCEPT ![a] = [size |-> size, put |-> @.put + 1]]
    BY DEF Put, Sizes
  <2>2. object[a].put + 1 \in Nat
    BY DEF TypeOK, Contents
  <2> QED  BY <2>1, <2>2
<1>2. /\ url[a] = "open" /\ reused' = IF LookedAt(a) THEN reused \cup {a} ELSE reused
      /\ UNCHANGED <<row, url, tools, completions, madeBy, verified, loaded>>
  BY DEF Put
<1>3. madeBy[a] = NoTool /\ (a \in row => a \in reused') /\ reused \subseteq reused'
  BY <1>2 DEF OriginInv
<1>4. Types'
  BY <1>1, <1>2 DEF TypeOK, Contents
<1>5. OriginInv' /\ RowInv'
  BY <1>1, <1>2, <1>3 DEF OriginInv, RowInv, LookedAt, Forfeit, Unused, TypeOK
<1>6. UploadInv'
  <2>1. \A k \in Completions : upload[k] = a => a \in reused'
    BY <1>2 DEF LookedAt
  <2> QED  BY <1>1, <1>2, <1>3, <2>1 DEF UploadInv, TypeOK
<1>7. ToolInv' /\ LoadInv'
  BY <1>2, <1>3 DEF ToolInv, LoadInv
<1> QED  BY <1>4, <1>5, <1>6, <1>7

\* A completion that begins has measured what is there, or found nothing.
LEMMA MeasureKeepsIInv ==
    ASSUME IInv, NEW k \in Completions, NEW a \in Artifacts, Measure(k, a)
    PROVE  IInv'
<1> USE ArtifactsAssumption DEF IInv, Types, Proceed, store, tools, ghosts
<1>1. /\ UNCHANGED <<store, tools, ghosts>> /\ step[k] = "idle" /\ object[a] # NoContent
      /\ upload' = [upload EXCEPT ![k] = a]
      /\ step' = [step EXCEPT ![k] = IF object[a].size = "fits" THEN "publishing" ELSE "deleting"]
      /\ measured' = [measured EXCEPT ![k] = object[a]]
  BY DEF Measure
<1>2. ~Unused(a)
  BY <1>1 DEF OriginInv
<1>3. Types'
  BY <1>1 DEF TypeOK, Ids
<1>4. \A b \in Artifacts : (LookedAt(b) => LookedAt(b)') /\ (b # a => LookedAt(b)' = LookedAt(b))
  <2>1. \A j \in Completions : upload[j] \in Artifacts => j # k
    BY <1>1 DEF UploadInv
  <2> QED  BY <1>1, <2>1 DEF LookedAt, TypeOK
<1>5. OriginInv'
  BY <1>1, <1>2, <1>4 DEF OriginInv, Forfeit, Unused
<1>6. RowInv'
  BY <1>1, <1>4 DEF RowInv, Forfeit, TypeOK
<1>7. UploadInv'
  <2>1. object[a].size \in {"fits", "exceeds"}
    BY <1>1 DEF TypeOK, Contents
  <2>2. madeBy[a] # NoTool => object[a] = verified[a]
    BY <1>1 DEF OriginInv
  <2> QED  BY <1>1, <2>1, <2>2 DEF UploadInv, TypeOK
<1>8. ToolInv' /\ LoadInv'
  BY <1>1 DEF ToolInv, LoadInv
<1> QED  BY <1>3, <1>5, <1>6, <1>7, <1>8

LEMMA NotFoundKeepsIInv ==
    ASSUME IInv, NEW k \in Completions, NotFound(k)
    PROVE  IInv'
<1> USE DEF IInv, Types, Proceed, tools, store, ghosts
<1>1. /\ step[k] = "idle" /\ step' = [step EXCEPT ![k] = "refused"]
      /\ UNCHANGED <<store, tools, upload, measured, ghosts>>
  BY DEF NotFound
<1>2. Types' /\ OriginInv' /\ ToolInv' /\ RowInv' /\ LoadInv'
  BY <1>1 DEF TypeOK, OriginInv, LookedAt, Forfeit, Unused, ToolInv, RowInv, LoadInv
<1>3. UploadInv'
  BY <1>1 DEF UploadInv, TypeOK
<1> QED  BY <1>2, <1>3

\* What is deleted for its size is forfeit, or is an upload that has no row and no
\* completion that would publish it, unless it was written again.
LEMMA RefuseKeepsIInv ==
    ASSUME IInv, NEW k \in Completions, Refuse(k)
    PROVE  IInv'
<1> USE ArtifactsAssumption DEF IInv, Types, Leave, Proceed, tools, ghosts
<1> DEFINE a == upload[k]
<1>1. /\ step[k] = "deleting" /\ step' = [step EXCEPT ![k] = "refused"]
      /\ measured' = [measured EXCEPT ![k] = NoContent]
      /\ object' = [object EXCEPT ![a] = NoContent]
      /\ UNCHANGED <<row, url, tools, upload, ghosts>>
  BY DEF Refuse
<1>2. /\ a \in Artifacts /\ LookedAt(a)
      /\ madeBy[a] # NoTool => Forfeit(a)
      /\ a \notin reused => object[a].size # "fits"
  BY <1>1 DEF UploadInv, NoContent, Forfeit, LookedAt
<1>3. object'[a] = NoContent /\ \A b \in Artifacts : b # a => object'[b] = object[b]
  BY <1>1, <1>2 DEF TypeOK
<1>4. \A b \in Artifacts : /\ LookedAt(b)' = LookedAt(b) /\ Forfeit(b)' = Forfeit(b)
                           /\ Unused(b)' = Unused(b)
  BY <1>1 DEF LookedAt, Forfeit, Unused
<1>5. Types'
  BY <1>1, <1>2 DEF TypeOK, Contents, NoContent
<1>6. OriginInv'
  BY <1>1, <1>2, <1>3, <1>4 DEF OriginInv
<1>7. RowInv'
  <2>1. a \in row \ reused => Forfeit(a)
    BY <1>2 DEF RowInv
  <2> QED  BY <1>1, <1>2, <1>3, <1>4, <2>1 DEF RowInv, TypeOK
<1>8. UploadInv'
  <2>1. ASSUME NEW j \in Completions, step[j] = "publishing", upload[j] \notin reused
        PROVE  upload[j] # a
    BY <1>2, <2>1 DEF UploadInv
  <2> QED  BY <1>1, <1>2, <1>3, <2>1 DEF UploadInv, TypeOK
<1>9. ToolInv' /\ LoadInv'
  BY <1>1 DEF ToolInv, LoadInv
<1> QED  BY <1>5, <1>6, <1>7, <1>8, <1>9

\* What is published was measured, and is still there unless it was written again.
LEMMA PublishKeepsIInv ==
    ASSUME IInv, NEW k \in Completions, Publish(k)
    PROVE  IInv'
<1> USE DEF IInv, Types, Leave, Proceed, tools
<1> DEFINE a == upload[k]
<1>1. /\ step[k] = "publishing" /\ a \notin row /\ step' = [step EXCEPT ![k] = "ok"]
      /\ measured' = [measured EXCEPT ![k] = NoContent] /\ row' = row \cup {a}
      /\ verified' = [verified EXCEPT ![a] = measured[k]]
      /\ UNCHANGED <<object, url, tools, upload, madeBy, loaded, reused>>
  BY DEF Publish
<1>2. /\ a \in Artifacts /\ measured[k].size = "fits" /\ LookedAt(a)
      /\ madeBy[a] # NoTool => measured[k] = verified[a]
      /\ a \notin reused => object[a] = measured[k]
  BY <1>1 DEF UploadInv, LookedAt
<1>3. Types'
  BY <1>1, <1>2 DEF TypeOK, Contents, NoContent
<1>8. verified'[a] = measured[k] /\ \A b \in Artifacts : b # a => verified'[b] = verified[b]
  BY <1>1, <1>2
<1>9. \A b \in Artifacts : madeBy[b] # NoTool => verified'[b] = verified[b]
  BY <1>2, <1>8
<1>4. OriginInv' /\ RowInv'
  BY <1>1, <1>2, <1>8, <1>9 DEF OriginInv, RowInv, LookedAt, Forfeit, Unused
<1>5. UploadInv'
  BY <1>1, <1>2, <1>9 DEF UploadInv, TypeOK
<1>6. ToolInv'
  BY <1>1, <1>2, ArtifactsAssumption DEF ToolInv
<1>7. LoadInv'
  BY <1>1, <1>8 DEF LoadInv
<1> QED  BY <1>3, <1>4, <1>5, <1>6, <1>7

LEMMA CompleteFailsKeepsIInv ==
    ASSUME IInv, NEW k \in Completions, CompleteFails(k)
    PROVE  IInv'
<1> USE DEF IInv, Types, Leave, Proceed, tools, store, ghosts
<1>1. /\ step[k] \in {"publishing", "deleting"} /\ step' = [step EXCEPT ![k] = "failed"]
      /\ measured' = [measured EXCEPT ![k] = NoContent]
      /\ UNCHANGED <<store, tools, upload, ghosts>>
  BY DEF CompleteFails
<1>2. Types' /\ OriginInv' /\ ToolInv' /\ RowInv' /\ LoadInv'
  BY <1>1 DEF TypeOK, Contents, NoContent, OriginInv, LookedAt, Forfeit, Unused, ToolInv, RowInv,
              LoadInv
<1>3. UploadInv'
  BY <1>1 DEF UploadInv, TypeOK
<1> QED  BY <1>2, <1>3

-----------------------------------------------------------------------------
(* Store, table, tools and completions, in every reachable state. *)
THEOREM Invariance == Spec => []IInv
<1>1. IInv /\ [Next]_vars => IInv'
  <2> SUFFICES ASSUME IInv, [Next]_vars PROVE IInv'
    OBVIOUS
  <2>1. ASSUME NEW t \in Tools, NEW a \in Artifacts,
               generate_chart(t, a) \/ export_xlsx(t, a) \/ generate_pdf(t, a)
               \/ generate_forecast(t, a) \/ execute_python(t, a)
        PROVE  IInv'
    <3>1. \E n \in Nat, b \in Ids : Begin(t, b, n)
      BY <2>1, ArtifactsAssumption DEF generate_chart, export_xlsx, generate_pdf,
                                       generate_forecast, execute_python, Ids
    <3> QED  BY <3>1, BeginKeepsIInv
  <2>2. ASSUME NEW t \in Tools,
               Open(t) \/ Load(t) \/ Save(t) \/ Insert(t) \/ Answer(t) \/ ToolFails(t)
        PROVE  IInv'
    BY <2>2, InputKeepsIInv, SaveKeepsIInv, InsertKeepsIInv, EndKeepsIInv
  <2>3. ASSUME NEW a \in Artifacts, RegisterInit(a) \/ Put(a) \/ Expire(a)
        PROVE  IInv'
    BY <2>3, UrlKeepsIInv, PutKeepsIInv
  <2>4. ASSUME NEW k \in Completions,
               (\E a \in Artifacts : Measure(k, a))
               \/ NotFound(k) \/ Refuse(k) \/ Publish(k) \/ CompleteFails(k)
        PROVE  IInv'
    BY <2>4, MeasureKeepsIInv, NotFoundKeepsIInv, RefuseKeepsIInv, PublishKeepsIInv,
       CompleteFailsKeepsIInv
  <2>5. CASE UNCHANGED vars
    BY <2>5 DEF vars, store, tools, completions, ghosts, IInv, Types, TypeOK, OriginInv, ToolInv,
                UploadInv, RowInv, LoadInv, LookedAt, Forfeit, Unused
  <2> QED  BY <2>1, <2>2, <2>3, <2>4, <2>5 DEF Next
<1> QED  BY InitIInv, <1>1, PTL DEF Spec

(* The types of the state: no count of outputs falls below zero. *)
THEOREM TypeCorrect == Spec => []TypeOK
<1>1. IInv => TypeOK  BY DEF IInv, Types
<1> QED  BY Invariance, <1>1, PTL

(* A row names the payload it vouches for, unless its uploader wrote it again, or
   a completion was sent for a tool's artifact above the limit. *)
THEOREM PublishedIsWholeHolds == Spec => []PublishedIsWhole
<1>1. IInv => PublishedIsWhole  BY DEF IInv, RowInv, PublishedIsWhole
<1> QED  BY Invariance, <1>1, PTL

(* What a tool saved and has no row, or is not in its answer, is that of a call that
   is running or has failed. *)
THEOREM LeftoverNeedsAFaultHolds == Spec => []LeftoverNeedsAFault
<1>1. IInv => LeftoverNeedsAFault
  BY DEF IInv, Types, ToolInv, LeftoverNeedsAFault
<1> QED  BY Invariance, <1>1, PTL

(* A tool works on the content that was published under its input's id. *)
THEOREM WorksOnWhatWasPublishedHolds == Spec => []WorksOnWhatWasPublished
<1>1. IInv => WorksOnWhatWasPublished  BY DEF IInv, LoadInv, WorksOnWhatWasPublished
<1> QED  BY Invariance, <1>1, PTL

\* Publication is for good: no step takes a row back, makes it vouch for something
\* else or changes its payload, but the uploader's own PUT after it asked for
\* completion, and the completion that deletes a tool's artifact for its size.
PublicationIsFinal ==
    \A a \in row :
      /\ a \in row' /\ verified'[a] = verified[a]
      /\ a \notin reused' =>
            \/ object'[a] = object[a]
            \/ (object'[a] = NoContent /\ Forfeit(a))

\* What a step does to the rows, and to the payloads tools have saved.
LEMMA RowsStay ==
    ASSUME IInv, [Next]_vars, NEW a \in row
    PROVE  /\ a \in row' /\ verified'[a] = verified[a] /\ madeBy'[a] = madeBy[a]
           /\ a \in reused => a \in reused'
           /\ madeBy[a] # NoTool => object'[a] = object[a] \/ (object'[a] = NoContent /\ Forfeit(a))
<1>1. a \in Artifacts /\ ~Unused(a)
  BY DEF IInv, Types, TypeOK, OriginInv, Unused
<1>2. CASE UNCHANGED <<row, verified, madeBy, reused, object>>
  BY <1>2
<1>3. ASSUME NEW t \in Tools, Insert(t)
      PROVE  row \subseteq row' /\ UNCHANGED <<object, verified, madeBy, reused>>
  BY <1>3 DEF Insert, ghosts
<1>4. ASSUME NEW t \in Tools, Save(t)
      PROVE  /\ UNCHANGED <<row, reused>>
             /\ object'[a] = object[a] /\ verified'[a] = verified[a] /\ madeBy'[a] = madeBy[a]
  <2>1. PICK b \in Artifacts, size \in Sizes :
          /\ Unused(b) /\ object' = [object EXCEPT ![b] = Made(size)]
          /\ verified' = [verified EXCEPT ![b] = Made(size)]
          /\ madeBy' = [madeBy EXCEPT ![b] = t] /\ UNCHANGED <<row, reused>>
    BY <1>4 DEF Save
  <2>2. b # a
    BY <1>1, <2>1
  <2> QED  BY <1>1, <2>1, <2>2 DEF IInv, Types, TypeOK
<1>5. ASSUME NEW k \in Completions, Publish(k)
      PROVE  /\ a \in row' /\ verified'[a] = verified[a]
             /\ UNCHANGED <<object, madeBy, reused>>
  BY <1>1, <1>5 DEF IInv, Publish, Types
<1>6. ASSUME NEW k \in Completions, Refuse(k)
      PROVE  /\ UNCHANGED <<row, verified, madeBy, reused>>
             /\ madeBy[a] # NoTool => object'[a] = object[a] \/ (object'[a] = NoContent /\ Forfeit(a))
  <2>1. /\ UNCHANGED <<row, verified, madeBy, reused>> /\ step[k] = "deleting"
        /\ object' = [object EXCEPT ![upload[k]] = NoContent]
    BY <1>6 DEF Refuse, ghosts
  <2>2. upload[k] = a /\ madeBy[a] # NoTool => Forfeit(a)
    BY <2>1 DEF IInv, UploadInv, Forfeit, LookedAt
  <2> QED  BY <1>1, <2>1, <2>2 DEF IInv, Types, TypeOK
<1>7. ASSUME NEW b \in Artifacts, Put(b)
      PROVE  /\ UNCHANGED <<row, verified, madeBy>> /\ reused \subseteq reused'
             /\ madeBy[a] # NoTool => object'[a] = object[a]
  <2>1. /\ url[b] = "open" /\ \E new : object' = [object EXCEPT ![b] = new]
        /\ UNCHANGED <<row, verified, madeBy>> /\ reused \subseteq reused'
    BY <1>7 DEF Put
  <2>2. madeBy[a] # NoTool => a # b
    BY <1>1, <2>1 DEF IInv, OriginInv
  <2> QED  BY <1>1, <2>1, <2>2 DEF IInv, Types, TypeOK
<1>8. ASSUME NEW t \in Tools, NEW b, NEW n, Begin(t, b, n)
      PROVE  UNCHANGED <<row, verified, madeBy, reused, object>>
  BY <1>8 DEF Begin, store, ghosts
<1>9. ASSUME NEW t \in Tools, NEW b \in Artifacts,
             generate_chart(t, b) \/ export_xlsx(t, b) \/ generate_pdf(t, b)
             \/ generate_forecast(t, b) \/ execute_python(t, b)
      PROVE  UNCHANGED <<row, verified, madeBy, reused, object>>
  BY <1>8, <1>9
     DEF generate_chart, export_xlsx, generate_pdf, generate_forecast, execute_python
<1>10. ASSUME NEW t \in Tools, Open(t) \/ Load(t) \/ Answer(t) \/ ToolFails(t)
       PROVE  UNCHANGED <<row, verified, madeBy, reused, object>>
  BY <1>10 DEF Open, Load, Answer, ToolFails, store, ghosts
<1>11. ASSUME NEW b \in Artifacts, RegisterInit(b) \/ Expire(b)
       PROVE  UNCHANGED <<row, verified, madeBy, reused, object>>
  BY <1>11 DEF RegisterInit, Expire, ghosts
<1>12. ASSUME NEW k \in Completions,
              (\E b \in Artifacts : Measure(k, b)) \/ NotFound(k) \/ CompleteFails(k)
       PROVE  UNCHANGED <<row, verified, madeBy, reused, object>>
  BY <1>12 DEF Measure, NotFound, CompleteFails, store, ghosts
<1>13. CASE UNCHANGED vars
  BY <1>13 DEF vars, store, ghosts
<1> QED
  BY <1>2, <1>3, <1>4, <1>5, <1>6, <1>7, <1>9, <1>10, <1>11, <1>12, <1>13 DEF Next

(* What the model or an uploader was told is published stays published, with the
   content it was published with, through every failure and repetition; but for the
   uploader's later PUT and the deletion of a tool's artifact above the limit. *)
THEOREM PublicationIsFinalHolds == Spec => [][PublicationIsFinal]_vars
<1>1. IInv /\ IInv' /\ [Next]_vars => [PublicationIsFinal]_vars
  <2> SUFFICES ASSUME IInv, IInv', [Next]_vars, NEW a \in row
               PROVE  /\ a \in row' /\ verified'[a] = verified[a]
                      /\ a \notin reused' =>
                            object'[a] = object[a] \/ (object'[a] = NoContent /\ Forfeit(a))
    BY DEF PublicationIsFinal
  <2>1. /\ a \in row' /\ verified'[a] = verified[a] /\ madeBy'[a] = madeBy[a]
        /\ a \in reused => a \in reused'
        /\ madeBy[a] # NoTool => object'[a] = object[a] \/ (object'[a] = NoContent /\ Forfeit(a))
    BY RowsStay
  <2>2. CASE madeBy[a] = NoTool
    <3>1. a \notin reused' => object[a] = verified[a] /\ object'[a] = verified'[a]
      BY <2>1, <2>2 DEF IInv, RowInv, Forfeit
    <3>2. a \notin reused' => object'[a] = object[a]
      BY <2>1, <3>1
    <3> QED  BY <2>1, <3>2
  <2> QED  BY <2>1, <2>2
<1> QED  BY Invariance, <1>1, PTL DEF Spec
=============================================================================
