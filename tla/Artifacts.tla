------------------------------ MODULE Artifacts ------------------------------
(***************************************************************************)
(* Artifacts: payloads in an object store and the table artifacts that     *)
(* names them (app/storage.py).  Tools read datasets and register what     *)
(* they make (app/tools_output.py, execute_python and generate_forecast in *)
(* app/tools.py); a custom tool uploads with a signed URL between          *)
(* register-init and register-complete (app/main.py).  Store and database  *)
(* are two systems: every call to one of them is a step, and may fail.     *)
(***************************************************************************)
EXTENDS Integers, FiniteSets

CONSTANTS
    Artifacts,    \* artifact ids (uuid4)
    NoArtifact,
    Tools,        \* tool calls, each made once
    Completions,  \* requests of register-complete, repeated ones included
    MaxOutputs,   \* artifacts one execute_python may publish (5 in the code)
    MaxPuts       \* bound: PUTs to one upload URL

NoTool == "nobody"

ASSUME ArtifactsAssumption ==
    /\ NoArtifact \notin Artifacts /\ NoTool \notin Tools
    /\ MaxOutputs \in Nat \ {0, 1} /\ MaxPuts \in Nat \ {0}

VARIABLES
    object,     \* object store: the content at an artifact's path
    row,        \* table artifacts: ids that have a row
    url,        \* signed PUT URL of an id: none, open, expired
    pc,         \* where a tool call is
    input,      \* the dataset it reads, or NoArtifact
    left,       \* outputs it still has to register
    current,    \* the id being registered
    outputs,    \* ids registered by it, its answer to the model
    step,       \* where a register-complete is
    upload,     \* the id whose object it has measured
    measured    \* the content whose size it looked at

(* History variables. *)
VARIABLES
    madeBy,     \* madeBy[a]: the tool call that saved a
    verified,   \* verified[a]: what a's row vouches for: the content a tool
                \* saved, or the one a completion measured
    loaded,     \* loaded[t]: the content tool call t worked on
    reused      \* uploads written again after a completion had looked at them

store == <<object, row, url>>
tools == <<pc, input, left, current, outputs>>
completions == <<step, upload, measured>>
ghosts == <<madeBy, verified, loaded, reused>>
vars == <<store, tools, completions, ghosts>>

NoContent == [size |-> "none", put |-> 0]

\* Sizes, against the limit of register-complete (_MAX_CUSTOM_ARTIFACT_BYTES).
Sizes == {"fits", "exceeds"}

\* What a tool saves: nothing on its way measures it.
Made(size) == [size |-> size, put |-> 0]

Init ==
    /\ object = [a \in Artifacts |-> NoContent] /\ row = {}
    /\ url = [a \in Artifacts |-> "none"]
    /\ pc = [t \in Tools |-> "idle"] /\ input = [t \in Tools |-> NoArtifact]
    /\ left = [t \in Tools |-> 0] /\ current = [t \in Tools |-> NoArtifact]
    /\ outputs = [t \in Tools |-> {}]
    /\ step = [k \in Completions |-> "idle"]
    /\ upload = [k \in Completions |-> NoArtifact]
    /\ measured = [k \in Completions |-> NoContent]
    /\ madeBy = [a \in Artifacts |-> NoTool]
    /\ verified = [a \in Artifacts |-> NoContent]
    /\ loaded = [t \in Tools |-> NoContent] /\ reused = {}

Goto(t, label) == pc' = [pc EXCEPT ![t] = label]
Proceed(k, label) == step' = [step EXCEPT ![k] = label]

\* A request is answered: nothing of it is left.
Leave(k, label) == Proceed(k, label) /\ measured' = [measured EXCEPT ![k] = NoContent]

\* uuid.uuid4(): an id nobody has.
Unused(a) == url[a] = "none" /\ madeBy[a] = NoTool

-----------------------------------------------------------------------------
(* Tools. *)

Begin(t, a, n) ==
    /\ pc[t] = "idle"
    /\ Goto(t, IF a = NoArtifact THEN "working" ELSE "opening")
    /\ input' = [input EXCEPT ![t] = a] /\ left' = [left EXCEPT ![t] = n]
    /\ UNCHANGED <<store, current, outputs, completions, ghosts>>

generate_chart(t, a) == Begin(t, a, 1)
export_xlsx(t, a) == Begin(t, a, 1)
generate_pdf(t, a) == Begin(t, a, 1) \/ Begin(t, NoArtifact, 1)
generate_forecast(t, a) == Begin(t, a, 2)
execute_python(t, a) ==
    \E n \in 0..MaxOutputs : Begin(t, a, n) \/ Begin(t, NoArtifact, n)

\* Fault: the path is known from register-init, the row is not asked for.
OpenByPath(t) ==
    /\ pc[t] = "opening"
    /\ Goto(t, "loading")
    /\ UNCHANGED <<store, input, left, current, outputs, completions, ghosts>>

\* get_artifact finds the row.
Open(t) ==
    /\ pc[t] = "opening" /\ input[t] \in row
    /\ Goto(t, "loading")
    /\ UNCHANGED <<store, input, left, current, outputs, completions, ghosts>>

\* load_payload
Load(t) ==
    /\ pc[t] = "loading" /\ object[input[t]] # NoContent
    /\ Goto(t, "working")
    /\ loaded' = [loaded EXCEPT ![t] = object[input[t]]]
    /\ UNCHANGED <<store, input, left, current, outputs, completions, madeBy, verified, reused>>

\* Fault: whatever the code published is registered, without a limit.
SaveUnlimited(t) ==
    /\ pc[t] = "working"
    /\ \E a \in Artifacts, size \in Sizes :
          /\ Unused(a)
          /\ current' = [current EXCEPT ![t] = a]
          /\ object' = [object EXCEPT ![a] = Made(size)]
          /\ verified' = [verified EXCEPT ![a] = Made(size)]
          /\ madeBy' = [madeBy EXCEPT ![a] = t]
    /\ Goto(t, "saved")
    /\ UNCHANGED <<row, url, input, left, outputs, completions, loaded, reused>>

\* register_artifact: save_payload under a new id...
Save(t) ==
    /\ pc[t] = "working" /\ left[t] > 0
    /\ \E a \in Artifacts, size \in Sizes :
          /\ Unused(a)
          /\ current' = [current EXCEPT ![t] = a]
          /\ object' = [object EXCEPT ![a] = Made(size)]
          /\ verified' = [verified EXCEPT ![a] = Made(size)]
          /\ madeBy' = [madeBy EXCEPT ![a] = t]
    /\ Goto(t, "saved")
    /\ UNCHANGED <<row, url, input, left, outputs, completions, loaded, reused>>

\* Fault: only the last descriptor is handed back.
InsertKeepingLast(t) ==
    /\ pc[t] = "saved" /\ current[t] \notin row
    /\ row' = row \cup {current[t]}
    /\ outputs' = [outputs EXCEPT ![t] = {current[t]}]
    /\ left' = [left EXCEPT ![t] = @ - 1]
    /\ Goto(t, "working")
    /\ UNCHANGED <<object, url, input, current, completions, ghosts>>

\* ...then the INSERT; the descriptor joins the answer.
Insert(t) ==
    /\ pc[t] = "saved" /\ current[t] \notin row
    /\ row' = row \cup {current[t]}
    /\ outputs' = [outputs EXCEPT ![t] = @ \cup {current[t]}]
    /\ left' = [left EXCEPT ![t] = @ - 1]
    /\ Goto(t, "working")
    /\ UNCHANGED <<object, url, input, current, completions, ghosts>>

Answer(t) ==
    /\ pc[t] = "working" /\ left[t] = 0
    /\ Goto(t, "ok")
    /\ current' = [current EXCEPT ![t] = NoArtifact]
    /\ UNCHANGED <<store, input, left, outputs, completions, ghosts>>

\* The dataset is not accessible, the arguments do not fit it, the code times
\* out, or store or database raise (an id that has a row already included): the
\* model gets an error and no descriptor, of the artifacts already registered
\* neither.
ToolFails(t) ==
    /\ pc[t] \in {"opening", "loading", "working", "saved"}
    /\ Goto(t, "error")
    /\ outputs' = [outputs EXCEPT ![t] = {}] /\ left' = [left EXCEPT ![t] = 0]
    /\ current' = [current EXCEPT ![t] = NoArtifact]
    /\ UNCHANGED <<store, input, completions, ghosts>>

-----------------------------------------------------------------------------
(* Direct uploads. *)

\* register-init: a new id and a signed URL for its path.
RegisterInit(a) ==
    /\ Unused(a)
    /\ url' = [url EXCEPT ![a] = "open"]
    /\ UNCHANGED <<object, row, tools, completions, ghosts>>

LookedAt(a) == \E k \in Completions : upload[k] = a

\* The uploader PUTs bytes: the URL takes them as often as it is used.
Put(a) ==
    /\ url[a] = "open" /\ object[a].put < MaxPuts
    /\ \E size \in Sizes :
          object' = [object EXCEPT ![a] = [size |-> size, put |-> @.put + 1]]
    /\ reused' = IF LookedAt(a) THEN reused \cup {a} ELSE reused
    /\ UNCHANGED <<row, url, tools, completions, madeBy, verified, loaded>>

\* Fifteen minutes have passed.
Expire(a) ==
    /\ url[a] = "open"
    /\ url' = [url EXCEPT ![a] = "expired"]
    /\ UNCHANGED <<object, row, tools, completions, ghosts>>

\* register-complete: the size of what is at the path of the id in the request,
\* which may be any id.
Measure(k, a) ==
    /\ step[k] = "idle" /\ object[a] # NoContent
    /\ Proceed(k, IF object[a].size = "fits" THEN "publishing" ELSE "deleting")
    /\ upload' = [upload EXCEPT ![k] = a]
    /\ measured' = [measured EXCEPT ![k] = object[a]]
    /\ UNCHANGED <<store, tools, ghosts>>

\* 404: there is nothing at the path, or asking for its size raised.
NotFound(k) ==
    /\ step[k] = "idle"
    /\ Proceed(k, "refused")
    /\ UNCHANGED <<store, tools, upload, measured, ghosts>>

\* 413: the object is deleted, whatever is at the path by now.
Refuse(k) ==
    /\ step[k] = "deleting"
    /\ Leave(k, "refused")
    /\ object' = [object EXCEPT ![upload[k]] = NoContent]
    /\ UNCHANGED <<row, url, tools, upload, ghosts>>

\* register_uploaded_artifact
Publish(k) ==
    /\ step[k] = "publishing" /\ upload[k] \notin row
    /\ Leave(k, "ok")
    /\ row' = row \cup {upload[k]}
    /\ verified' = [verified EXCEPT ![upload[k]] = measured[k]]
    /\ UNCHANGED <<object, url, tools, upload, madeBy, loaded, reused>>

\* Fault: a completion that cannot insert its row cleans up its upload.
CompleteFailsAndCleans(k) ==
    /\ step[k] \in {"publishing", "deleting"}
    /\ Leave(k, "failed")
    /\ object' = [object EXCEPT ![upload[k]] = NoContent]
    /\ UNCHANGED <<row, url, tools, upload, ghosts>>

\* The INSERT raises - the id has a row already, as when the request is
\* repeated, or the database fails - or deleting does: 500.
CompleteFails(k) ==
    /\ step[k] \in {"publishing", "deleting"}
    /\ Leave(k, "failed")
    /\ UNCHANGED <<store, tools, upload, ghosts>>

-----------------------------------------------------------------------------
Next ==
    \/ \E t \in Tools :
          \/ \E a \in Artifacts :
                \/ generate_chart(t, a) \/ export_xlsx(t, a) \/ generate_pdf(t, a)
                \/ generate_forecast(t, a) \/ execute_python(t, a)
          \/ Open(t) \/ Load(t) \/ Save(t) \/ Insert(t) \/ Answer(t) \/ ToolFails(t)
    \/ \E a \in Artifacts : RegisterInit(a) \/ Put(a) \/ Expire(a)
    \/ \E k \in Completions :
          \/ \E a \in Artifacts : Measure(k, a)
          \/ NotFound(k) \/ Refuse(k) \/ Publish(k) \/ CompleteFails(k)

Spec == Init /\ [][Next]_vars

-----------------------------------------------------------------------------
Contents == [size : {"none", "fits", "exceeds"}, put : Nat]
Ids == Artifacts \cup {NoArtifact}

TypeOK ==
    /\ object \in [Artifacts -> Contents] /\ row \subseteq Artifacts
    /\ url \in [Artifacts -> {"none", "open", "expired"}]
    /\ pc \in [Tools -> {"idle", "opening", "loading", "working", "saved", "ok", "error"}]
    /\ input \in [Tools -> Ids] /\ current \in [Tools -> Ids]
    /\ left \in [Tools -> Nat] /\ outputs \in [Tools -> SUBSET Artifacts]
    /\ step \in [Completions -> {"idle", "publishing", "deleting", "ok", "refused", "failed"}]
    /\ upload \in [Completions -> Ids] /\ measured \in [Completions -> Contents]

\* A tool's artifact above the limit of the uploads, on which a completion was
\* asked for: register-complete deletes its payload, row or no row.
Forfeit(a) == madeBy[a] # NoTool /\ verified[a].size = "exceeds" /\ LookedAt(a)

(* A row names the payload it vouches for, which is there and, for an upload,
   within the limit, whoever fails between the two systems and however often and
   for whichever id a completion is sent.  There are two exceptions: an uploader
   who writes again after asking for completion breaks its own artifact, and a
   completion sent for a tool's artifact above the limit leaves its row with no
   payload. *)
PublishedIsWhole ==
    \A a \in row \ reused :
        \/ object[a] = verified[a] /\ (madeBy[a] = NoTool => object[a].size = "fits")
        \/ object[a] = NoContent /\ Forfeit(a)

(* Nothing is left behind without a failure: a payload of a tool that has no row,
   and a row the model was not told of, belong to a call that is still running or
   has reported an error. *)
LeftoverNeedsAFault ==
    \A a \in Artifacts : madeBy[a] # NoTool /\ pc[madeBy[a]] = "ok" =>
        a \in row /\ a \in outputs[madeBy[a]]

(* A chart, sheet or forecast is made from the content that was published under
   its input's id, not from one that was there before or after. *)
WorksOnWhatWasPublished ==
    \A t \in Tools : loaded[t] # NoContent /\ input[t] \notin reused =>
        loaded[t] = verified[input[t]]
=============================================================================
