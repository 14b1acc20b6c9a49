---------------------------- MODULE ProjectStore ----------------------------
(***************************************************************************)
(* One project in the database (src/backend/app/storage_persistence.py):   *)
(* its draft, its generation runs, the confirmed review stages, and the    *)
(* audio and video artifacts made from the draft.                          *)
(*                                                                         *)
(* Every operation opens a connection, reads and checks, and then writes.  *)
(* The reads take no lock, so an operation is two actions: Open..., which  *)
(* remembers what was read, and Commit..., the write transaction.  MaxOpen *)
(* bounds how many operations are between the two, Apart which of them are *)
(* not so together; with MaxOpen 1 the database behaves as if operations   *)
(* were serialised.  Jobs that work for minutes between reading their      *)
(* input and writing their result are not open while they work.            *)
(***************************************************************************)
EXTENDS Naturals, Sequences, FiniteSets

CONSTANTS
    Callers,      \* browser tabs and worker threads
    Runs,         \* generation runs
    Mode,         \* the mode of a run: audio, video or hl
    Reviewed,     \* runs whose stages a person confirms
    None,         \* no run
    Explored,     \* bound: the operations that callers begin
    MaxOpen,      \* bound: operations between their reads and their writes
    Apart,        \* bound: pairs of operations that are not both between them
    MaxEdits,     \* bound: new contents
    MaxRevisions, \* bound: revisions
    MaxSources,   \* bound: PDFs uploaded
    OneReviewer,  \* the assignment is not confirmed while another one is generated
    Retry         \* a restored job generates its run again

Stages == {"layout", "script", "assignment"}
Saves == {"autosave", "save", "rename"}
Ops == {"none", "pdf", "run", "confirm", "generate", "assign",
        "video", "video_highlight", "preview"} \cup Saves

(* The operations that replace the draft. *)
DraftWriters == {"pdf", "generate", "assign"} \cup Saves

ASSUME ProjectStoreAssumption ==
    /\ None \notin Runs
    /\ Mode \in [Runs -> {"audio", "video", "hl"}]
    /\ Reviewed \subseteq Runs
    /\ Explored \subseteq Ops
    /\ Apart \subseteq Ops \X Ops
    /\ MaxOpen \in Nat \ {0}
    /\ MaxEdits \in Nat /\ MaxRevisions \in Nat /\ MaxSources \in Nat
    /\ OneReviewer \in BOOLEAN /\ Retry \in BOOLEAN

VARIABLES
    project,   \* the projects row, its draft and its last revision number
    run,       \* the generation_runs table
    stage,     \* the latest review_stage_versions row of every run and stage
    audio,     \* active preview_audio artifacts
    render,    \* active final_render artifacts
    edits,     \* contents written so far
    loaded,    \* the draft as each tab last loaded or saved it
    call       \* the operation each caller is in the middle of

vars == <<project, run, stage, audio, render, edits, loaded, call>>

-----------------------------------------------------------------------------
(* The draft.  A part is what _layout_signature, _script_signature and     *)
(* _assignment_signature see of the state; a content is a number, fresh    *)
(* for every edit, so that two contents are equal only if one is a copy of *)
(* the other.  `partial` is the run whose layout a tab saved before the    *)
(* run was complete (generation_ref.partial_stage).                        *)
Content == [Stages -> Nat]
Draft == [version : Nat, parts : Content, partial : Runs \cup {None}]
Project == [source : Nat, active : Runs \cup {None}, draft : Draft, revision : Nat]

Run == [status : {"none", "live", "superseded"}, source : Nat, generated : BOOLEAN]
Stage == [revision : Nat, status : {"none", "confirmed", "stale"}, parts : Content]

(* `seen` is what the operation has read, `draft` what it was asked to     *)
(* save, confirm, render or speak, `outputs` the stages it builds on, each *)
(* named by its output revision, and `rest` the stages still to confirm.   *)
Call == [op : Ops, pc : {"idle", "between", "upload", "freeze", "working", "open"},
         run : Runs \cup {None}, seen : Project, draft : Draft,
         outputs : [Stages -> Nat], rest : Seq(Stages)]

Blank == [s \in Stages |-> 0]
BlankDraft == [version |-> 1, parts |-> Blank, partial |-> None]
BlankProject == [source |-> 1, active |-> None, draft |-> BlankDraft, revision |-> 0]
IdleCall == [op |-> "none", pc |-> "idle", run |-> None, seen |-> BlankProject,
             draft |-> BlankDraft, outputs |-> Blank, rest |-> <<>>]

TypeOK ==
    /\ project \in Project
    /\ run \in [Runs -> Run]
    /\ stage \in [Runs -> [Stages -> Stage]]
    /\ audio \subseteq [run : Runs, script : Nat]
    /\ render \subseteq [run : Runs, type : {"video", "video_highlight"}, parts : Content]
    /\ edits \in Nat
    /\ loaded \in [Callers -> Draft]
    /\ call \in [Callers -> Call]

Init ==
    /\ project = BlankProject
    /\ run = [r \in Runs |-> [status |-> "none", source |-> 0, generated |-> FALSE]]
    /\ stage = [r \in Runs |-> [s \in Stages |->
                    [revision |-> 0, status |-> "none", parts |-> Blank]]]
    /\ audio = {} /\ render = {}
    /\ edits = 0
    /\ loaded = [c \in Callers |-> BlankDraft]
    /\ call = [c \in Callers |-> IdleCall]

-----------------------------------------------------------------------------
(* The control of a call *)

Idle(c) == call[c].pc = "idle"
Begins(c, op) == Idle(c) /\ op \in Explored
Become(c, rec) == call' = [call EXCEPT ![c] = rec]
Finish(c) == Become(c, IdleCall)

(* The operation has read the project and not yet begun to write. *)
Opened == {c \in Callers : call[c].pc \in {"upload", "freeze", "open"}}
OpenAt(c, rec, pc) ==
    /\ Cardinality(Opened) < MaxOpen
    /\ \A d \in Opened : {<<rec.op, call[d].op>>, <<call[d].op, rec.op>>} \cap Apart = {}
    /\ Become(c, [rec EXCEPT !.pc = pc, !.seen = project])
Open(c, rec) == OpenAt(c, rec, "open")

(* A content nobody has written yet. *)
Fresh == edits + 1
Edit == edits < MaxEdits /\ edits' = Fresh

Confirmed(r, s) == stage[r][s].status = "confirmed"

(* The stages of a run, with those in S no longer confirmed: _mark_stale.  *)
MarkStaleUntyped(r, S) ==  \* variant: the wrong status
    stage' = [q \in Runs |-> [s \in Stages |->
        IF q = r /\ s \in S /\ Confirmed(q, s) THEN [stage[q][s] EXCEPT !.status = "superseded"]
                                               ELSE stage[q][s]]]
MarkStale(r, S) ==
    stage' = [q \in Runs |-> [s \in Stages |->
        IF q = r /\ s \in S /\ Confirmed(q, s) THEN [stage[q][s] EXCEPT !.status = "stale"]
                                               ELSE stage[q][s]]]

(* A run stops being the active one: its status, its stages and its        *)
(* artifacts follow (its jobs as well, see JobManager).  A live run is one *)
(* that is queued, running or completed.                                   *)
SupersededUnfinished(r) ==  \* variant: a completed run is left alone
    [q \in Runs |-> IF q = r /\ run[q].status = "live" /\ ~run[q].generated
                    THEN [run[q] EXCEPT !.status = "superseded"] ELSE run[q]]
SupersededRun(r) ==
    [q \in Runs |-> IF q = r /\ run[q].status = "live"
                    THEN [run[q] EXCEPT !.status = "superseded"] ELSE run[q]]
Withdraw(r) ==
    /\ MarkStale(r, Stages)
    /\ audio' = {a \in audio : a.run # r}
    /\ render' = {a \in render : a.run # r}

(* create_revision numbers a revision after the last one it has read; the  *)
(* table refuses a number twice.                                           *)
MayRevise == project.revision < MaxRevisions
RevisionUnchecked(c) == TRUE  \* variant: no UNIQUE (project_id, revision_number)
RevisionFree(c) == call[c].seen.revision = project.revision

-----------------------------------------------------------------------------
(* get_project_v2: a tab loads the project. *)
Load(c) ==
    /\ Idle(c) /\ loaded[c] # project.draft
    /\ loaded' = [loaded EXCEPT ![c] = project.draft]
    /\ UNCHANGED <<project, run, stage, audio, render, edits, call>>

(* save_project_draft.  The tab sends the whole state: the parts it has    *)
(* edited and the others as it loaded them.  The version it names is the   *)
(* one it loaded when it saves by itself or before a confirmation, and the *)
(* one it has just asked for in saveProject, when the user saves.          *)
BaseVersion(c, op) == IF op = "autosave" THEN loaded[c].version ELSE project.draft.version
BaseNotNewer(c, op) ==  \* variant: an older base is accepted
    BaseVersion(c, op) <= project.draft.version
BaseMatches(c, op) == BaseVersion(c, op) = project.draft.version

Edited(c, S) == [s \in Stages |-> IF s \in S THEN Fresh ELSE loaded[c].parts[s]]

OpenSave(c, op) ==
    /\ Begins(c, op) /\ BaseMatches(c, op) /\ Edit
    /\ \E S \in SUBSET Stages :
       \E p \in {loaded[c].partial} \cup {r \in Runs : r = project.active /\ ~run[r].generated} :
          Open(c, [IdleCall EXCEPT !.op = op,
                      !.draft = [version |-> project.draft.version + 1,
                                 parts |-> Edited(c, S), partial |-> p]])
    /\ UNCHANGED <<project, run, stage, audio, render, loaded>>

(* updateProjectName asks for the project and sends the draft back as it   *)
(* is, under another name; what the tab has loaded does not matter.        *)
OpenRename(c) ==
    /\ Begins(c, "rename") /\ Edit
    /\ Open(c, [IdleCall EXCEPT !.op = "rename",
                   !.draft = [project.draft EXCEPT !.version = @ + 1]])
    /\ UNCHANGED <<project, run, stage, audio, render, loaded>>

(* What a save has to withdraw: every changed stage, and the assignment,   *)
(* which is made from the layout and the script.                           *)
Changed(old, new) == {s \in Stages : old[s] # new[s]}
InvalidatedAlone(S) == S  \* variant: the assignment outlives the layout and the script
Invalidated(S) == IF S = {} THEN {} ELSE S \cup {"assignment"}

CommitSave(c) ==
    LET seen == call[c].seen
        S == Changed(seen.draft.parts, call[c].draft.parts)
    IN /\ call[c].op \in Saves /\ call[c].pc = "open"
       /\ project' = [project EXCEPT !.draft = call[c].draft]
       /\ MarkStale(seen.active, Invalidated(S))
       /\ audio' = IF "script" \in S THEN {} ELSE audio
       /\ render' = IF S # {} THEN {} ELSE render
       /\ loaded' = IF call[c].op = "rename" THEN loaded
                    ELSE [loaded EXCEPT ![c] = call[c].draft]
       /\ Finish(c)
       /\ UNCHANGED <<run, edits>>

-----------------------------------------------------------------------------
(* save_source_pdf: the active run is read before the upload, the draft    *)
(* after it.                                                               *)
OpenPdf(c) ==
    /\ Begins(c, "pdf") /\ project.source < MaxSources
    /\ OpenAt(c, [IdleCall EXCEPT !.op = "pdf"], "upload")
    /\ UNCHANGED <<project, run, stage, audio, render, edits, loaded>>

PdfStored(c) ==
    /\ call[c].pc = "upload"
    /\ Become(c, [call[c] EXCEPT !.pc = "open", !.seen = [@ EXCEPT !.draft = project.draft]])
    /\ UNCHANGED <<project, run, stage, audio, render, edits, loaded>>

CommitPdf(c) ==
    LET seen == call[c].seen
        empty == [BlankDraft EXCEPT !.version = seen.draft.version + 1]
    IN /\ call[c].op = "pdf" /\ call[c].pc = "open"
       /\ project' = [source |-> project.source + 1, active |-> None, draft |-> empty,
                      revision |-> project.revision]
       /\ run' = SupersededRun(seen.active)
       /\ Withdraw(seen.active)
       /\ Finish(c)
       /\ UNCHANGED <<edits, loaded>>

(* create_generation_run_v2: the run takes the place of the one that was   *)
(* active when the project was read.                                       *)
OpenRun(c, r) ==
    /\ Begins(c, "run") /\ run[r].status = "none"
    /\ \A d \in Callers : call[d].op = "run" => call[d].run # r
    /\ Open(c, [IdleCall EXCEPT !.op = "run", !.run = r])
    /\ UNCHANGED <<project, run, stage, audio, render, edits, loaded>>

CommitRun(c) ==
    LET seen == call[c].seen  r == call[c].run IN
    /\ call[c].op = "run"
    /\ project' = [project EXCEPT !.active = r]
    /\ run' = [SupersededRun(seen.active) EXCEPT
                 ![r] = [status |-> "live", source |-> seen.source, generated |-> FALSE]]
    /\ Withdraw(seen.active)
    /\ Finish(c)
    /\ UNCHANGED <<edits, loaded>>

-----------------------------------------------------------------------------
(* confirm_review_stage.  A tab offers the stages of a run whose result it *)
(* shows, and the layout as soon as it has a partial one.  Within one tab  *)
(* an assignment is either being generated or offered for confirmation.    *)
ToConfirm(c) == {call[c].rest[n] : n \in 1..Len(call[c].rest)}

StartConfirm(c, r, s) ==
    /\ Begins(c, "confirm") /\ project.active = r
    /\ run[r].generated \/ (s = "layout" /\ loaded[c].partial = r)
    /\ s = "assignment" => Mode[r] = "hl"
    /\ s = "assignment" /\ OneReviewer => \A d \in Callers : call[d].op # "assign"
    /\ Become(c, [IdleCall EXCEPT !.op = "confirm", !.pc = "between", !.run = r,
                     !.draft = loaded[c],
                     !.rest = IF s = "script" /\ Mode[r] = "hl" /\ ~Confirmed(r, "layout")
                              THEN <<"layout", "script">> ELSE <<s>>])
    /\ UNCHANGED <<project, run, stage, audio, render, edits, loaded>>

(* The stages that have to be confirmed before this one. *)
Required(r, s) ==
    CASE s = "script" /\ Mode[r] = "hl" -> {"layout"}
      [] s = "assignment" -> {"layout", "script"}
      [] OTHER -> {}

Confirmable(c) ==
    LET r == call[c].run IN
    /\ project.active = r
    /\ project.draft.version = call[c].draft.version
    /\ \A s \in Required(r, Head(call[c].rest)) : Confirmed(r, s)

OpenConfirm(c) ==
    /\ call[c].op = "confirm" /\ call[c].pc = "between"
    /\ Confirmable(c) /\ MayRevise
    /\ Open(c, call[c])
    /\ UNCHANGED <<project, run, stage, audio, render, edits, loaded>>

(* The revision that was read becomes the output of a new stage version.   *)
CommitConfirm(c) ==
    LET r == call[c].run  s == Head(call[c].rest) IN
    /\ call[c].op = "confirm" /\ call[c].pc = "open" /\ RevisionFree(c)
    /\ project' = [project EXCEPT !.revision = call[c].seen.revision + 1]
    /\ stage' = [stage EXCEPT ![r][s] = [revision |-> call[c].seen.revision + 1,
                                         status |-> "confirmed",
                                         parts |-> call[c].seen.draft.parts]]
    /\ IF Len(call[c].rest) = 1
       THEN Finish(c)
       ELSE Become(c, [call[c] EXCEPT !.pc = "between", !.rest = Tail(@), !.seen = BlankProject])
    /\ UNCHANGED <<run, audio, render, edits, loaded>>

-----------------------------------------------------------------------------
(* A generation job: assert_generation_run_current, apply_generated_result *)
(* and the stages it confirms itself when nobody reviews them.  What was   *)
(* reviewed of the layout is kept: the confirmed layout, or the partial    *)
(* one in the draft.                                                       *)
RunOfSource(r) == project.source = run[r].source  \* variant: any run of the current PDF
RunCurrent(r) ==
    project.active = r /\ project.source = run[r].source /\ run[r].status # "superseded"

NewHighlights(r) == [s \in Stages |-> Fresh]  \* variant: the reviewed layout is not kept
KeptHighlights(r) ==
    CASE Confirmed(r, "layout") -> stage[r]["layout"].parts
      [] ~Confirmed(r, "layout") /\ project.draft.partial = r -> project.draft.parts
      [] OTHER -> [s \in Stages |-> Fresh]

AutoConfirmed(r) ==
    CASE r \in Reviewed -> <<>>
      [] r \notin Reviewed /\ Mode[r] = "hl" -> <<"layout", "script", "assignment">>
      [] OTHER -> <<"script">>

OpenGenerate(c, r) ==
    /\ Begins(c, "generate") /\ run[r].status # "none" /\ (run[r].generated => Retry)
    /\ \A d \in Callers : call[d].op = "generate" => call[d].run # r
    /\ RunCurrent(r) /\ MayRevise /\ Edit
    /\ Open(c, [IdleCall EXCEPT !.op = "generate", !.run = r,
                   !.draft = [version |-> project.draft.version + 1,
                              parts |-> [KeptHighlights(r) EXCEPT !["script"] = Fresh],
                              partial |-> None],
                   !.rest = AutoConfirmed(r)])
    /\ UNCHANGED <<project, run, stage, audio, render, loaded>>

CommitGenerate(c) ==
    LET r == call[c].run IN
    /\ call[c].op = "generate"
    /\ project' = [project EXCEPT !.draft = call[c].draft, !.active = r, !.revision = @ + 1]
    /\ run' = [run EXCEPT ![r].generated = TRUE]
    /\ IF call[c].rest = <<>>
       THEN Finish(c)
       ELSE Become(c, [call[c] EXCEPT !.op = "confirm", !.pc = "between", !.seen = BlankProject])
    /\ UNCHANGED <<stage, audio, render, edits, loaded>>

-----------------------------------------------------------------------------
(* A review assignment job: get_review_assignment_context, then the        *)
(* generation, then apply_review_assignment_result, which writes the       *)
(* reviewed layout and script back together with the new assignment.       *)
StartAssign(c, r) ==
    /\ Begins(c, "assign") /\ project.active = r /\ Mode[r] = "hl"
    /\ Confirmed(r, "layout") /\ Confirmed(r, "script")
    /\ OneReviewer => ~Confirmed(r, "assignment")
                      /\ \A d \in Callers : "assignment" \notin ToConfirm(d)
    /\ Become(c, [IdleCall EXCEPT !.op = "assign", !.pc = "working", !.run = r,
                     !.outputs = [s \in Stages |-> stage[r][s].revision],
                     !.draft = [@ EXCEPT !.parts =
                                   [s \in Stages |-> stage[r][s].parts[s]]]])
    /\ UNCHANGED <<project, run, stage, audio, render, edits, loaded>>

StageIsStill(c, s) ==
    Confirmed(call[c].run, s) /\ stage[call[c].run][s].revision = call[c].outputs[s]
ContextScriptCurrent(c) == StageIsStill(c, "script")  \* variant: the layout is not checked again
ContextCurrent(c) == \A s \in {"layout", "script"} : StageIsStill(c, s)

OpenAssign(c) ==
    /\ call[c].op = "assign" /\ call[c].pc = "working"
    /\ ContextCurrent(c) /\ MayRevise /\ Edit
    /\ Open(c, [call[c] EXCEPT !.draft =
            [version |-> project.draft.version + 1, partial |-> project.draft.partial,
             parts |-> [call[c].draft.parts EXCEPT !["assignment"] = Fresh]]])
    /\ UNCHANGED <<project, run, stage, audio, render, loaded>>

CommitAssign(c) ==
    /\ call[c].op = "assign" /\ call[c].pc = "open"
    /\ project' = [project EXCEPT !.draft = call[c].draft, !.revision = @ + 1]
    /\ Finish(c)
    /\ UNCHANGED <<run, stage, audio, render, edits, loaded>>

-----------------------------------------------------------------------------
(* A final render job.  A plain video freezes the draft when it is asked   *)
(* for (create_final_render_input_revision), a video with highlights is    *)
(* made from the confirmed assignment (get_final_render_context).          *)
OpenVideo(c, r) ==
    /\ Begins(c, "video") /\ project.active = r /\ Mode[r] # "audio" /\ run[r].generated
    /\ loaded[c].version = project.draft.version /\ MayRevise
    /\ OpenAt(c, [IdleCall EXCEPT !.op = "video", !.run = r, !.draft = project.draft], "freeze")
    /\ UNCHANGED <<project, run, stage, audio, render, edits, loaded>>

FreezeInput(c) ==
    /\ call[c].pc = "freeze" /\ RevisionFree(c)
    /\ project' = [project EXCEPT !.revision = call[c].seen.revision + 1]
    /\ Become(c, [call[c] EXCEPT !.pc = "working", !.seen = BlankProject])
    /\ UNCHANGED <<run, stage, audio, render, edits, loaded>>

StartHighlight(c, r) ==
    /\ Begins(c, "video_highlight") /\ project.active = r /\ Mode[r] = "hl"
    /\ Confirmed(r, "assignment")
    /\ Become(c, [IdleCall EXCEPT !.op = "video_highlight", !.pc = "working", !.run = r,
                     !.outputs = [s \in Stages |-> stage[r][s].revision],
                     !.draft = [@ EXCEPT !.parts = stage[r]["assignment"].parts]])
    /\ UNCHANGED <<project, run, stage, audio, render, edits, loaded>>

(* assert_final_render_context_current *)
RenderRunCurrent(c) == project.active = call[c].run  \* variant: the draft may have moved on
RenderInputCurrent(c) ==
    IF call[c].op = "video"
    THEN project.active = call[c].run /\ project.draft.version = call[c].draft.version
    ELSE StageIsStill(c, "assignment")

OpenRender(c) ==
    /\ call[c].op \in {"video", "video_highlight"} /\ call[c].pc = "working"
    /\ RenderInputCurrent(c) /\ MayRevise
    /\ Open(c, call[c])
    /\ UNCHANGED <<project, run, stage, audio, render, edits, loaded>>

(* publish_final_render_result: a revision, and the active artifact, over  *)
(* a connection of its own.  Of the revision only the number matters here, *)
(* so that the time between the two is part of the one before CommitRender.*)
CommitRender(c) ==
    /\ call[c].op \in {"video", "video_highlight"} /\ call[c].pc = "open"
    /\ project' = [project EXCEPT !.revision = @ + 1]
    /\ render' = render \cup
            {[run |-> call[c].run, type |-> call[c].op, parts |-> call[c].draft.parts]}
    /\ Finish(c)
    /\ UNCHANGED <<run, stage, audio, edits, loaded>>

-----------------------------------------------------------------------------
(* A preview audio job: the sentences the tab sent are spoken if they are  *)
(* those of the draft, before and after the synthesis.                     *)
ScriptRunCurrent(r, parts) == project.active = r  \* variant: the script is not compared
ScriptCurrent(r, parts) ==
    project.active = r /\ project.draft.parts["script"] = parts["script"]

StartPreview(c, r) ==
    /\ Begins(c, "preview") /\ run[r].generated /\ ScriptCurrent(r, loaded[c].parts)
    /\ Become(c, [IdleCall EXCEPT !.op = "preview", !.pc = "working", !.run = r,
                     !.draft = loaded[c]])
    /\ UNCHANGED <<project, run, stage, audio, render, edits, loaded>>

OpenPreview(c) ==
    /\ call[c].op = "preview" /\ call[c].pc = "working"
    /\ ScriptCurrent(call[c].run, call[c].draft.parts)
    /\ Open(c, call[c])
    /\ UNCHANGED <<project, run, stage, audio, render, edits, loaded>>

CommitPreview(c) ==
    /\ call[c].op = "preview" /\ call[c].pc = "open"
    /\ audio' = audio \cup {[run |-> call[c].run, script |-> call[c].draft.parts["script"]]}
    /\ Finish(c)
    /\ UNCHANGED <<project, run, stage, render, edits, loaded>>

-----------------------------------------------------------------------------
(* What an operation meets when it has become outdated: 409, or the        *)
(* refused number of its revision.  A confirmation and a frozen input      *)
(* number their revision from what they have read; the others ask for the  *)
(* last number only as they write, so that another operation which took a  *)
(* number since they began may make them fail and need not.                *)
Refused(c) ==
    \/ call[c].op = "confirm" /\ call[c].pc = "between" /\ ~Confirmable(c)
    \/ call[c].op = "assign" /\ call[c].pc = "working" /\ ~ContextCurrent(c)
    \/ /\ call[c].op \in {"video", "video_highlight"} /\ call[c].pc = "working"
       /\ ~RenderInputCurrent(c)
    \/ /\ call[c].op = "preview" /\ call[c].pc = "working"
       /\ ~ScriptCurrent(call[c].run, call[c].draft.parts)
    \/ call[c].op = "confirm" /\ call[c].pc = "open" /\ ~RevisionFree(c)
    \/ call[c].pc = "freeze" /\ ~RevisionFree(c)
    \/ /\ call[c].op \in {"generate", "assign", "video", "video_highlight"}
       /\ call[c].pc = "open" /\ ~RevisionFree(c)

Refuse(c) ==
    /\ Refused(c) /\ Finish(c)
    /\ UNCHANGED <<project, run, stage, audio, render, edits, loaded>>

Tab(c) ==
    \/ Load(c) \/ OpenSave(c, "autosave") \/ OpenSave(c, "save") \/ OpenRename(c)
    \/ CommitSave(c) \/ OpenPdf(c) \/ PdfStored(c) \/ CommitPdf(c)

Review(c) ==
    \/ \E r \in Runs, s \in Stages : StartConfirm(c, r, s)
    \/ OpenConfirm(c) \/ CommitConfirm(c)

Generation(c) ==
    \/ \E r \in Runs : OpenRun(c, r) \/ OpenGenerate(c, r) \/ StartAssign(c, r)
    \/ CommitRun(c) \/ CommitGenerate(c) \/ OpenAssign(c) \/ CommitAssign(c)

Media(c) ==
    \/ \E r \in Runs : OpenVideo(c, r) \/ StartHighlight(c, r) \/ StartPreview(c, r)
    \/ FreezeInput(c) \/ OpenRender(c) \/ CommitRender(c) \/ OpenPreview(c) \/ CommitPreview(c)

Next == \E c \in Callers : Tab(c) \/ Review(c) \/ Generation(c) \/ Media(c) \/ Refuse(c)

Spec == Init /\ [][Next]_vars

-----------------------------------------------------------------------------
(* Properties                                                              *)

(* The order of the review: a confirmed assignment rests on a confirmed    *)
(* layout and a confirmed script of the same run, whatever has been edited,*)
(* confirmed again or generated since.                                     *)
StageOrder ==
    \A r \in Runs :
        Confirmed(r, "assignment") => Confirmed(r, "layout") /\ Confirmed(r, "script")

(* What a person has confirmed is what the draft holds: a stage of the     *)
(* active run stays confirmed only as long as its part of the draft is the *)
(* one that was confirmed.                                                 *)
ConfirmedIsCurrent ==
    \A r \in Runs, s \in Stages :
        project.active = r /\ Confirmed(r, s) => stage[r][s].parts[s] = project.draft.parts[s]

(* A final video that is still active shows the script of the draft, and   *)
(* one with highlights shows its layout and assignment too.                *)
RenderIsCurrent ==
    \A a \in render :
        a.run = project.active =>
            \A s \in (IF a.type = "video" THEN {"script"} ELSE Stages) :
                a.parts[s] = project.draft.parts[s]

(* An audio artifact that is still active speaks the script of the draft.  *)
AudioIsCurrent ==
    \A a \in audio : a.run = project.active => a.script = project.draft.parts["script"]

(* Two stages never share a revision, even when they are confirmed at the  *)
(* same time, so that a confirmed revision says what was confirmed.        *)
RevisionsDistinct ==
    \A r, q \in Runs, s, u \in Stages :
        stage[r][s].revision = stage[q][u].revision /\ stage[r][s].revision > 0 =>
            r = q /\ s = u

(* A run that is not the active one any more has been superseded, so that  *)
(* its jobs are asked to stop and its stages cannot be used.               *)
LiveRunIsActive ==
    \A r \in Runs : run[r].status = "live" => project.active = r

(* What a tab saves by itself, or before a confirmation, replaces the      *)
(* draft it has loaded and no other: what other tabs have saved or renamed *)
(* and jobs have written since then is not overwritten unseen.             *)
SavesAreBased ==
    [][\A c \in Callers :
          call[c].op = "autosave" /\ call'[c].op # "autosave" => project.draft = loaded[c]]_vars

(* The same of the saves a user asks for, which name the version they have *)
(* just been told (projectStore.js:459).  It does not hold.                *)
EverySaveIsBased ==
    [][\A c \in Callers :
          call[c].op \in {"autosave", "save"} /\ call'[c].op # call[c].op =>
              project.draft = loaded[c]]_vars

(* The result of an assignment job leaves layout and script as the person  *)
(* has them in the draft, even those edited while the job was working.     *)
AssignmentKeepsReview ==
    [][\A c \in Callers :
          call[c].op = "assign" /\ call[c].pc = "open" /\ call'[c].op # "assign" =>
              \A s \in {"layout", "script"} :
                  project'.draft.parts[s] = project.draft.parts[s]]_vars

(* A superseded run never becomes the active one again.                    *)
SupersededStaysInactive ==
    [][\A r \in Runs :
          run[r].status = "superseded" /\ project.active # r => project'.active # r]_vars
=============================================================================
