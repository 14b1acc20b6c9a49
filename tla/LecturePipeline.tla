-------------------------- MODULE LecturePipeline --------------------------
(***************************************************************************)
(* What a worker thread does for a job: from a PDF to a lecture.           *)
(*                                                                         *)
(* A generation run makes page images, layout regions and a script; without *)
(* review it goes on to the assignment of regions to sentences, the voice,  *)
(* the clips and the video (src/backend/app/service.py,                     *)
(* scripts/run_all.py, src/auto_lecture/).  An assignment job and a final  *)
(* render do the later half for a reviewed lecture.                        *)
(*                                                                         *)
(* A job works in a directory of its own, except in two places: the layout *)
(* results lie in outputs/LP_output/<run>.pdf, and lecture_concat keeps    *)
(* its directories in globals of the process.                              *)
(***************************************************************************)
EXTENDS Naturals, Sequences, FiniteSets, SequencesExt

CONSTANTS
    Jobs,
    NoJob,
    LastPage,        \* the pages of a PDF are 1..LastPage
    Workers,         \* LECTURE_CRAFT_JOB_WORKERS
    MaterialWorkers, \* AUDIO_MATERIAL_MAX_WORKERS
    Narrations,      \* what the model may narrate for a page
    Outlines,        \* the chapters the model may make of a deck
    Draft,           \* the number of reviewed sentences of each page
    MaxRetries,      \* LECTURE_CRAFT_JOB_MAX_RETRIES
    MaxCrashes       \* bound: deaths of the process

Pages == 1..LastPage
Flows == {"audio", "visual", "reviewed", "assignment", "render"}
Regions == 1..2      \* bound: the layout regions of a page

ASSUME PipelineAssumption ==
    /\ NoJob \notin Jobs /\ IsFiniteSet(Jobs)
    /\ {LastPage, Workers, MaterialWorkers} \subseteq Nat \ {0}
    /\ {MaxRetries, MaxCrashes} \subseteq Nat
    /\ Narrations \subseteq Seq({"full", "ask"}) \ {<<>>}
    /\ Outlines \subseteq Seq(Seq(Pages)) \ {<<>>}
    /\ Draft \in [Pages -> Nat]

VARIABLES
    flow,     \* what a job is to do, "none" before it is submitted
    pc,       \* the step it is at
    retry,    \* its retry_count
    cancel,   \* cancellation was requested
    disk,     \* its workspace
    layout,   \* its layout results: "none", "cut" or "whole" for each page
    marks,    \* the regions' sentences: made by an assignment, shown by a render
    result,   \* its response, and the video of a render
    concat,   \* the job whose directories lecture_concat's globals name
    build,    \* locals of a job's run_concat
    crashes

vars == <<flow, pc, retry, cancel, disk, layout, marks, result, concat, build, crashes>>

None == 0   \* no region, no audio part

(***************************************************************************)
(* Text.  A narration is the sequence of its sentences' ends: "full" is    *)
(* a full stop, "ask" another mark that ends a sentence.  The voice is cut  *)
(* at full stops only, the sentences of the timeline at every mark.        *)
(***************************************************************************)
TtsPart(narration, i) == 1 + Len(SelectSeq(SubSeq(narration, 1, i - 1), LAMBDA e : e = "full"))
TtsParts(narration) == TtsPart(narration, Len(narration))

(* An item of a mapping: the number of a sentence and its region.  The     *)
(* model may number the sentences well, name one twice, or name a sentence *)
(* and a region that do not exist.                                         *)
Answers(sentences) ==
    {[i \in 1..sentences |-> [sent |-> i, region |-> r[i]]] : r \in [1..sentences -> {None, 1}]}
    \cup {<<[sent |-> sentences, region |-> 2], [sent |-> sentences, region |-> 1]>>,
          <<[sent |-> sentences + 1, region |-> 3]>>}
NoMap == <<[sent |-> 0, region |-> 0]>>

(* The slides of a lecture video, and the page each gap between them shows. *)
NoVideo == [slides |-> <<>>, gaps |-> <<>>]

EmptyDisk ==
    [images |-> 0,                       \* the pages that have an image
     texts |-> [p \in Pages |-> <<>>],   \* lecture_texts
     maps |-> [p \in Pages |-> NoMap],   \* slide_*_mappings.json
     lp |-> [p \in Pages |-> <<1, 2>>],  \* the regions that a mapping counts
     parts |-> [p \in Pages |-> 0],      \* tts_outputs
     clips |-> [p \in Pages |-> {}],     \* add_animation_outputs: animated clips
     arrived |-> <<>>,                   \* the materials of pages, as they are extracted
     materials |-> <<>>,                 \* materials_all.txt
     outline |-> <<>>,                   \* outline.json
     script |-> <<>>,                    \* lecture_script.txt: its chapters
     video |-> NoVideo]                  \* lecture_final.mp4

NoResult ==
    [pages |-> 0,                            \* the slides
     timeline |-> [p \in Pages |-> <<>>],    \* the sentences of a page: audio part and region
     regions |-> [p \in Pages |-> {}],       \* the regions that are offered for review
     spoken |-> <<>>,                        \* an audio lecture's sentences
     materials |-> <<>>,
     video |-> NoVideo]

(* run_concat: the slides with a mapping, those that are still to be built, *)
(* and the finals that were made.                                          *)
NoBuild == [ids |-> <<>>, left |-> <<>>, took |-> <<>>, out |-> NoJob]

NoLayout == [p \in Pages |-> "none"]
NoMarks == [p \in Pages |-> [r \in Regions |-> {}]]

Init ==
    /\ flow = [j \in Jobs |-> "none"]
    /\ pc = [j \in Jobs |-> "none"]
    /\ retry = [j \in Jobs |-> 0]
    /\ cancel = [j \in Jobs |-> FALSE]
    /\ disk = [j \in Jobs |-> EmptyDisk]
    /\ layout = [j \in Jobs |-> NoLayout]
    /\ marks = [j \in Jobs |-> NoMarks]
    /\ result = [j \in Jobs |-> NoResult]
    /\ concat = NoJob
    /\ build = [j \in Jobs |-> NoBuild]
    /\ crashes = 0

(* The steps that begin with a progress report or a cancel check, which    *)
(* raise when cancellation is requested, and the others.  A render checks   *)
(* only before and after it.                                               *)
Checked == {"pdf", "images", "ready", "snapshot", "script", "assign", "tts", "animate", "concat",
            "materials", "outline", "narrate", "stitch", "match", "prepare", "respond", "publish"}
Unchecked == {"page", "lp", "lpdump", "extract", "collect", "slide"}
Running == {j \in Jobs : pc[j] \in Checked \cup Unchecked}

Checks(j) == pc[j] \in Checked /\ ~(flow[j] = "render" /\ pc[j] \in {"animate", "concat"})
At(j, step) == pc[j] = step /\ (Checks(j) => ~cancel[j])
Goto(j, step) == pc' = [pc EXCEPT ![j] = step]

(* The response of a job that does not end well is lost; the assignment a  *)
(* render shows is not the render's.                                       *)
Lose(js) ==
    /\ result' = [j \in Jobs |-> IF j \in js THEN NoResult ELSE result[j]]
    /\ marks' = [j \in Jobs |-> IF j \in js /\ flow[j] = "assignment" THEN NoMarks ELSE marks[j]]

(* A job that is over: its workspace is removed, and nobody reads again     *)
(* what else there was of it.                                              *)
Over(j, end) ==
    /\ Goto(j, end)
    /\ disk' = [disk EXCEPT ![j] = EmptyDisk]
    /\ build' = [build EXCEPT ![j] = NoBuild]
    /\ layout' = [layout EXCEPT ![j] = NoLayout]
    /\ retry' = [retry EXCEPT ![j] = 0]
    /\ cancel' = [cancel EXCEPT ![j] = FALSE]
    /\ UNCHANGED <<flow, concat, crashes>>

Stopped(j, end) == Over(j, end) /\ Lose({j})

-----------------------------------------------------------------------------
(* The queue and the workers (app/jobs.py).                                *)

(* A render shows an assignment that was published and confirmed.          *)
Submit(j) ==
    /\ flow[j] = "none"
    /\ \/ \E f \in Flows \ {"render"} : flow' = [flow EXCEPT ![j] = f] /\ UNCHANGED marks
       \/ \E a \in Jobs :
            /\ flow[a] = "assignment" /\ pc[a] = "done"
            /\ flow' = [flow EXCEPT ![j] = "render"]
            /\ marks' = [marks EXCEPT ![j] = marks[a]]
    /\ Goto(j, "queued")
    /\ UNCHANGED <<retry, cancel, disk, layout, result, concat, build, crashes>>

RequestCancel(j) ==
    /\ pc[j] = "queued" \/ j \in Running
    /\ ~cancel[j]
    /\ cancel' = [cancel EXCEPT ![j] = TRUE]
    /\ UNCHANGED <<flow, pc, retry, disk, layout, marks, result, concat, build, crashes>>

FirstStep(f) == CASE f = "assignment" -> "match" [] f = "render" -> "prepare" [] OTHER -> "pdf"

(* There are Workers threads, and each works on one job at a time.         *)
WorkerIsFree == Cardinality(Running) < Workers

(* A worker takes a job from the queue.                                    *)
Start(j) ==
    /\ pc[j] = "queued" /\ ~cancel[j]
    /\ WorkerIsFree
    /\ Goto(j, FirstStep(flow[j]))
    /\ UNCHANGED <<flow, retry, cancel, disk, layout, marks, result, concat, build, crashes>>

Cancelled(j) ==
    /\ cancel[j] /\ (Checks(j) \/ pc[j] = "queued")
    /\ Stopped(j, "cancelled")

(* A call of the language model, of the voice or of ffmpeg raises, or a     *)
(* slide's image is not there.                                             *)
Fail(j) ==
    /\ \E step \in {"images", "lp", "snapshot", "script", "tts", "animate", "extract", "outline",
                   "narrate", "stitch", "match", "prepare", "slide"} : At(j, step)
    /\ Stopped(j, "failed")

(* The workspaces that are cleared before their jobs are queued again.     *)
Uncleared == disk   \* variant: what a job has left is kept
Cleared == [j \in Jobs |-> IF j \in Running THEN EmptyDisk ELSE disk[j]]

(* The process dies.  The next one finds the jobs that were running, clears *)
(* their workspaces and queues them again, up to the limit of retries; what *)
(* lies outside the workspaces stays.                                      *)
Crash ==
    /\ crashes < MaxCrashes /\ Running # {}
    /\ crashes' = crashes + 1
    /\ retry' = [j \in Jobs |-> IF j \in Running THEN retry[j] + 1 ELSE retry[j]]
    /\ pc' = [j \in Jobs |->
                IF j \notin Running THEN pc[j]
                ELSE IF retry[j] + 1 > MaxRetries /\ ~cancel[j] THEN "failed" ELSE "queued"]
    /\ disk' = Cleared
    /\ build' = [j \in Jobs |-> NoBuild]
    /\ concat' = NoJob
    /\ Lose(Running)
    /\ UNCHANGED <<flow, cancel, layout>>

-----------------------------------------------------------------------------
(* A generation run: page images and layout regions (service.generate_media). *)

EnsurePdf(j) ==
    /\ At(j, "pdf")
    /\ Goto(j, "images")
    /\ UNCHANGED <<flow, retry, cancel, disk, layout, marks, result, concat, build, crashes>>

(* ensure_pdf_images takes any image it finds for all of them.             *)
EnsureImages(j) ==
    /\ At(j, "images")
    /\ Goto(j, IF disk[j].images > 0 THEN "ready" ELSE "page")
    /\ UNCHANGED <<flow, retry, cancel, disk, layout, marks, result, concat, build, crashes>>

SavePage(j) ==
    /\ At(j, "page")
    /\ disk' = [disk EXCEPT ![j].images = @ + 1]
    /\ Goto(j, IF disk[j].images + 1 = LastPage THEN "ready" ELSE "page")
    /\ UNCHANGED <<flow, retry, cancel, layout, marks, result, concat, build, crashes>>

Images(j) == 1..disk[j].images
LpOutputsReady(j) == \A p \in Images(j) : layout[j][p] # "none"

EnsureLpOutputs(j) ==
    /\ At(j, "ready")
    /\ Goto(j, IF flow[j] = "audio" THEN "materials"
               ELSE IF LpOutputsReady(j) THEN "snapshot" ELSE "lp")
    /\ build' = [build EXCEPT ![j].left = <<1>>]
    /\ UNCHANGED <<flow, retry, cancel, disk, layout, marks, result, concat, crashes>>

(* The results of a page: the file is opened for writing, then filled.     *)
OpenResult(j) ==
    /\ At(j, "lp")
    /\ layout' = [layout EXCEPT ![j][Head(build[j].left)] = "cut"]
    /\ Goto(j, "lpdump")
    /\ UNCHANGED <<flow, retry, cancel, disk, marks, result, concat, build, crashes>>

DumpResult(j) ==
    LET p == Head(build[j].left) IN
    /\ At(j, "lpdump")
    /\ layout' = [layout EXCEPT ![j][p] = "whole"]
    /\ IF p = disk[j].images
         THEN Goto(j, "snapshot") /\ build' = [build EXCEPT ![j] = NoBuild]
         ELSE Goto(j, "lp") /\ build' = [build EXCEPT ![j].left = <<p + 1>>]
    /\ UNCHANGED <<flow, retry, cancel, disk, marks, result, concat, crashes>>

-----------------------------------------------------------------------------
(* The visual pipeline (run_all.run_pipeline): script, assignment, voice and *)
(* clips.                                                                  *)

(* The layout results are copied into the workspace and the deck is scanned. *)
SnapshotAndScan(j) ==
    /\ At(j, "snapshot")
    /\ Goto(j, "script")
    /\ UNCHANGED <<flow, retry, cancel, disk, layout, marks, result, concat, build, crashes>>

(* One call of the model for each page.  With review the run stops before  *)
(* the assignment.                                                         *)
WriteScript(j) ==
    /\ At(j, "script")
    /\ \E t \in [Images(j) -> Narrations] :
         disk' = [disk EXCEPT ![j].texts = [p \in Pages |-> IF p \in Images(j) THEN t[p] ELSE @[p]]]
    /\ Goto(j, IF flow[j] = "reviewed" THEN "respond" ELSE "assign")
    /\ UNCHANGED <<flow, retry, cancel, layout, marks, result, concat, build, crashes>>

(* run_animation_assignment: an answer that cannot be read leaves its page *)
(* out, layout results that cannot be read end the job.                    *)
AssignRegions(j) ==
    /\ At(j, "assign")
    /\ IF \E p \in Images(j) : layout[j][p] = "cut"
         THEN Stopped(j, "failed")
         ELSE /\ \E m \in [Images(j) -> UNION {Answers(Len(disk[j].texts[p])) : p \in Images(j)}
                                         \cup {NoMap}] :
                   /\ \A p \in Images(j) : m[p] \in Answers(Len(disk[j].texts[p])) \cup {NoMap}
                   /\ disk' = [disk EXCEPT ![j].maps =
                                 [p \in Pages |-> IF p \in Images(j) THEN m[p] ELSE @[p]]]
              /\ Goto(j, "tts")
              /\ UNCHANGED <<flow, retry, cancel, layout, marks, result, concat, build, crashes>>

SpeakScript(j) ==
    /\ At(j, "tts")
    /\ disk' = [disk EXCEPT ![j].parts =
                  [p \in Pages |-> IF p \in Images(j) THEN TtsParts(disk[j].texts[p]) ELSE 0]]
    /\ Goto(j, "animate")
    /\ UNCHANGED <<flow, retry, cancel, layout, marks, result, concat, build, crashes>>

Mapped(d) == {p \in Pages : d.maps[p] # NoMap}
Shown(d, p, item) == item.region \in 1..Len(d.lp[p])

(* The animated clips of a page: of two for one sentence the later is kept. *)
AnimatedClips(d, p) ==
    {i \in DOMAIN d.maps[p] :
        /\ Shown(d, p, d.maps[p][i])
        /\ \A k \in (i + 1)..Len(d.maps[p]) :
             ~(Shown(d, p, d.maps[p][k]) /\ d.maps[p][k].sent = d.maps[p][i].sent)}
Clips(d, p) == IF d.maps[p] = NoMap THEN {} ELSE {d.maps[p][i] : i \in AnimatedClips(d, p)}
MakesClip(d, p) == \E i \in DOMAIN d.maps[p] : d.maps[p][i].region = None \/ Shown(d, p, d.maps[p][i])

(* run_from_mapping and, in a generation run, the check that it made clips. *)
Animate(j) ==
    /\ At(j, "animate")
    /\ IF flow[j] = "visual" /\ \A p \in Mapped(disk[j]) : ~MakesClip(disk[j], p)
         THEN Stopped(j, "failed")
         ELSE /\ disk' = [disk EXCEPT ![j].clips = [p \in Pages |-> Clips(disk[j], p)]]
              /\ Goto(j, "concat")
              /\ UNCHANGED <<flow, retry, cancel, layout, marks, result, concat, build, crashes>>

-----------------------------------------------------------------------------
(* lecture_concat.run_concat: slides of the clips, and the video of slides. *)

PathsOnce(j) == IF concat = NoJob THEN j ELSE concat   \* variant: set if they are not set
PathsOf(j) == j
SetPaths(j) ==
    /\ At(j, "concat")
    /\ concat' = PathsOf(j)
    /\ Goto(j, "collect")
    /\ UNCHANGED <<flow, retry, cancel, disk, layout, marks, result, build, crashes>>

AfterConcat(j) == IF flow[j] = "render" THEN "publish" ELSE "respond"

(* The slides or the sentences of a set, by their numbers.                 *)
InTurn(S) == CHOOSE q \in SetToSeqs(S) : \A a, b \in DOMAIN q : a < b => q[a] < q[b]

Collect(j) ==
    LET ids == InTurn(Mapped(disk[concat])) IN
    /\ At(j, "collect")
    /\ build' = [build EXCEPT ![j] = [NoBuild EXCEPT !.ids = ids, !.left = ids]]
    /\ Goto(j, "slide")
    /\ UNCHANGED <<flow, retry, cancel, disk, layout, marks, result, concat, crashes>>

Part(d, p, i) == IF i <= d.parts[p] THEN i ELSE None

(* The clip of sentence i: the animated one of that number or a still.      *)
SentenceClipAfter(d, p, i) ==   \* variant: the numbers are taken to begin at zero
    LET animated == {c \in d.clips[p] : c.sent = i - 1} IN
    [sent |-> i, part |-> Part(d, p, i),
     region |-> IF animated = {} THEN None ELSE d.lp[p][(CHOOSE c \in animated : TRUE).region]]
SentenceClip(d, p, i) ==
    LET animated == {c \in d.clips[p] : c.sent = i} IN
    [sent |-> i, part |-> Part(d, p, i),
     region |-> IF animated = {} THEN None ELSE d.lp[p][(CHOOSE c \in animated : TRUE).region]]

SlideFinal(owner, p, sentences) ==
    [owner |-> owner, page |-> p,
     clips |-> [k \in DOMAIN sentences |-> SentenceClip(disk[owner], p, sentences[k])]]

(* The sentences that get a clip: all that have an animated one, and those *)
(* whose still ffmpeg can make.                                            *)
Sentences(d, p) == DOMAIN d.maps[p]
Animated(d, p) == {c.sent : c \in d.clips[p]}
Kept(d, p) == {keep \in SUBSET Sentences(d, p) : Animated(d, p) \cap Sentences(d, p) \subseteq keep} \ {{}}

(* A slide without sentences and one that ffmpeg cannot join are left out. *)
BuildSlide(j) ==
    LET p == Head(build[j].left) IN
    /\ At(j, "slide") /\ build[j].left # <<>>
    /\ \/ /\ disk[concat].maps[p] # NoMap
          /\ \E keep \in Kept(disk[concat], p) :
               build' = [build EXCEPT ![j].left = Tail(@),
                                      ![j].took = Append(@, SlideFinal(concat, p, InTurn(keep)))]
       \/ build' = [build EXCEPT ![j].left = Tail(@)]
    /\ UNCHANGED <<flow, pc, retry, cancel, disk, layout, marks, result, concat, crashes>>

(* The gap after the i-th slide that was made shows the i-th of all slides. *)
JoinSlides(j) ==
    LET took == build[j].took IN
    /\ At(j, "slide") /\ build[j].left = <<>> /\ took # <<>>
    /\ disk' = [disk EXCEPT ![concat].video =
                  [slides |-> took, gaps |-> SubSeq(build[j].ids, 1, Len(took) - 1)]]
    /\ build' = [build EXCEPT ![j] = [NoBuild EXCEPT !.out = concat]]
    /\ Goto(j, AfterConcat(j))
    /\ UNCHANGED <<flow, retry, cancel, layout, marks, result, concat, crashes>>

(* No slide, or ffmpeg cannot join them: a render fails, a generation run  *)
(* goes on without a video.                                                *)
NoLecture(j) ==
    /\ At(j, "slide") /\ build[j].left = <<>>
    /\ IF flow[j] = "render"
         THEN Stopped(j, "failed")
         ELSE /\ Goto(j, "respond")
              /\ build' = [build EXCEPT ![j] = NoBuild]
              /\ UNCHANGED <<flow, retry, cancel, disk, layout, marks, result, concat, crashes>>

-----------------------------------------------------------------------------
(* An audio lecture (audio_only_lecture.py).                               *)

StartMaterials(j) ==
    /\ At(j, "materials")
    /\ Goto(j, "extract")
    /\ UNCHANGED <<flow, retry, cancel, disk, layout, marks, result, concat, build, crashes>>

Waiting(j) == Images(j) \ ToSet(disk[j].arrived)

(* One of the pages that the pool works on is finished.                    *)
ExtractMaterial(j, p) ==
    /\ At(j, "extract")
    /\ p \in Waiting(j) /\ Cardinality({q \in Waiting(j) : q < p}) < MaterialWorkers
    /\ disk' = [disk EXCEPT ![j].arrived = Append(@, p)]
    /\ UNCHANGED <<flow, pc, retry, cancel, layout, marks, result, concat, build, crashes>>

(* materials_all.txt: the materials by the number of their page.           *)
Collated(arrived) == [p \in ToSet(arrived) |-> p]

WriteMaterials(j) ==
    /\ At(j, "extract") /\ Waiting(j) = {}
    /\ disk' = [disk EXCEPT ![j].materials = Collated(disk[j].arrived)]
    /\ Goto(j, "outline")
    /\ UNCHANGED <<flow, retry, cancel, layout, marks, result, concat, build, crashes>>

WriteOutline(j) ==
    /\ At(j, "outline")
    /\ \E o \in Outlines : disk' = [disk EXCEPT ![j].outline = o]
    /\ Goto(j, "narrate")
    /\ UNCHANGED <<flow, retry, cancel, layout, marks, result, concat, build, crashes>>

(* One call for each chapter: does its text end with the end of a sentence? *)
Narrate(j) ==
    /\ At(j, "narrate")
    /\ \E closed \in [DOMAIN disk[j].outline -> BOOLEAN] : disk' = [disk EXCEPT ![j].script = closed]
    /\ Goto(j, "stitch")
    /\ UNCHANGED <<flow, retry, cancel, layout, marks, result, concat, build, crashes>>

(* The paragraph of chapter c once sentence_split_ja has put each sentence  *)
(* on a line of its own: a blank line is lost after the end of a sentence.  *)
Paragraph(script, c) == 1 + Len(SelectSeq(SubSeq(script, 1, c - 1), LAMBDA closed : ~closed))

(* The slide of a paragraph: the first slide of the chapter of its number.  *)
SlideOf(outline, c) == IF c > Len(outline) \/ outline[c] = <<>> THEN 1 ELSE outline[c][1]

(* The model keeps the chapters apart; the split of its answer does not.    *)
Stitch(j) ==
    /\ At(j, "stitch")
    /\ result' = [result EXCEPT ![j].spoken =
                    [c \in DOMAIN disk[j].script |->
                        [chapter |-> c, slide |-> SlideOf(disk[j].outline, Paragraph(disk[j].script, c))]]]
    /\ Goto(j, "respond")
    /\ UNCHANGED <<flow, retry, cancel, disk, layout, marks, concat, build, crashes>>

-----------------------------------------------------------------------------
(* A reviewed lecture: its assignment (service.generate_review_assignment)  *)
(* and its final render (service.export_video).                            *)

(* An answer that cannot be read ends the job (Fail).                      *)
Match(j) ==
    LET asked == {p \in Pages : Draft[p] > 0} IN
    /\ At(j, "match")
    /\ \E m \in [asked -> UNION {Answers(Draft[p]) : p \in asked}] :
         /\ \A p \in asked : m[p] \in Answers(Draft[p])
         /\ marks' = [marks EXCEPT ![j] =
                [p \in Pages |-> [r \in Regions |->
                    IF p \in asked
                    THEN {m[p][i].sent : i \in {k \in DOMAIN m[p] : m[p][k].region = r}} \cap 1..Draft[p]
                    ELSE {}]]]
    /\ Goto(j, "publish")
    /\ UNCHANGED <<flow, retry, cancel, disk, layout, result, concat, build, crashes>>

(* The region a sentence is shown with: the last that names it.            *)
RegionsOf(mark, i) == {r \in Regions : i \in mark[r]}
Lit(mark, i) == RegionsOf(mark, i) # {}
LastOf(rs) == CHOOSE r \in rs : \A q \in rs : q <= r

(* The results of a page list the regions of its sentences in turn, and the *)
(* mapping counts them.                                                    *)
CustomLp(mark, n) ==
    LET lit == InTurn({i \in 1..n : Lit(mark, i)})
    IN  [k \in DOMAIN lit |-> LastOf(RegionsOf(mark, lit[k]))]
CustomMapOfAll(mark, n) ==   \* variant: sentences without a region are counted too
    [i \in 1..n |-> [sent |-> i, region |-> IF Lit(mark, i) THEN i ELSE None]]
CustomMap(mark, n) ==
    [i \in 1..n |->
        [sent |-> i,
         region |-> IF Lit(mark, i) THEN Cardinality({k \in 1..i : Lit(mark, k)}) ELSE None]]

(* Images, layout results, mapping and the sentences' voices.              *)
Prepare(j) ==
    /\ At(j, "prepare")
    /\ disk' = [disk EXCEPT ![j] =
            [EmptyDisk EXCEPT !.images = LastPage,
                              !.lp = [p \in Pages |-> CustomLp(marks[j][p], Draft[p])],
                              !.maps = [p \in Pages |-> CustomMap(marks[j][p], Draft[p])],
                              !.parts = Draft]]
    /\ Goto(j, "animate")
    /\ UNCHANGED <<flow, retry, cancel, layout, marks, result, concat, build, crashes>>

-----------------------------------------------------------------------------
(* The response and its publication.                                       *)

(* parse_visual_outputs: the i-th item of a mapping is a sentence with the  *)
(* i-th part of the page's audio.                                          *)
Timeline(d, p) ==
    IF d.maps[p] = NoMap THEN <<>>
    ELSE [i \in DOMAIN d.maps[p] |->
            [part |-> Part(d, p, i),
             region |-> IF Shown(d, p, d.maps[p][i]) THEN d.lp[p][d.maps[p][i].region] ELSE None]]

(* build_visual_script_review_response: layout results that cannot be read  *)
(* count as no regions.                                                    *)
ScriptSentences(d, p) == [i \in DOMAIN d.texts[p] |-> [part |-> None, region |-> None]]

Respond(j) ==
    LET d == disk[j] IN
    /\ At(j, "respond")
    /\ result' = [result EXCEPT ![j] =
            [@ EXCEPT !.pages = d.images,
                      !.materials = d.materials,
                      !.timeline = [p \in Pages |-> IF flow[j] = "reviewed" THEN ScriptSentences(d, p)
                                                    ELSE Timeline(d, p)],
                      !.regions = [p \in Pages |-> IF flow[j] = "reviewed" /\ layout[j][p] = "whole"
                                                   THEN Regions ELSE {}]]]
    /\ Goto(j, "publish")
    /\ UNCHANGED <<flow, retry, cancel, disk, layout, marks, concat, build, crashes>>

(* The video of a render is the file that run_concat returned.  Of what is  *)
(* published only what is compared later is kept.                          *)
Publish(j) ==
    /\ At(j, "publish")
    /\ result' = [result EXCEPT ![j] =
            [NoResult EXCEPT !.pages = result[j].pages, !.materials = result[j].materials,
                             !.video = IF flow[j] = "render" THEN disk[build[j].out].video ELSE disk[j].video]]
    /\ Over(j, "done")
    /\ UNCHANGED marks

Step(j) ==
    \/ Submit(j) \/ RequestCancel(j) \/ Start(j) \/ Cancelled(j) \/ Fail(j)
    \/ EnsurePdf(j) \/ EnsureImages(j) \/ SavePage(j)
    \/ EnsureLpOutputs(j) \/ OpenResult(j) \/ DumpResult(j)
    \/ SnapshotAndScan(j) \/ WriteScript(j) \/ AssignRegions(j) \/ SpeakScript(j) \/ Animate(j)
    \/ SetPaths(j) \/ Collect(j) \/ BuildSlide(j) \/ JoinSlides(j) \/ NoLecture(j)
    \/ StartMaterials(j) \/ (\E p \in Pages : ExtractMaterial(j, p)) \/ WriteMaterials(j)
    \/ WriteOutline(j) \/ Narrate(j) \/ Stitch(j)
    \/ Match(j) \/ Prepare(j) \/ Respond(j) \/ Publish(j)

Next == Crash \/ \E j \in Jobs : Step(j)

Spec == Init /\ [][Next]_vars

-----------------------------------------------------------------------------
(* Properties.                                                             *)

Done(f) == {j \in Jobs : flow[j] = f /\ pc[j] = "done"}

(* A run that is reported as completed covers the whole deck, however often *)
(* its process died on the way: ensure_pdf_images takes any image for all  *)
(* of them, so this rests on the workspace being cleared before the retry  *)
(* (JobManager.restore).  The pages of an audio lecture are narrated in    *)
(* order, whichever of them _extract_material finished first.              *)
CompletedIsWhole ==
    /\ \A j \in Done("audio") \cup Done("visual") \cup Done("reviewed") : result[j].pages = LastPage
    /\ \A j \in Done("audio") : result[j].materials = [p \in Pages |-> p]

(* A job in run_concat finds its own directories and publishes slides of   *)
(* its own.  lecture_concat keeps the directories in globals that set_paths *)
(* changes: no other job's set_paths may come between a job's set_paths and *)
(* its last use of them.                                                   *)
VideoIsOwn ==
    \A j \in Jobs :
        /\ pc[j] \in {"collect", "slide"} => concat = j
        /\ \A k \in DOMAIN result[j].video.slides : result[j].video.slides[k].owner = j

(* The clips of a slide in the video show and say what the timeline has for *)
(* its sentences, whenever the model numbered the sentences in order.  The  *)
(* two are made from the same mapping along different ways: the timeline by *)
(* position (parse_visual_outputs), the video by the numbers in the names  *)
(* of clips (_find_best_animated_clip).                                    *)
InOrder(map) == map # NoMap /\ \A i \in DOMAIN map : map[i].sent = i
VideoFollowsTimeline ==
    \A j \in Jobs : flow[j] = "visual" /\ pc[j] = "publish" =>
        \A k \in DOMAIN disk[j].video.slides :
            LET slide == disk[j].video.slides[k]
            IN  slide.owner = j /\ InOrder(disk[j].maps[slide.page])
                    => \A i \in DOMAIN slide.clips :
                         LET line == result[j].timeline[slide.page][slide.clips[i].sent]
                         IN  slide.clips[i].part = line.part /\ slide.clips[i].region = line.region

(* A final render shows a sentence with a region exactly when the assignment *)
(* the user confirmed gives it one, and with one of those: the region's    *)
(* place in the layout results, in the mapping and in the clip's name are   *)
(* counted by three modules (write_custom_lp_outputs, write_custom_mapping_outputs, *)
(* build_sentence_videos).                                                 *)
RenderShowsAssigned ==
    \A j \in Done("render") : \A k \in DOMAIN result[j].video.slides :
        LET slide == result[j].video.slides[k]
        IN  \A i \in DOMAIN slide.clips :
                LET given == RegionsOf(marks[j][slide.page], slide.clips[i].sent)
                IN  IF given = {} THEN slide.clips[i].region = None ELSE slide.clips[i].region \in given

(* A sentence of an audio lecture is shown on the slide of its chapter, as  *)
(* build_audio_sentences counts the paragraphs of the script.  It is not:  *)
(* sentence_split_ja removes the blank lines between them.                 *)
SentenceOnItsChapter ==
    \A j \in Jobs : flow[j] = "audio" /\ pc[j] = "respond" => \A i \in DOMAIN result[j].spoken :
        result[j].spoken[i].slide = SlideOf(disk[j].outline, result[j].spoken[i].chapter)

(* A run that waits for review offers the regions of every page.  It does  *)
(* not when its process died while the layout results were written: they   *)
(* lie outside the workspace that is cleared, lp_outputs_ready takes the   *)
(* file that broke off for a result, and build_layout_review_highlights    *)
(* takes what it cannot read for no regions.                               *)
LayoutIsWhole ==
    \A j \in Jobs : flow[j] = "reviewed" /\ pc[j] = "publish" =>
        \A p \in Pages : result[j].regions[p] = Regions

(* The gap after a slide shows that slide.  It does not after a slide was  *)
(* left out: build_full_lecture_video counts the gaps by all slides.       *)
GapShowsItsPage ==
    \A j \in Jobs : \A k \in DOMAIN result[j].video.gaps :
        result[j].video.gaps[k] = result[j].video.slides[k].page
=============================================================================
