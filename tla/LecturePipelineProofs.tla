------------------------ MODULE LecturePipelineProofs ------------------------
(***************************************************************************)
(* What holds of LecturePipeline for every deck, every answer of the       *)
(* models, every number of jobs, retries and deaths of the process.        *)
(*                                                                         *)
(* With one worker a lecture video is made of its own job's slides: the    *)
(* worker that has set lecture_concat's globals is the only one until it   *)
(* has used them; and a final render shows the assignment it was given     *)
(* (RenderInv).  With any number of workers a completed run covers the     *)
(* deck: what ensure_pdf_images would take for finished pages is never     *)
(* there when a run begins (CoversInv); and the clips of a lecture video   *)
(* follow its timeline: whoever makes a slide makes it after its job has   *)
(* made all that it is drawn from (DrawnInv).                              *)
(***************************************************************************)
EXTENDS LecturePipeline, FiniteSetTheorems, SequenceTheorems, TLAPS

-----------------------------------------------------------------------------
(* Sequences whose elements have no common set to name.                    *)

Elements(s) == {s[i] : i \in DOMAIN s}

LEMMA SeqOfElements ==
    ASSUME NEW S, NEW s \in Seq(S)
    PROVE  s \in Seq(Elements(s))
<1>1. Len(s) \in Nat /\ s \in [1..Len(s) -> S] /\ DOMAIN s = 1..Len(s)
  BY LenProperties
<1>2. s \in [1..Len(s) -> Elements(s)]
  BY <1>1 DEF Elements
<1>3. [1..Len(s) -> Elements(s)] \in {[1..n -> Elements(s)] : n \in Nat}
  BY <1>1
<1>4. Seq(Elements(s)) = UNION {[1..n -> Elements(s)] : n \in Nat}
  BY SeqDef, Zenon
<1> QED BY <1>2, <1>3, <1>4, Zenon

LEMMA AppendElements ==
    ASSUME NEW s, s \in Seq(Elements(s)), NEW x
    PROVE  /\ Append(s, x) \in Seq(Elements(Append(s, x)))
           /\ DOMAIN Append(s, x) = 1..Len(s) + 1
           /\ DOMAIN s = 1..Len(s) /\ Len(s) \in Nat
           /\ Append(s, x)[Len(s) + 1] = x
           /\ \A i \in 1..Len(s) : Append(s, x)[i] = s[i]
<1> DEFINE S == Elements(s) \cup {x}
<1>1. s \in Seq(S)
  BY SeqMonotonic
<1>2. x \in S
  OBVIOUS
<1> HIDE DEF S
<1>3. /\ Append(s, x) \in Seq(S)
      /\ Len(Append(s, x)) = Len(s) + 1
      /\ \A i \in 1..Len(s) : Append(s, x)[i] = s[i]
      /\ Append(s, x)[Len(s) + 1] = x
  BY <1>1, <1>2, AppendProperties
<1>4. /\ Len(s) \in Nat /\ DOMAIN s = 1..Len(s)
      /\ DOMAIN Append(s, x) = 1..Len(s) + 1
  BY <1>1, <1>3, LenProperties
<1> QED BY <1>3, <1>4, SeqOfElements

-----------------------------------------------------------------------------
(* Sets of numbers in turn.                                                *)

(* The elements of a set up to one of them, and their number.              *)
UpTo(S, x) == {y \in S : y <= x}
Rank(S, x) == Cardinality(UpTo(S, x))

LEMMA RankRises ==
    ASSUME NEW n \in Nat, NEW S \in SUBSET (1..n)
    PROVE  /\ IsFiniteSet(S) /\ Cardinality(S) \in Nat
           /\ \A x \in S : Rank(S, x) \in 1..Cardinality(S)
           /\ \A x, y \in S : x < y => Rank(S, x) < Rank(S, y)
<1>1. IsFiniteSet(S) /\ Cardinality(S) \in Nat
  <2>1. IsFiniteSet(1..n)
    BY FS_Interval
  <2>2. IsFiniteSet(S)
    BY <2>1, FS_Subset
  <2> QED BY <2>2, FS_CardinalityType
<1>2. ASSUME NEW x \in S PROVE IsFiniteSet(UpTo(S, x)) /\ Rank(S, x) \in 1..Cardinality(S)
  <2>1. UpTo(S, x) \in SUBSET S /\ x \in UpTo(S, x)
    BY DEF UpTo
  <2>2. IsFiniteSet(UpTo(S, x)) /\ Cardinality(UpTo(S, x)) <= Cardinality(S)
    BY <1>1, <2>1, FS_Subset
  <2>3. Cardinality(UpTo(S, x)) \in Nat /\ Cardinality(UpTo(S, x)) # 0
    BY <2>1, <2>2, FS_EmptySet, FS_CardinalityType
  <2> QED BY <1>1, <2>2, <2>3 DEF Rank
<1>3. ASSUME NEW x \in S, NEW y \in S, x < y PROVE Rank(S, x) < Rank(S, y)
  <2>1. UpTo(S, x) \in SUBSET UpTo(S, y) /\ y \in UpTo(S, y) /\ y \notin UpTo(S, x)
    <3>1. x \in 1..n /\ y \in 1..n /\ \A z \in S : z \in 1..n
      OBVIOUS
    <3>2. ~(y <= x) /\ \A z \in 1..n : z <= x => z <= y
      BY <1>3, <3>1
    <3>3. \A z : z \in UpTo(S, x) => z \in UpTo(S, y)
      BY <3>1, <3>2 DEF UpTo
    <3>4. y \in UpTo(S, y) /\ y \notin UpTo(S, x)
      BY <3>1, <3>2 DEF UpTo
    <3> QED BY <3>3, <3>4
  <2>2. /\ Cardinality(UpTo(S, x)) <= Cardinality(UpTo(S, y))
        /\ Cardinality(UpTo(S, x)) # Cardinality(UpTo(S, y))
    BY <1>2, <2>1, FS_Subset
  <2> QED BY <1>1, <1>2, <2>2 DEF Rank
<1> QED BY <1>1, <1>2, <1>3

(* A set of numbers can be put in turn, and the place of one of them is    *)
(* the number of those up to it.                                           *)
LEMMA InTurnRises ==
    ASSUME NEW n \in Nat, NEW S \in SUBSET (1..n)
    PROVE  /\ InTurn(S) \in [1..Cardinality(S) -> S]
           /\ \A a, b \in 1..Cardinality(S) : a < b => InTurn(S)[a] < InTurn(S)[b]
<1> DEFINE c == Cardinality(S)
           r == [x \in S |-> Rank(S, x)]
           q == [k \in 1..c |-> CHOOSE x \in S : Rank(S, x) = k]
<1>1. /\ IsFiniteSet(S) /\ c \in Nat
      /\ \A x \in S : Rank(S, x) \in 1..c
      /\ \A x, y \in S : x < y => Rank(S, x) < Rank(S, y)
  BY RankRises
<1> HIDE DEF c
<1>2. r \in Injection(S, 1..c)
  <2>1. r \in [S -> 1..c]
    BY <1>1
  <2>2. ASSUME NEW x \in S, NEW y \in S, r[x] = r[y] PROVE x = y
    BY <1>1, <2>2
  <2> QED BY <2>1, <2>2 DEF Injection, IsInjective
<1>3. r \in Surjection(S, 1..c)
  <2>1. IsFiniteSet(1..c) /\ Cardinality(1..c) = c
    BY <1>1, FS_Interval
  <2> QED BY <1>2, <2>1, FS_Injection DEF c
<1>4. q \in [1..c -> S] /\ \A k \in 1..c : q[k] \in S /\ Rank(S, q[k]) = k
  BY <1>3 DEF Surjection
<1> HIDE DEF q, r
<1>5. \A a, b \in 1..c : a < b => q[a] < q[b]
  <2> SUFFICES ASSUME NEW a \in 1..c, NEW b \in 1..c, a < b, ~(q[a] < q[b]) PROVE FALSE
    OBVIOUS
  <2>1. q[a] \in 1..n /\ q[b] \in 1..n
    BY <1>4
  <2>2. q[b] < q[a] \/ q[b] = q[a]
    BY <2>1
  <2>3. Rank(S, q[a]) = a /\ Rank(S, q[b]) = b /\ q[a] \in S /\ q[b] \in S
    BY <1>4
  <2>4. CASE q[b] = q[a]
    <3>1. a = b
      BY <2>3, <2>4
    <3> QED BY <1>1, <3>1
  <2>5. CASE q[b] < q[a]
    <3>1. b < a
      BY <1>1, <2>3, <2>5
    <3> QED BY <1>1, <3>1
  <2> QED BY <2>2, <2>4, <2>5
<1>6. q \in SetToSeqs(S)
  <2>1. \A a, b \in 1..c : a # b => q[a] # q[b]
    BY <1>4
  <2> QED BY <1>4, <2>1 DEF SetToSeqs, c
<1>7. \E p \in SetToSeqs(S) : \A a, b \in DOMAIN p : a < b => p[a] < p[b]
  <2>1. DOMAIN q = 1..c
    BY <1>6 DEF SetToSeqs, c
  <2> QED BY <1>5, <1>6, <2>1
<1>8. InTurn(S) \in SetToSeqs(S) /\ \A a, b \in DOMAIN InTurn(S) : a < b => InTurn(S)[a] < InTurn(S)[b]
  BY <1>7 DEF InTurn
<1> QED BY <1>8 DEF SetToSeqs

LEMMA InTurnCounts ==
    ASSUME NEW n \in Nat, NEW S \in SUBSET (1..n), NEW x \in S
    PROVE  Rank(S, x) \in 1..Cardinality(S) /\ InTurn(S)[Rank(S, x)] = x
<1> DEFINE c == Cardinality(S)
           t == InTurn(S)
<1>1. IsFiniteSet(S) /\ c \in Nat /\ Rank(S, x) \in 1..c
  BY RankRises
<1>2. t \in [1..c -> S] /\ \A a, b \in 1..c : a < b => t[a] < t[b]
  BY InTurnRises
<1> HIDE DEF c, t
<1>3. \A a, b \in 1..c : a # b => t[a] # t[b]
  <2> SUFFICES ASSUME NEW a \in 1..c, NEW b \in 1..c, a # b PROVE t[a] # t[b]
    OBVIOUS
  <2>1. t[a] \in 1..n /\ t[b] \in 1..n
    BY <1>2
  <2>2. a < b \/ b < a
    BY <1>1
  <2> QED BY <1>2, <2>1, <2>2
<1>4. t \in Surjection(1..c, S)
  <2>1. t \in Injection(1..c, S)
    BY <1>2, <1>3 DEF Injection, IsInjective
  <2>2. Cardinality(1..c) = c
    BY <1>1, FS_Interval
  <2> QED BY <1>1, <2>1, <2>2, FS_Injection DEF c
<1>5. PICK a \in 1..c : t[a] = x
  BY <1>4 DEF Surjection
<1>6. Rank(S, x) = a
  <2> DEFINE h == [b \in 1..a |-> t[b]]
  <2>1. ASSUME NEW b \in 1..c PROVE t[b] \in UpTo(S, x) <=> b \in 1..a
    <3>1. t[b] \in S /\ t[b] \in 1..n /\ x \in 1..n
      BY <1>2
    <3>2. b < a \/ b = a \/ a < b
      BY <1>1
    <3> QED BY <1>2, <1>5, <3>1, <3>2 DEF UpTo
  <2>2. 1..a \subseteq 1..c
    BY <1>1
  <2>3. h \in [1..a -> UpTo(S, x)]
    BY <2>1, <2>2
  <2>4. \A y \in UpTo(S, x) : \E b \in 1..a : h[b] = y
    <3> SUFFICES ASSUME NEW y \in UpTo(S, x) PROVE \E b \in 1..a : h[b] = y
      OBVIOUS
    <3>1. PICK b \in 1..c : t[b] = y
      BY <1>4 DEF Surjection, UpTo
    <3> QED BY <2>1, <3>1
  <2>5. h \in Bijection(1..a, UpTo(S, x))
    <3>1. \A b, d \in 1..a : h[b] = h[d] => b = d
      BY <1>3, <2>2
    <3> QED BY <2>3, <2>4, <3>1 DEF Bijection, Injection, Surjection, IsInjective
  <2>6. a \in Nat /\ ExistsBijection(1..a, UpTo(S, x))
    BY <1>1, <2>5 DEF ExistsBijection
  <2> QED BY <2>6, FS_CountingElements DEF Rank
<1> QED BY <1>1, <1>5, <1>6 DEF c, t

-----------------------------------------------------------------------------
(* One worker                                                              *)

(* The records keep the fields that the argument reads.                    *)
Shape ==
    /\ DOMAIN flow = Jobs /\ DOMAIN pc = Jobs /\ DOMAIN disk = Jobs
    /\ DOMAIN build = Jobs /\ DOMAIN result = Jobs
    /\ \A j \in Jobs :
         /\ "video" \in DOMAIN disk[j] /\ "video" \in DOMAIN result[j]
         /\ "took" \in DOMAIN build[j] /\ "out" \in DOMAIN build[j]

OneRuns == \A i, j \in Running : i = j

(* The directories are those of the job that uses them.                    *)
PathsOwn == \A j \in Jobs : pc[j] \in {"collect", "slide"} => concat = j

(* A render is at no other step, and is published after run_concat.        *)
RenderSteps == {"queued", "prepare", "animate", "concat", "collect", "slide", "publish",
                "done", "failed", "cancelled"}
RenderOwn ==
    \A j \in Jobs : flow[j] = "render" =>
        /\ pc[j] \in RenderSteps
        /\ pc[j] = "publish" => build[j].out = j

Own(slides, j) == \A k \in DOMAIN slides : slides[k].owner = j
TookOwn == \A j \in Jobs : build[j].took \in Seq(Elements(build[j].took)) /\ Own(build[j].took, j)
DiskOwn == \A j \in Jobs : Own(disk[j].video.slides, j)
ResultOwn == \A j \in Jobs : Own(result[j].video.slides, j)

OwnInv == Shape /\ OneRuns /\ PathsOwn /\ RenderOwn /\ TookOwn /\ DiskOwn /\ ResultOwn

LEMMA BlankOwn ==
    /\ "video" \in DOMAIN EmptyDisk /\ EmptyDisk.video = NoVideo
    /\ "video" \in DOMAIN NoResult /\ NoResult.video = NoVideo
    /\ "took" \in DOMAIN NoBuild /\ "out" \in DOMAIN NoBuild
    /\ NoBuild.took \in Seq(Elements(NoBuild.took))
    /\ \A j : Own(NoBuild.took, j) /\ Own(NoVideo.slides, j)
<1>1. NoBuild.took = <<>> /\ NoVideo.slides = <<>>
  BY DEF NoBuild, NoVideo
<1>2. <<>> \in Seq(Elements(<<>>)) /\ DOMAIN <<>> = {}
  BY EmptySeq
<1> QED BY <1>1, <1>2 DEF Own, NoBuild, EmptyDisk, NoResult

(* Nobody starts to run but in Start.                                      *)
LEMMA InitOwn == Init => OwnInv
<1> SUFFICES ASSUME Init PROVE OwnInv
  OBVIOUS
<1>1. Running = {}
  BY DEF Init, Running, Checked, Unchecked
<1>2. Shape /\ PathsOwn /\ RenderOwn /\ TookOwn /\ DiskOwn /\ ResultOwn
  BY BlankOwn DEF Init, Shape, PathsOwn, RenderOwn, TookOwn, DiskOwn, ResultOwn
<1> QED BY <1>1, <1>2 DEF OwnInv, OneRuns

(* A step of job j that touches only its own pc and fields the argument    *)
(* does not read, and does not go into or out of run_concat.               *)
Quiet(j) ==
    /\ DOMAIN pc' = Jobs /\ \A i \in Jobs \ {j} : pc'[i] = pc[i]
    /\ \/ pc'[j] = pc[j]
       \/ /\ pc'[j] \notin {"collect", "slide"}
          /\ pc'[j] \in Checked \cup Unchecked => j \in Running
          /\ flow[j] = "render" => pc'[j] \in RenderSteps \ {"publish"}
    /\ flow' = flow /\ concat' = concat
    /\ DOMAIN disk' = Jobs /\ DOMAIN result' = Jobs /\ DOMAIN build' = Jobs
    /\ \A i \in Jobs :
         /\ "video" \in DOMAIN disk'[i]
         /\ disk'[i].video \in {disk[i].video, NoVideo}
         /\ "video" \in DOMAIN result'[i]
         /\ result'[i].video \in {result[i].video, NoVideo}
         /\ "took" \in DOMAIN build'[i] /\ "out" \in DOMAIN build'[i]
         /\ \/ build'[i].took = build[i].took /\ build'[i].out = build[i].out
            \/ build'[i] = NoBuild /\ (flow[i] = "render" => pc'[i] # "publish")

LEMMA QuietOwn ==
    ASSUME OwnInv, NEW j \in Jobs, Quiet(j)
    PROVE  OwnInv'
<1> USE DEF OwnInv
<1>1. Shape'
  BY DEF Shape, Quiet
<1>2. Running' \subseteq Running
  BY DEF Running, Quiet
<1>3. OneRuns'
  BY <1>2 DEF OneRuns
<1>4. PathsOwn'
  BY DEF PathsOwn, Quiet
<1>5. RenderOwn'
  BY DEF RenderOwn, Quiet
<1>6. TookOwn' /\ DiskOwn' /\ ResultOwn'
  BY BlankOwn DEF TookOwn, DiskOwn, ResultOwn, Quiet
<1> QED BY <1>1, <1>3, <1>4, <1>5, <1>6

LEMMA OverQuiet ==
    ASSUME OwnInv, NEW j \in Jobs, NEW end \in {"done", "failed", "cancelled"}, Stopped(j, end)
    PROVE  OwnInv'
<1>1. Shape
  BY DEF OwnInv
<1>2. Quiet(j)
  BY <1>1 DEF Quiet, Stopped, Over, Goto, Lose, Shape, EmptyDisk, NoResult, NoBuild, RenderSteps,
              Checked, Unchecked
<1> QED BY <1>2, QuietOwn

(* A job that leaves a step of its own kind for one that is not in         *)
(* run_concat.                                                             *)
LEMMA GenerationQuiet ==
    ASSUME OwnInv, NEW j \in Jobs,
           \/ EnsurePdf(j) \/ EnsureImages(j) \/ SavePage(j) \/ EnsureLpOutputs(j) \/ OpenResult(j)
           \/ DumpResult(j) \/ SnapshotAndScan(j) \/ WriteScript(j) \/ SpeakScript(j)
    PROVE  Quiet(j)
<1>1. Shape /\ (flow[j] = "render" => pc[j] \in RenderSteps)
  BY DEF OwnInv, RenderOwn
<1>2. CASE EnsurePdf(j)
  BY <1>1, <1>2 DEF EnsurePdf, Quiet, At, Goto, Shape, RenderSteps, Running, Checked, Unchecked
<1>3. CASE EnsureImages(j)
  BY <1>1, <1>3 DEF EnsureImages, Quiet, At, Goto, Shape, RenderSteps, Running, Checked, Unchecked
<1>4. CASE SavePage(j)
  BY <1>1, <1>4 DEF SavePage, Quiet, At, Goto, Shape, RenderSteps, Running, Checked, Unchecked
<1>5. CASE EnsureLpOutputs(j)
  BY <1>1, <1>5 DEF EnsureLpOutputs, Quiet, At, Goto, Shape, RenderSteps, Running, Checked, Unchecked
<1>6. CASE OpenResult(j)
  BY <1>1, <1>6 DEF OpenResult, Quiet, At, Goto, Shape, RenderSteps, Running, Checked, Unchecked
<1>7. CASE DumpResult(j)
  BY <1>1, <1>7 DEF DumpResult, Quiet, At, Goto, Shape, RenderSteps, Running, Checked, Unchecked, NoBuild
<1>8. CASE SnapshotAndScan(j)
  BY <1>1, <1>8 DEF SnapshotAndScan, Quiet, At, Goto, Shape, RenderSteps, Running, Checked, Unchecked
<1>9. CASE WriteScript(j)
  BY <1>1, <1>9 DEF WriteScript, Quiet, At, Goto, Shape, RenderSteps, Running, Checked, Unchecked
<1>10. CASE SpeakScript(j)
  BY <1>1, <1>10 DEF SpeakScript, Quiet, At, Goto, Shape, RenderSteps, Running, Checked, Unchecked
<1> QED BY <1>2, <1>3, <1>4, <1>5, <1>6, <1>7, <1>8, <1>9, <1>10

(* The rest of a visual run, an audio lecture, and the assignment.         *)
LEMMA LaterQuiet ==
    ASSUME OwnInv, NEW j \in Jobs,
           \/ StartMaterials(j) \/ (\E p \in Pages : ExtractMaterial(j, p)) \/ WriteMaterials(j)
           \/ WriteOutline(j) \/ Narrate(j) \/ Stitch(j) \/ Match(j) \/ Prepare(j) \/ Respond(j)
           \/ RequestCancel(j)
    PROVE  Quiet(j)
<1>1. Shape /\ (flow[j] = "render" => pc[j] \in RenderSteps)
  BY DEF OwnInv, RenderOwn
<1>2. CASE StartMaterials(j)
  BY <1>1, <1>2 DEF StartMaterials, Quiet, At, Goto, Shape, RenderSteps, Running, Checked, Unchecked
<1>3. CASE \E p \in Pages : ExtractMaterial(j, p)
  BY <1>1, <1>3 DEF ExtractMaterial, Quiet, At, Goto, Shape, RenderSteps, Running, Checked, Unchecked
<1>4. CASE WriteMaterials(j)
  <2>1. disk' = [disk EXCEPT ![j].materials = Collated(disk[j].arrived)]
    BY <1>4 DEF WriteMaterials
  <2>2. DOMAIN disk' = Jobs
        /\ \A i \in Jobs : "video" \in DOMAIN disk'[i] /\ disk'[i].video = disk[i].video
    BY <1>1, <2>1 DEF Shape
  <2>3. /\ pc[j] = "extract" /\ pc' = [pc EXCEPT ![j] = "outline"]
        /\ UNCHANGED <<flow, result, concat, build>>
    BY <1>4 DEF WriteMaterials, At, Goto
  <2> QED
    BY <1>1, <2>2, <2>3 DEF Quiet, Shape, RenderSteps, Running, Checked, Unchecked
<1>5. CASE WriteOutline(j)
  BY <1>1, <1>5 DEF WriteOutline, Quiet, At, Goto, Shape, RenderSteps, Running, Checked, Unchecked
<1>6. CASE Narrate(j)
  BY <1>1, <1>6 DEF Narrate, Quiet, At, Goto, Shape, RenderSteps, Running, Checked, Unchecked
<1>7. CASE Stitch(j)
  BY <1>1, <1>7 DEF Stitch, Quiet, At, Goto, Shape, RenderSteps, Running, Checked, Unchecked
<1>8. CASE Match(j)
  BY <1>1, <1>8 DEF Match, Quiet, At, Goto, Shape, RenderSteps, Running, Checked, Unchecked
<1>9. CASE Prepare(j)
  <2>1. /\ DOMAIN disk' = Jobs /\ \A i \in Jobs \ {j} : disk'[i] = disk[i]
        /\ "video" \in DOMAIN disk'[j] /\ disk'[j].video = NoVideo
    BY <1>1, <1>9 DEF Prepare, Shape, EmptyDisk
  <2>2. /\ pc[j] = "prepare" /\ pc' = [pc EXCEPT ![j] = "animate"]
        /\ UNCHANGED <<flow, result, concat, build>>
    BY <1>9 DEF Prepare, At, Goto
  <2> QED
    BY <1>1, <2>1, <2>2 DEF Quiet, Shape, RenderSteps, Running, Checked, Unchecked
<1>10. CASE Respond(j)
  BY <1>1, <1>10 DEF Respond, Quiet, At, Goto, Shape, RenderSteps, Running, Checked, Unchecked
<1>11. CASE RequestCancel(j)
  BY <1>1, <1>11 DEF RequestCancel, Quiet, At, Goto, Shape, RenderSteps, Running, Checked, Unchecked
<1> QED BY <1>2, <1>3, <1>4, <1>5, <1>6, <1>7, <1>8, <1>9, <1>10, <1>11

(* The steps that may end a job.                                           *)
LEMMA EndOwn ==
    ASSUME OwnInv, NEW j \in Jobs,
           Cancelled(j) \/ Fail(j) \/ AssignRegions(j) \/ Animate(j) \/ NoLecture(j)
    PROVE  OwnInv'
<1>1. Shape /\ (flow[j] = "render" => pc[j] \in RenderSteps)
  BY DEF OwnInv, RenderOwn
<1>2. CASE Cancelled(j) \/ Fail(j)
  BY <1>2, OverQuiet DEF Cancelled, Fail
<1>3. CASE AssignRegions(j)
  <2>1. Stopped(j, "failed") \/ Quiet(j)
    BY <1>1, <1>3 DEF AssignRegions, Quiet, At, Goto, Shape, RenderSteps, Running, Checked, Unchecked
  <2> QED BY <2>1, OverQuiet, QuietOwn
<1>4. CASE Animate(j)
  <2>1. Stopped(j, "failed") \/ Quiet(j)
    BY <1>1, <1>4 DEF Animate, Quiet, At, Goto, Shape, RenderSteps, Running, Checked, Unchecked
  <2> QED BY <2>1, OverQuiet, QuietOwn
<1>5. CASE NoLecture(j)
  <2>1. Stopped(j, "failed") \/ Quiet(j)
    BY <1>1, <1>5 DEF NoLecture, Quiet, At, Goto, Shape, RenderSteps, Running, Checked, Unchecked, NoBuild
  <2> QED BY <2>1, OverQuiet, QuietOwn
<1> QED BY <1>2, <1>3, <1>4, <1>5

(* The queue.  A worker that is free is the only one.                      *)
LEMMA SubmitOwn ==
    ASSUME OwnInv, NEW j \in Jobs, Submit(j)
    PROVE  OwnInv'
<1> USE DEF OwnInv
<1>1. /\ DOMAIN flow' = Jobs /\ \A i \in Jobs \ {j} : flow'[i] = flow[i]
      /\ pc' = [pc EXCEPT ![j] = "queued"]
      /\ UNCHANGED <<disk, result, concat, build>>
  BY DEF Submit, Goto, Shape
<1>2. Shape'
  BY <1>1 DEF Shape
<1>3. Running' \subseteq Running
  BY <1>1 DEF Running, Checked, Unchecked, Shape
<1>4. OneRuns'
  BY <1>3 DEF OneRuns
<1>5. PathsOwn' /\ RenderOwn'
  BY <1>1 DEF PathsOwn, RenderOwn, RenderSteps, Shape
<1>6. TookOwn' /\ DiskOwn' /\ ResultOwn'
  BY <1>1 DEF TookOwn, DiskOwn, ResultOwn
<1> QED BY <1>2, <1>4, <1>5, <1>6

LEMMA FreeMeansNone ==
    ASSUME Workers = 1, WorkerIsFree
    PROVE  Running = {}
<1>1. IsFiniteSet(Running)
  BY PipelineAssumption, FS_Subset DEF Running
<1>2. Cardinality(Running) \in Nat /\ Cardinality(Running) < 1
  BY <1>1, FS_CardinalityType DEF WorkerIsFree
<1>3. Cardinality(Running) = 0
  BY <1>2
<1> QED BY <1>1, <1>3, FS_EmptySet

LEMMA StartOwn ==
    ASSUME OwnInv, Workers = 1, NEW j \in Jobs, Start(j)
    PROVE  OwnInv'
<1> USE DEF OwnInv
<1>1. Running = {}
  BY FreeMeansNone DEF Start
<1>2. pc' = [pc EXCEPT ![j] = FirstStep(flow[j])] /\ UNCHANGED <<flow, disk, result, concat, build>>
  BY DEF Start, Goto
<1>3. Shape' /\ Running' \subseteq {j}
  BY <1>1, <1>2 DEF Shape, Running
<1>4. FirstStep(flow[j]) \notin {"collect", "slide", "publish"}
      /\ (flow[j] = "render" => FirstStep(flow[j]) = "prepare")
  BY DEF FirstStep
<1>5. OneRuns' /\ PathsOwn' /\ RenderOwn'
  BY <1>2, <1>3, <1>4 DEF OneRuns, PathsOwn, RenderOwn, RenderSteps, Shape
<1>6. TookOwn' /\ DiskOwn' /\ ResultOwn'
  BY <1>2 DEF TookOwn, DiskOwn, ResultOwn
<1> QED BY <1>3, <1>5, <1>6

LEMMA CrashOwn ==
    ASSUME OwnInv, Crash
    PROVE  OwnInv'
<1> USE DEF OwnInv
<1>1. Shape'
  BY BlankOwn DEF Crash, Cleared, Lose, Shape
<1>2. Running' = {}
  BY DEF Crash, Running, Checked, Unchecked
<1>3. OneRuns' /\ PathsOwn'
  BY <1>2 DEF OneRuns, PathsOwn, Running, Unchecked
<1>4. RenderOwn'
  BY DEF Crash, RenderOwn, RenderSteps, Running, Checked
<1>5. TookOwn' /\ DiskOwn' /\ ResultOwn'
  BY BlankOwn DEF Crash, Cleared, Lose, TookOwn, DiskOwn, ResultOwn
<1> QED BY <1>1, <1>3, <1>4, <1>5

(* run_concat.                                                             *)
LEMMA SetPathsOwn ==
    ASSUME OwnInv, NEW j \in Jobs, SetPaths(j)
    PROVE  OwnInv'
<1> USE DEF OwnInv
<1>1. /\ pc[j] = "concat" /\ pc' = [pc EXCEPT ![j] = "collect"] /\ concat' = j
      /\ UNCHANGED <<flow, disk, result, build>>
  BY DEF SetPaths, PathsOf, At, Goto
<1>2. Shape' /\ Running' \subseteq Running /\ j \in Running
  BY <1>1 DEF Shape, Running, Checked, Unchecked
<1>3. OneRuns'
  BY <1>2 DEF OneRuns
<1>4. \A i \in Jobs \ {j} : pc'[i] \notin {"collect", "slide"}
  BY <1>1, <1>2 DEF OneRuns, Running, Unchecked, Shape
<1>5. PathsOwn' /\ RenderOwn'
  BY <1>1, <1>4 DEF PathsOwn, RenderOwn, RenderSteps, Shape
<1>6. TookOwn' /\ DiskOwn' /\ ResultOwn'
  BY <1>1 DEF TookOwn, DiskOwn, ResultOwn
<1> QED BY <1>2, <1>3, <1>5, <1>6

LEMMA CollectOwn ==
    ASSUME OwnInv, NEW j \in Jobs, Collect(j)
    PROVE  OwnInv'
<1> USE DEF OwnInv
<1>1. /\ pc[j] = "collect" /\ pc' = [pc EXCEPT ![j] = "slide"]
      /\ UNCHANGED <<flow, disk, result, concat>>
  BY DEF Collect, At, Goto
<1>2. /\ DOMAIN build' = Jobs /\ \A i \in Jobs \ {j} : build'[i] = build[i]
      /\ "took" \in DOMAIN build'[j] /\ "out" \in DOMAIN build'[j] /\ build'[j].took = NoBuild.took
  BY DEF Collect, Shape, NoBuild
<1>3. Shape' /\ Running' \subseteq Running
  BY <1>1, <1>2 DEF Shape, Running, Checked, Unchecked
<1>4. OneRuns'
  BY <1>3 DEF OneRuns
<1>5. PathsOwn' /\ RenderOwn'
  BY <1>1, <1>2 DEF PathsOwn, RenderOwn, RenderSteps, Shape
<1>6. TookOwn' /\ DiskOwn' /\ ResultOwn'
  BY <1>1, <1>2, BlankOwn DEF TookOwn, DiskOwn, ResultOwn
<1> QED BY <1>3, <1>4, <1>5, <1>6

LEMMA BuildSlideOwn ==
    ASSUME OwnInv, NEW j \in Jobs, BuildSlide(j)
    PROVE  OwnInv'
<1> USE DEF OwnInv
<1>1. pc[j] = "slide" /\ UNCHANGED <<flow, pc, disk, result, concat>>
  BY DEF BuildSlide, At
<1>2. concat = j
  BY <1>1 DEF PathsOwn
<1>3. PICK slide : /\ slide.owner = j
                   /\ \/ build' = [build EXCEPT ![j].left = Tail(@), ![j].took = Append(@, slide)]
                      \/ build' = [build EXCEPT ![j].left = Tail(@)]
  <2>1. \A p, sentences : SlideFinal(concat, p, sentences).owner = j
    BY <1>2 DEF SlideFinal
  <2>2. \E slide : slide.owner = j
    <3>1. [owner |-> j].owner = j
      OBVIOUS
    <3> QED BY <3>1
  <2> QED BY <2>1, <2>2 DEF BuildSlide
<1>4. /\ DOMAIN build' = Jobs /\ \A i \in Jobs \ {j} : build'[i] = build[i]
      /\ "took" \in DOMAIN build'[j] /\ "out" \in DOMAIN build'[j]
      /\ build'[j].took \in {build[j].took, Append(build[j].took, slide)}
  BY <1>3 DEF Shape
<1>5. build'[j].took \in Seq(Elements(build'[j].took)) /\ Own(build'[j].took, j)
  <2> DEFINE t == build[j].took
  <2>1. t \in Seq(Elements(t)) /\ Own(t, j)
    BY DEF TookOwn
  <2> HIDE DEF t
  <2>2. Append(t, slide) \in Seq(Elements(Append(t, slide))) /\ Own(Append(t, slide), j)
    BY <2>1, <1>3, AppendElements DEF Own
  <2> QED BY <2>1, <2>2, <1>4 DEF t
<1>6. Shape' /\ OneRuns' /\ PathsOwn'
  BY <1>1, <1>4 DEF Shape, OneRuns, Running, PathsOwn
<1>7. RenderOwn'
  BY <1>1, <1>4 DEF RenderOwn
<1>8. TookOwn' /\ DiskOwn' /\ ResultOwn'
  BY <1>1, <1>4, <1>5 DEF TookOwn, DiskOwn, ResultOwn
<1> QED BY <1>6, <1>7, <1>8

LEMMA JoinSlidesOwn ==
    ASSUME OwnInv, NEW j \in Jobs, JoinSlides(j)
    PROVE  OwnInv'
<1> USE DEF OwnInv
<1>1. pc[j] = "slide" /\ pc' = [pc EXCEPT ![j] = AfterConcat(j)] /\ UNCHANGED <<flow, result, concat>>
  BY DEF JoinSlides, At, Goto
<1>2. concat = j
  BY <1>1 DEF PathsOwn
<1>3. /\ DOMAIN disk' = Jobs /\ \A i \in Jobs \ {j} : disk'[i] = disk[i]
      /\ "video" \in DOMAIN disk'[j] /\ disk'[j].video.slides = build[j].took
  BY <1>2 DEF JoinSlides, Shape
<1>4. /\ DOMAIN build' = Jobs /\ \A i \in Jobs \ {j} : build'[i] = build[i]
      /\ "took" \in DOMAIN build'[j] /\ "out" \in DOMAIN build'[j]
      /\ build'[j].took = NoBuild.took /\ build'[j].out = j
  BY <1>2 DEF JoinSlides, Shape, NoBuild
<1>5. AfterConcat(j) \in {"publish", "respond"} /\ (flow[j] = "render" => AfterConcat(j) = "publish")
  BY DEF AfterConcat
<1>6. Shape' /\ Running' \subseteq Running
  BY <1>1, <1>3, <1>4 DEF Shape, Running, Checked, Unchecked
<1>7. OneRuns'
  BY <1>6 DEF OneRuns
<1>8. PathsOwn'
  BY <1>1, <1>5 DEF PathsOwn, Shape
<1>9. RenderOwn'
  BY <1>1, <1>4, <1>5 DEF RenderOwn, RenderSteps, Shape
<1>10. TookOwn' /\ DiskOwn' /\ ResultOwn'
  BY <1>1, <1>3, <1>4, BlankOwn DEF TookOwn, DiskOwn, ResultOwn
<1> QED BY <1>6, <1>7, <1>8, <1>9, <1>10

LEMMA PublishOwn ==
    ASSUME OwnInv, NEW j \in Jobs, Publish(j)
    PROVE  OwnInv'
<1> USE DEF OwnInv
<1>1. /\ pc[j] = "publish" /\ pc' = [pc EXCEPT ![j] = "done"] /\ UNCHANGED <<flow, concat>>
      /\ disk' = [disk EXCEPT ![j] = EmptyDisk] /\ build' = [build EXCEPT ![j] = NoBuild]
  BY DEF Publish, Over, At, Goto
<1>2. /\ DOMAIN result' = Jobs /\ \A i \in Jobs \ {j} : result'[i] = result[i]
      /\ "video" \in DOMAIN result'[j]
      /\ result'[j].video = IF flow[j] = "render" THEN disk[build[j].out].video ELSE disk[j].video
  BY DEF Publish, Shape, NoResult
<1>3. result'[j].video = disk[j].video
  BY <1>1, <1>2 DEF RenderOwn
<1>4. Shape' /\ Running' \subseteq Running
  BY <1>1, <1>2, BlankOwn DEF Shape, Running, Checked, Unchecked
<1>5. OneRuns'
  BY <1>4 DEF OneRuns
<1>6. PathsOwn' /\ RenderOwn'
  BY <1>1 DEF PathsOwn, RenderOwn, RenderSteps, Shape
<1>7. TookOwn' /\ DiskOwn' /\ ResultOwn'
  BY <1>1, <1>2, <1>3, BlankOwn DEF TookOwn, DiskOwn, ResultOwn, Shape
<1> QED BY <1>4, <1>5, <1>6, <1>7

LEMMA StepOwn ==
    ASSUME OwnInv, Workers = 1, Next
    PROVE  OwnInv'
<1>1. CASE Crash
  BY <1>1, CrashOwn
<1>2. CASE \E j \in Jobs : Step(j)
  <2>1. PICK j \in Jobs : Step(j)
    BY <1>2
  <2>2. CASE Submit(j) \/ Start(j)
    BY <2>2, SubmitOwn, StartOwn
  <2>3. CASE \/ EnsurePdf(j) \/ EnsureImages(j) \/ SavePage(j) \/ EnsureLpOutputs(j) \/ OpenResult(j)
             \/ DumpResult(j) \/ SnapshotAndScan(j) \/ WriteScript(j) \/ SpeakScript(j)
    BY <2>3, GenerationQuiet, QuietOwn
  <2>4. CASE \/ StartMaterials(j) \/ (\E p \in Pages : ExtractMaterial(j, p)) \/ WriteMaterials(j)
             \/ WriteOutline(j) \/ Narrate(j) \/ Stitch(j) \/ Match(j) \/ Prepare(j) \/ Respond(j)
             \/ RequestCancel(j)
    BY <2>4, LaterQuiet, QuietOwn
  <2>5. CASE Cancelled(j) \/ Fail(j) \/ AssignRegions(j) \/ Animate(j) \/ NoLecture(j)
    BY <2>5, EndOwn
  <2>6. CASE SetPaths(j) \/ Collect(j) \/ BuildSlide(j) \/ JoinSlides(j) \/ Publish(j)
    BY <2>6, SetPathsOwn, CollectOwn, BuildSlideOwn, JoinSlidesOwn, PublishOwn
  <2> QED BY <2>1, <2>2, <2>3, <2>4, <2>5, <2>6 DEF Step
<1> QED BY <1>1, <1>2 DEF Next

LEMMA OwnStutters == ASSUME OwnInv, UNCHANGED vars PROVE OwnInv'
BY DEF vars, OwnInv, Shape, OneRuns, Running, PathsOwn, RenderOwn, TookOwn, DiskOwn, ResultOwn

(* lecture_concat keeps its directories in globals of the process          *)
(* (lecture_concat.set_paths).  With one worker, the default of            *)
(* _job_worker_count, no job ever finds those of another, and no video is   *)
(* made of slides of another job, whatever fails, is cancelled or dies.    *)
THEOREM VideoIsItsJobs ==
    ASSUME Workers = 1
    PROVE  Spec => []VideoIsOwn
<1>1. OwnInv => VideoIsOwn
  BY DEF OwnInv, PathsOwn, ResultOwn, Own, VideoIsOwn
<1>2. OwnInv /\ [Next]_vars => OwnInv'
  BY StepOwn, OwnStutters
<1> QED BY InitOwn, <1>1, <1>2, PTL DEF Spec


-----------------------------------------------------------------------------
(* Any number of workers                                                   *)

BeforeImages == {"none", "queued", "pdf", "images"}
VisualSteps == {"lp", "lpdump", "snapshot", "script", "assign", "tts", "animate", "concat",
                "collect", "slide"}
AudioSteps == {"materials", "extract", "outline", "narrate", "stitch"}
AfterImages == VisualSteps \cup AudioSteps \cup {"ready", "respond"}
Runs == {"audio", "visual", "reviewed"}
InTheirOrder == [p \in Pages |-> p]

(* What is known of a job by its flow f, its step s, its workspace d and   *)
(* its response r.                                                         *)
Covers(f, s, d, r) ==
    /\ "images" \in DOMAIN d /\ "arrived" \in DOMAIN d /\ "materials" \in DOMAIN d
    /\ "pages" \in DOMAIN r /\ "materials" \in DOMAIN r
    /\ d.arrived \in Seq(Pages)
    /\ s \in BeforeImages => d.images = 0
    /\ s = "page" => d.images \in Nat /\ d.images < LastPage
    /\ s \in AfterImages => d.images = LastPage
    /\ f = "none" => s = "none"
    /\ s = "match" => f = "assignment"
    /\ s = "prepare" => f = "render"
    /\ s \in VisualSteps => f # "audio"
    /\ f = "audio" /\ s \in {"outline", "narrate", "stitch", "respond"} => d.materials = InTheirOrder
    /\ f \in Runs /\ s \in {"publish", "done"} =>
         r.pages = LastPage /\ (f = "audio" => r.materials = InTheirOrder)

Domains == /\ DOMAIN flow = Jobs /\ DOMAIN pc = Jobs
             /\ DOMAIN disk = Jobs /\ DOMAIN result = Jobs
CoversInv == Domains /\ \A j \in Jobs : Covers(flow[j], pc[j], disk[j], result[j])

LEMMA BlankCovers ==
    /\ "images" \in DOMAIN EmptyDisk /\ "arrived" \in DOMAIN EmptyDisk /\ "materials" \in DOMAIN EmptyDisk
    /\ EmptyDisk.images = 0 /\ EmptyDisk.arrived \in Seq(Pages)
    /\ "pages" \in DOMAIN NoResult /\ "materials" \in DOMAIN NoResult
<1>1. EmptyDisk.arrived = <<>>
  BY DEF EmptyDisk
<1> QED BY <1>1, EmptySeq DEF EmptyDisk, NoResult

(* A job that is queued again, or over without a response, may have lost   *)
(* everything.                                                             *)
LEMMA LostCovers ==
    ASSUME NEW f, f # "none", NEW s \in {"queued", "failed", "cancelled"}
    PROVE  Covers(f, s, EmptyDisk, NoResult)
BY BlankCovers DEF Covers, BeforeImages, AfterImages, VisualSteps, AudioSteps

LEMMA InitCovers == Init => CoversInv
<1> SUFFICES ASSUME Init PROVE CoversInv
  OBVIOUS
<1>1. Covers("none", "none", EmptyDisk, NoResult)
  BY BlankCovers DEF Covers, BeforeImages, AfterImages, VisualSteps, AudioSteps, Runs
<1> QED BY <1>1 DEF Init, CoversInv, Domains

(* A step of job j changes nothing of another that the argument reads: a   *)
(* slide that is joined for somebody else is no page and no material.      *)
Spares(d, e) ==
    /\ "images" \in DOMAIN e /\ "arrived" \in DOMAIN e /\ "materials" \in DOMAIN e
    /\ e.images = d.images /\ e.arrived = d.arrived /\ e.materials = d.materials
StepOf(j) ==
    /\ Domains'
    /\ \A i \in Jobs \ {j} :
         flow'[i] = flow[i] /\ pc'[i] = pc[i] /\ result'[i] = result[i] /\ Spares(disk[i], disk'[i])
    /\ Covers(flow'[j], pc'[j], disk'[j], result'[j])

LEMMA StepOfCovers ==
    ASSUME CoversInv, NEW j \in Jobs, StepOf(j)
    PROVE  CoversInv'
<1> SUFFICES ASSUME NEW i \in Jobs PROVE Covers(flow'[i], pc'[i], disk'[i], result'[i])
  BY DEF CoversInv, StepOf
<1>1. CASE i = j
  BY <1>1 DEF StepOf
<1>2. CASE i # j
  <2>1. Covers(flow[i], pc[i], disk[i], result[i]) /\ Spares(disk[i], disk'[i])
        /\ flow'[i] = flow[i] /\ pc'[i] = pc[i] /\ result'[i] = result[i]
    BY <1>2 DEF CoversInv, StepOf
  <2> QED BY <2>1 DEF Covers, Spares
<1> QED BY <1>1, <1>2

LEMMA StoppedCovers ==
    ASSUME CoversInv, NEW j \in Jobs, pc[j] # "none", NEW end \in {"failed", "cancelled"}, Stopped(j, end)
    PROVE  StepOf(j)
<1>1. Domains /\ \A i \in Jobs : Covers(flow[i], pc[i], disk[i], result[i])
  BY DEF CoversInv
<1>2. /\ flow' = flow /\ pc' = [pc EXCEPT ![j] = end] /\ disk' = [disk EXCEPT ![j] = EmptyDisk]
      /\ result' = [i \in Jobs |-> IF i = j THEN NoResult ELSE result[i]]
  BY DEF Stopped, Over, Goto, Lose
<1>3. Covers(flow[j], end, EmptyDisk, NoResult)
  BY <1>1, LostCovers DEF Covers
<1> QED BY <1>1, <1>2, <1>3 DEF StepOf, Domains, Spares, Covers

(* The queue, and the images of the pages.                                 *)
LEMMA QueueCovers ==
    ASSUME CoversInv, NEW j \in Jobs,
           \/ Submit(j) \/ RequestCancel(j) \/ Start(j) \/ EnsurePdf(j) \/ EnsureImages(j) \/ SavePage(j)
           \/ EnsureLpOutputs(j) \/ OpenResult(j) \/ DumpResult(j)
    PROVE  StepOf(j)
<1>1. Domains /\ \A i \in Jobs : Covers(flow[i], pc[i], disk[i], result[i])
  BY DEF CoversInv
<1>2. CASE Submit(j)
  <2>1. /\ pc[j] = "none" /\ pc' = [pc EXCEPT ![j] = "queued"] /\ disk[j].images = 0
        /\ UNCHANGED <<disk, result>>
    BY <1>1, <1>2 DEF Submit, Goto, Covers, BeforeImages
  <2>2. \E f \in Flows : flow' = [flow EXCEPT ![j] = f]
    BY <1>2 DEF Submit, Flows
  <2>3. PICK f : f # "none" /\ flow' = [flow EXCEPT ![j] = f]
    BY <2>2 DEF Flows
  <2>4. Covers(f, "queued", disk[j], result[j])
    BY <1>1, <2>1, <2>3 DEF Covers, BeforeImages, AfterImages, VisualSteps, AudioSteps
  <2>5. /\ flow'[j] = f /\ pc'[j] = "queued"
        /\ \A i \in Jobs \ {j} : flow'[i] = flow[i] /\ pc'[i] = pc[i]
        /\ DOMAIN flow' = Jobs /\ DOMAIN pc' = Jobs
    BY <1>1, <2>1, <2>3 DEF Domains
  <2>6. \A i \in Jobs : Spares(disk[i], disk[i])
    BY <1>1 DEF Spares, Covers
  <2> QED BY <1>1, <2>1, <2>4, <2>5, <2>6 DEF StepOf, Domains
<1>3. CASE RequestCancel(j)
  BY <1>1, <1>3 DEF RequestCancel, StepOf, Spares, Domains, At, Goto, Covers, BeforeImages, AfterImages, VisualSteps, AudioSteps, Runs
<1>4. CASE Start(j)
  BY <1>1, <1>4, PipelineAssumption DEF Start, StepOf, Spares, Domains, At, Goto, Covers, BeforeImages, AfterImages, VisualSteps, AudioSteps, Runs, FirstStep
<1>5. CASE EnsurePdf(j)
  BY <1>1, <1>5 DEF EnsurePdf, StepOf, Spares, Domains, At, Goto, Covers, BeforeImages, AfterImages, VisualSteps, AudioSteps, Runs
<1>6. CASE EnsureImages(j)
  BY <1>1, <1>6, PipelineAssumption DEF EnsureImages, StepOf, Spares, Domains, At, Goto, Covers, BeforeImages, AfterImages, VisualSteps, AudioSteps, Runs
<1>7. CASE SavePage(j)
  BY <1>1, <1>7, PipelineAssumption DEF SavePage, StepOf, Spares, Domains, At, Goto, Covers, BeforeImages, AfterImages, VisualSteps, AudioSteps, Runs
<1>8. CASE EnsureLpOutputs(j)
  <2>1. pc[j] = "ready" /\ UNCHANGED <<flow, disk, result>>
    BY <1>8 DEF EnsureLpOutputs, At
  <2>2. PICK s : /\ pc' = [pc EXCEPT ![j] = s]
                 /\ s \in {"materials", "snapshot", "lp"}
                 /\ s = "materials" \/ flow[j] # "audio"
    <3>1. CASE flow[j] = "audio"
      BY <3>1, <1>8 DEF EnsureLpOutputs, Goto
    <3>2. CASE flow[j] # "audio" /\ LpOutputsReady(j)
      BY <3>2, <1>8 DEF EnsureLpOutputs, Goto
    <3>3. CASE flow[j] # "audio" /\ ~LpOutputsReady(j)
      BY <3>3, <1>8 DEF EnsureLpOutputs, Goto
    <3> QED BY <3>1, <3>2, <3>3
  <2> QED BY <1>1, <2>1, <2>2 DEF StepOf, Spares, Domains, Covers, BeforeImages, AfterImages, VisualSteps, AudioSteps, Runs
<1>9. CASE OpenResult(j)
  BY <1>1, <1>9 DEF OpenResult, StepOf, Spares, Domains, At, Goto, Covers, BeforeImages, AfterImages, VisualSteps, AudioSteps, Runs
<1>10. CASE DumpResult(j)
  BY <1>1, <1>10 DEF DumpResult, StepOf, Spares, Domains, At, Goto, Covers, BeforeImages, AfterImages, VisualSteps, AudioSteps, Runs
<1> QED BY <1>2, <1>3, <1>4, <1>5, <1>6, <1>7, <1>8, <1>9, <1>10

(* The visual pipeline and run_concat.                                     *)
LEMMA VisualCovers ==
    ASSUME CoversInv, NEW j \in Jobs,
           \/ SnapshotAndScan(j) \/ WriteScript(j) \/ AssignRegions(j) \/ SpeakScript(j) \/ Animate(j)
           \/ SetPaths(j) \/ Collect(j) \/ BuildSlide(j) \/ JoinSlides(j) \/ NoLecture(j)
    PROVE  StepOf(j)
<1>1. Domains /\ \A i \in Jobs : Covers(flow[i], pc[i], disk[i], result[i])
  BY DEF CoversInv
<1>2. CASE SnapshotAndScan(j)
  BY <1>1, <1>2 DEF SnapshotAndScan, StepOf, Spares, Domains, At, Goto, Covers, BeforeImages, AfterImages, VisualSteps, AudioSteps, Runs
<1>3. CASE WriteScript(j)
  BY <1>1, <1>3 DEF WriteScript, StepOf, Spares, Domains, At, Goto, Covers, BeforeImages, AfterImages, VisualSteps, AudioSteps, Runs
<1>4. CASE AssignRegions(j)
  <2>1. (Stopped(j, "failed") /\ pc[j] # "none") \/ StepOf(j)
    BY <1>1, <1>4 DEF AssignRegions, StepOf, Spares, Domains, At, Goto, Covers, BeforeImages, AfterImages, VisualSteps, AudioSteps, Runs
  <2> QED BY <2>1, StoppedCovers
<1>5. CASE SpeakScript(j)
  BY <1>1, <1>5 DEF SpeakScript, StepOf, Spares, Domains, At, Goto, Covers, BeforeImages, AfterImages, VisualSteps, AudioSteps, Runs
<1>6. CASE Animate(j)
  <2>1. (Stopped(j, "failed") /\ pc[j] # "none") \/ StepOf(j)
    BY <1>1, <1>6 DEF Animate, StepOf, Spares, Domains, At, Goto, Covers, BeforeImages, AfterImages, VisualSteps, AudioSteps, Runs
  <2> QED BY <2>1, StoppedCovers
<1>7. CASE SetPaths(j)
  BY <1>1, <1>7 DEF SetPaths, StepOf, Spares, Domains, At, Goto, Covers, BeforeImages, AfterImages, VisualSteps, AudioSteps, Runs
<1>8. CASE Collect(j)
  BY <1>1, <1>8 DEF Collect, StepOf, Spares, Domains, At, Goto, Covers, BeforeImages, AfterImages, VisualSteps, AudioSteps, Runs
<1>9. CASE BuildSlide(j)
  BY <1>1, <1>9 DEF BuildSlide, StepOf, Spares, Domains, At, Goto, Covers, BeforeImages, AfterImages, VisualSteps, AudioSteps, Runs
<1>10. CASE JoinSlides(j)
  BY <1>1, <1>10, PipelineAssumption DEF JoinSlides, StepOf, Spares, Domains, At, Goto, Covers, BeforeImages, AfterImages, VisualSteps, AudioSteps, Runs, AfterConcat
<1>11. CASE NoLecture(j)
  <2>1. (Stopped(j, "failed") /\ pc[j] # "none") \/ StepOf(j)
    BY <1>1, <1>11 DEF NoLecture, StepOf, Spares, Domains, At, Goto, Covers, BeforeImages, AfterImages, VisualSteps, AudioSteps, Runs
  <2> QED BY <2>1, StoppedCovers
<1> QED BY <1>2, <1>3, <1>4, <1>5, <1>6, <1>7, <1>8, <1>9, <1>10, <1>11

(* The audio lecture, a reviewed lecture, the response.                    *)
LEMMA LastCovers ==
    ASSUME CoversInv, NEW j \in Jobs,
           \/ StartMaterials(j) \/ (\E p \in Pages : ExtractMaterial(j, p)) \/ WriteMaterials(j)
           \/ WriteOutline(j) \/ Narrate(j) \/ Stitch(j) \/ Match(j) \/ Prepare(j) \/ Respond(j)
           \/ Publish(j)
    PROVE  StepOf(j)
<1>1. Domains /\ \A i \in Jobs : Covers(flow[i], pc[i], disk[i], result[i])
  BY DEF CoversInv
<1>2. CASE StartMaterials(j)
  BY <1>1, <1>2 DEF StartMaterials, StepOf, Spares, Domains, At, Goto, Covers, BeforeImages, AfterImages, VisualSteps, AudioSteps, Runs
<1>3. CASE \E p \in Pages : ExtractMaterial(j, p)
  BY <1>1, <1>3 DEF ExtractMaterial, StepOf, Spares, Domains, At, Goto, Covers, BeforeImages, AfterImages, VisualSteps, AudioSteps, Runs
<1>4. CASE WriteMaterials(j)
  <2> DEFINE d == disk[j]
  <2>1. /\ pc[j] = "extract" /\ pc' = [pc EXCEPT ![j] = "outline"] /\ UNCHANGED <<flow, result>>
        /\ disk' = [disk EXCEPT ![j].materials = Collated(d.arrived)]
        /\ Waiting(j) = {}
    BY <1>4 DEF WriteMaterials, At, Goto
  <2>2. d.arrived \in Seq(Pages) /\ Images(j) = Pages
    BY <1>1, <2>1 DEF Covers, AfterImages, AudioSteps, Images, Pages
  <2>3. ToSet(d.arrived) \subseteq Pages
    <3>1. d.arrived \in [1..Len(d.arrived) -> Pages]
      BY <2>2, LenProperties
    <3> QED BY <3>1 DEF ToSet
  <2>4. Collated(d.arrived) = InTheirOrder
    BY <2>1, <2>2, <2>3 DEF Waiting, Collated, InTheirOrder
  <2>5. /\ DOMAIN disk' = Jobs /\ \A i \in Jobs \ {j} : disk'[i] = disk[i]
        /\ "images" \in DOMAIN disk'[j] /\ "arrived" \in DOMAIN disk'[j] /\ "materials" \in DOMAIN disk'[j]
        /\ disk'[j].images = d.images /\ disk'[j].arrived = d.arrived
        /\ disk'[j].materials = InTheirOrder
    BY <1>1, <2>1, <2>4 DEF Domains, Covers
  <2> HIDE DEF d
  <2> QED BY <1>1, <2>1, <2>5 DEF d, StepOf, Spares, Domains, Covers, BeforeImages, AfterImages, VisualSteps, AudioSteps, Runs
<1>5. CASE WriteOutline(j)
  BY <1>1, <1>5 DEF WriteOutline, StepOf, Spares, Domains, At, Goto, Covers, BeforeImages, AfterImages, VisualSteps, AudioSteps, Runs
<1>6. CASE Narrate(j)
  BY <1>1, <1>6 DEF Narrate, StepOf, Spares, Domains, At, Goto, Covers, BeforeImages, AfterImages, VisualSteps, AudioSteps, Runs
<1>7. CASE Stitch(j)
  BY <1>1, <1>7 DEF Stitch, StepOf, Spares, Domains, At, Goto, Covers, BeforeImages, AfterImages, VisualSteps, AudioSteps, Runs
<1>8. CASE Match(j)
  BY <1>1, <1>8 DEF Match, StepOf, Spares, Domains, At, Goto, Covers, BeforeImages, AfterImages, VisualSteps, AudioSteps, Runs
<1>9. CASE Prepare(j)
  <2>1. /\ pc[j] = "prepare" /\ pc' = [pc EXCEPT ![j] = "animate"] /\ UNCHANGED <<flow, result>>
    BY <1>9 DEF Prepare, At, Goto
  <2>2. /\ DOMAIN disk' = Jobs /\ \A i \in Jobs \ {j} : disk'[i] = disk[i]
        /\ "images" \in DOMAIN disk'[j] /\ "arrived" \in DOMAIN disk'[j] /\ "materials" \in DOMAIN disk'[j]
        /\ disk'[j].images = LastPage /\ disk'[j].arrived = <<>>
    BY <1>1, <1>9 DEF Prepare, Domains, EmptyDisk
  <2>3. disk'[j].arrived \in Seq(Pages)
    BY <2>2, EmptySeq
  <2> QED BY <1>1, <2>1, <2>2, <2>3 DEF StepOf, Spares, Domains, Covers, BeforeImages, AfterImages, VisualSteps, AudioSteps, Runs
<1>10. CASE Respond(j)
  BY <1>1, <1>10 DEF Respond, StepOf, Spares, Domains, At, Goto, Covers, BeforeImages, AfterImages, VisualSteps, AudioSteps, Runs
<1>11. CASE Publish(j)
  <2>1. /\ pc[j] = "publish" /\ pc' = [pc EXCEPT ![j] = "done"] /\ UNCHANGED flow
        /\ disk' = [disk EXCEPT ![j] = EmptyDisk]
    BY <1>11 DEF Publish, At, Over, Goto
  <2>2. /\ DOMAIN result' = Jobs /\ \A i \in Jobs \ {j} : result'[i] = result[i]
        /\ "pages" \in DOMAIN result'[j] /\ "materials" \in DOMAIN result'[j]
        /\ result'[j].pages = result[j].pages /\ result'[j].materials = result[j].materials
    BY <1>1, <1>11 DEF Publish, Domains, NoResult
  <2> QED BY <1>1, <2>1, <2>2, BlankCovers DEF StepOf, Spares, Domains, Covers, BeforeImages, AfterImages, VisualSteps, AudioSteps, Runs
<1> QED BY <1>2, <1>3, <1>4, <1>5, <1>6, <1>7, <1>8, <1>9, <1>10, <1>11

LEMMA CrashCovers ==
    ASSUME CoversInv, Crash
    PROVE  CoversInv'
<1>1. Domains /\ \A i \in Jobs : Covers(flow[i], pc[i], disk[i], result[i])
  BY DEF CoversInv
<1>2. Domains'
  BY <1>1 DEF Crash, Cleared, Lose, Domains
<1>3. ASSUME NEW i \in Jobs PROVE Covers(flow'[i], pc'[i], disk'[i], result'[i])
  <2>1. CASE i \in Running
    <3>1. disk'[i] = EmptyDisk /\ result'[i] = NoResult /\ flow'[i] = flow[i]
      BY <1>1, <2>1 DEF Crash, Cleared, Lose, Domains
    <3>2. pc'[i] \in {"queued", "failed"}
      BY <1>1, <2>1 DEF Crash, Domains
    <3>3. flow[i] # "none"
      BY <1>1, <2>1 DEF Covers, Running, Checked, Unchecked
    <3> QED BY <3>1, <3>2, <3>3, LostCovers
  <2>2. CASE i \notin Running
    <3>1. disk'[i] = disk[i] /\ result'[i] = result[i] /\ flow'[i] = flow[i] /\ pc'[i] = pc[i]
      <4>1. disk'[i] = disk[i] /\ flow'[i] = flow[i]
        BY <1>1, <2>2 DEF Crash, Cleared, Domains
      <4>2. result'[i] = result[i]
        BY <1>1, <2>2 DEF Crash, Lose, Domains
      <4>3. pc'[i] = pc[i]
        BY <1>1, <2>2 DEF Crash, Domains
      <4> QED BY <4>1, <4>2, <4>3
    <3> QED BY <1>1, <3>1
  <2> QED BY <2>1, <2>2
<1> QED BY <1>2, <1>3 DEF CoversInv

LEMMA NextCovers ==
    ASSUME CoversInv, Next
    PROVE  CoversInv'
<1>1. CASE Crash
  BY <1>1, CrashCovers
<1>2. CASE \E j \in Jobs : Step(j)
  <2>1. PICK j \in Jobs : Step(j)
    BY <1>2
  <2>2. CASE Cancelled(j) \/ Fail(j)
    <3>1. pc[j] # "none" /\ \E end \in {"failed", "cancelled"} : Stopped(j, end)
      BY <2>2 DEF Cancelled, Checks, Checked, Fail, At
    <3> QED BY <3>1, StoppedCovers, StepOfCovers
  <2>3. CASE ~(Cancelled(j) \/ Fail(j))
    <3>1. StepOf(j)
      BY <2>1, <2>3, QueueCovers, VisualCovers, LastCovers DEF Step
    <3> QED BY <3>1, StepOfCovers
  <2> QED BY <2>2, <2>3
<1> QED BY <1>1, <1>2 DEF Next

LEMMA CoversStutters == ASSUME CoversInv, UNCHANGED vars PROVE CoversInv'
BY DEF vars, CoversInv, Domains

(* A completed run covers the whole deck, and an audio lecture follows its *)
(* pages, for every number of workers, deaths and retries: a run begins    *)
(* with an empty workspace (JobManager._restore_pending_project_runs), so  *)
(* what ensure_pdf_images finds there is never a part of the pages, and    *)
(* the materials are sorted by page whatever order the pool ends in        *)
(* (step_extract_materials).                                               *)
THEOREM CompletedCoversTheDeck == Spec => []CompletedIsWhole
<1>1. CoversInv => CompletedIsWhole
  BY DEF CoversInv, Covers, Runs, CompletedIsWhole, Done, InTheirOrder
<1>2. CoversInv /\ [Next]_vars => CoversInv'
  BY NextCovers, CoversStutters
<1> QED BY InitCovers, <1>1, <1>2, PTL DEF Spec

-----------------------------------------------------------------------------
(* What a video shows                                                      *)

Item == [sent : Nat, region : Nat]
Finished == {"done", "failed", "cancelled"}
AfterPaths == {"collect", "slide", "respond", "publish"}
VisualAt == BeforeImages \cup VisualSteps \cup {"page", "ready", "respond", "publish"} \cup Finished
Early == {"none"} \cup BeforeImages \cup (VisualSteps \ {"collect", "slide"}) \cup AudioSteps
             \cup {"page", "ready", "match", "prepare"}

(* A slide is drawn from workspace d: each of its clips is the clip of a   *)
(* sentence of its page.                                                   *)
Drawn(slide, d) ==
    /\ slide.page \in Pages
    /\ \A i \in DOMAIN slide.clips :
         \E n \in Sentences(d, slide.page) : slide.clips[i] = SentenceClip(d, slide.page, n)
DrawnFrom(slides, j, d) == \A k \in DOMAIN slides : slides[k].owner = j => Drawn(slides[k], d)
NoneOf(slides, j) == \A k \in DOMAIN slides : slides[k].owner # j

(* What is known of a job by its flow f, its step s, its workspace d and   *)
(* its response r.                                                         *)
Traced(f, s, d, r) ==
    /\ s \in Early \cup AfterPaths \cup Finished
    /\ {"texts", "maps", "lp", "parts", "clips", "video"} \subseteq DOMAIN d /\ "timeline" \in DOMAIN r
    /\ \A p \in Pages : d.texts[p] \in Seq({"full", "ask"}) /\ d.maps[p] \in Seq(Item)
    /\ f = "none" => s = "none"
    /\ f = "visual" => s \in VisualAt
    /\ f = "render" => s \in RenderSteps
    /\ f \in {"visual", "render"} /\ s \in AfterPaths \cup {"concat"} => d.clips = [p \in Pages |-> Clips(d, p)]
    /\ s \in Early => d.video.slides = <<>>
    /\ f = "visual" /\ s = "publish" => r.timeline = [p \in Pages |-> Timeline(d, p)]

TakesSlides ==
    \A j \in Jobs :
        /\ build[j].took \in Seq(Elements(build[j].took))
        /\ pc[j] = "slide" => build[j].left \in Seq(Pages)
        /\ pc[j] \in {"collect", "slide"} => concat \in Jobs

(* Slides of a job are made after it has set its paths, from what it has   *)
(* made by then, whoever makes them.                                       *)
SlidesDrawn ==
    \A j \in Jobs :
        /\ pc[j] \in Early => concat # j /\ \A i \in Jobs : NoneOf(build[i].took, j)
        /\ pc[j] \in AfterPaths => /\ DrawnFrom(disk[j].video.slides, j, disk[j])
                                   /\ \A i \in Jobs : DrawnFrom(build[i].took, j, disk[j])

DrawnInv ==
    /\ Domains /\ DOMAIN build = Jobs
    /\ \A j \in Jobs : {"ids", "left", "took", "out"} = DOMAIN build[j]
    /\ \A j \in Jobs : Traced(flow[j], pc[j], disk[j], result[j])
    /\ TakesSlides /\ SlidesDrawn

(* What clips, slides and the timeline are made of.                        *)
LEMMA SameClips ==
    ASSUME NEW d, NEW e, e.maps = d.maps, e.lp = d.lp
    PROVE  \A p : Clips(e, p) = Clips(d, p)
<1>1. \A p, item : Shown(e, p, item) = Shown(d, p, item)
  BY DEF Shown
<1>2. \A p : AnimatedClips(e, p) = AnimatedClips(d, p)
  BY <1>1 DEF AnimatedClips
<1> QED BY <1>2 DEF Clips

LEMMA SameDraws ==
    ASSUME NEW d, NEW e, e.maps = d.maps, e.lp = d.lp, e.parts = d.parts, e.clips = d.clips
    PROVE  /\ \A p : Clips(e, p) = Clips(d, p) /\ Timeline(e, p) = Timeline(d, p)
           /\ \A slides, j : DrawnFrom(slides, j, d) => DrawnFrom(slides, j, e)
<1>1. \A p, item : Shown(e, p, item) = Shown(d, p, item)
  BY DEF Shown
<1>2. \A p : Clips(e, p) = Clips(d, p)
  BY SameClips
<1>3. \A p, n : Part(e, p, n) = Part(d, p, n) /\ SentenceClip(e, p, n) = SentenceClip(d, p, n)
  BY DEF Part, SentenceClip
<1>4. \A p : Sentences(e, p) = Sentences(d, p)
  BY DEF Sentences
<1>5. \A p : Clips(e, p) = Clips(d, p) /\ Timeline(e, p) = Timeline(d, p)
  <2> TAKE p
  <2>1. \A i : Shown(e, p, d.maps[p][i]) = Shown(d, p, d.maps[p][i]) /\ Part(e, p, i) = Part(d, p, i)
    BY <1>1, <1>3
  <2>2. Timeline(e, p) = Timeline(d, p)
    BY <2>1 DEF Timeline
  <2> QED BY <1>2, <2>2
<1>6. \A slides, j : DrawnFrom(slides, j, d) => DrawnFrom(slides, j, e)
  BY <1>3, <1>4 DEF DrawnFrom, Drawn
<1> QED BY <1>5, <1>6

LEMMA AnswersAreItems ==
    ASSUME NEW n \in Nat
    PROVE  Answers(n) \cup {NoMap} \subseteq Seq(Item)
<1>1. NoMap \in Seq(Item)
  BY DEF NoMap, Item
<1>2. <<[sent |-> n, region |-> 2], [sent |-> n, region |-> 1]>> \in Seq(Item)
  BY DEF Item
<1>3. <<[sent |-> n + 1, region |-> 3]>> \in Seq(Item)
  BY DEF Item
<1>4. ASSUME NEW r \in [1..n -> {None, 1}] PROVE [i \in 1..n |-> [sent |-> i, region |-> r[i]]] \in Seq(Item)
  <2>1. [i \in 1..n |-> [sent |-> i, region |-> r[i]]] \in [1..n -> Item]
    BY DEF Item, None
  <2> QED BY <2>1, SeqDef
<1> QED BY <1>1, <1>2, <1>3, <1>4 DEF Answers

LEMMA CustomMapIsItems ==
    ASSUME NEW mark, NEW n \in Nat
    PROVE  CustomMap(mark, n) \in Seq(Item)
<1>1. ASSUME NEW i \in 1..n PROVE Cardinality({k \in 1..i : Lit(mark, k)}) \in Nat
  <2>1. IsFiniteSet(1..i)
    BY FS_Interval
  <2> QED BY <2>1, FS_Subset, FS_CardinalityType
<1>2. CustomMap(mark, n) \in [1..n -> Item]
  BY <1>1 DEF CustomMap, Item, None
<1> QED BY <1>2, SeqDef

LEMMA BlankDrawn ==
    /\ EmptyDisk.video.slides = <<>> /\ NoVideo.slides = <<>>
    /\ {"texts", "maps", "lp", "parts", "clips", "video"} \subseteq DOMAIN EmptyDisk
    /\ \A p \in Pages : /\ EmptyDisk.texts[p] \in Seq({"full", "ask"})
                        /\ EmptyDisk.maps[p] \in Seq(Item)
    /\ "timeline" \in DOMAIN NoResult
    /\ {"ids", "left", "took", "out"} = DOMAIN NoBuild
    /\ NoBuild.took \in Seq(Elements(NoBuild.took))
    /\ \A j, d : NoneOf(NoBuild.took, j) /\ DrawnFrom(NoBuild.took, j, d)
    /\ \A j, d : NoneOf(<<>>, j) /\ DrawnFrom(<<>>, j, d)
<1>1. NoBuild.took = <<>> /\ {"ids", "left", "took", "out"} = DOMAIN NoBuild
  BY DEF NoBuild
<1>2. DOMAIN <<>> = {} /\ <<>> \in Seq(Elements(<<>>)) /\ <<>> \in Seq({"full", "ask"})
  BY EmptySeq
<1>3. NoMap \in Seq(Item)
  BY DEF NoMap, Item
<1>4. /\ EmptyDisk.video.slides = <<>> /\ NoVideo.slides = <<>>
      /\ {"texts", "maps", "lp", "parts", "clips", "video"} \subseteq DOMAIN EmptyDisk
      /\ \A p \in Pages : EmptyDisk.texts[p] = <<>> /\ EmptyDisk.maps[p] = NoMap
      /\ "timeline" \in DOMAIN NoResult
  BY DEF EmptyDisk, NoVideo, NoResult
<1>5. \A j, d : NoneOf(<<>>, j) /\ DrawnFrom(<<>>, j, d)
  BY <1>2 DEF NoneOf, DrawnFrom
<1> QED BY <1>1, <1>2, <1>3, <1>4, <1>5

LEMMA InitDrawn == Init => DrawnInv
<1> SUFFICES ASSUME Init PROVE DrawnInv
  OBVIOUS
<1>1. Domains /\ DOMAIN build = Jobs /\ concat = NoJob
      /\ \A j \in Jobs : /\ flow[j] = "none" /\ pc[j] = "none" /\ disk[j] = EmptyDisk
                         /\ result[j] = NoResult /\ build[j] = NoBuild
  BY DEF Init, Domains
<1>2. \A j \in Jobs : Traced(flow[j], pc[j], disk[j], result[j])
  BY <1>1, BlankDrawn DEF Traced, Early
<1>3. TakesSlides
  BY <1>1, BlankDrawn DEF TakesSlides
<1>4. SlidesDrawn
  BY <1>1, BlankDrawn, PipelineAssumption DEF SlidesDrawn, AfterPaths
<1> QED BY <1>1, <1>2, <1>3, <1>4, BlankDrawn DEF DrawnInv

(* A step that is not in run_concat: a job that has no slides yet gets     *)
(* none, one that has them keeps what they are drawn from, or it is over.  *)
Calm(j) ==
    /\ Domains' /\ DOMAIN build' = Jobs /\ concat' = concat
    /\ \A i \in Jobs \ {j} :
         /\ flow'[i] = flow[i] /\ pc'[i] = pc[i] /\ disk'[i] = disk[i]
         /\ result'[i] = result[i] /\ build'[i] = build[i]
    /\ {"ids", "left", "took", "out"} = DOMAIN build'[j]
    /\ build'[j].took \in {build[j].took, NoBuild.took}
    /\ pc'[j] \in {"collect", "slide"} => pc'[j] = pc[j] /\ build'[j].left = build[j].left
    /\ Traced(flow'[j], pc'[j], disk'[j], result'[j])
    /\ \/ pc[j] \in Early /\ disk'[j].video.slides = <<>>
       \/ pc[j] \in AfterPaths /\ pc'[j] \in AfterPaths /\ disk'[j] = disk[j]
       \/ pc'[j] \in Finished

LEMMA CalmDrawn ==
    ASSUME DrawnInv, NEW j \in Jobs, Calm(j)
    PROVE  DrawnInv'
<1>1. /\ \A i \in Jobs : {"ids", "left", "took", "out"} = DOMAIN build[i]
      /\ \A i \in Jobs : Traced(flow[i], pc[i], disk[i], result[i])
      /\ TakesSlides /\ SlidesDrawn
  BY DEF DrawnInv
<1>2. \A i \in Jobs : {"ids", "left", "took", "out"} = DOMAIN build'[i]
  BY <1>1 DEF Calm
<1>3. \A i \in Jobs : Traced(flow'[i], pc'[i], disk'[i], result'[i])
  <2> TAKE i \in Jobs
  <2>1. CASE i = j
    BY <2>1 DEF Calm
  <2>2. CASE i # j
    <3>1. flow'[i] = flow[i] /\ pc'[i] = pc[i] /\ disk'[i] = disk[i] /\ result'[i] = result[i]
      BY <2>2 DEF Calm
    <3> QED BY <1>1, <3>1, Zenon
  <2> QED BY <2>1, <2>2
<1>4. TakesSlides'
  BY <1>1, BlankDrawn DEF TakesSlides, Calm
<1>5. ASSUME NEW i \in Jobs, pc'[i] \in Early
      PROVE  concat' # i /\ \A k \in Jobs : NoneOf(build'[k].took, i)
  <2>1. pc[i] \in Early
    BY <1>5 DEF Calm, Early, AfterPaths, Finished, BeforeImages, VisualSteps, AudioSteps
  <2>2. concat # i /\ \A k \in Jobs : NoneOf(build[k].took, i)
    BY <1>1, <2>1 DEF SlidesDrawn
  <2> QED BY <2>2, BlankDrawn DEF Calm
<1>6. ASSUME NEW i \in Jobs, pc'[i] \in AfterPaths
      PROVE  /\ DrawnFrom(disk'[i].video.slides, i, disk'[i])
             /\ \A k \in Jobs : DrawnFrom(build'[k].took, i, disk'[i])
  <2>1. \/ pc[i] \in AfterPaths /\ disk'[i] = disk[i]
        \/ pc[i] \in Early /\ disk'[i].video.slides = <<>>
    BY <1>6 DEF Calm, Early, AfterPaths, Finished, BeforeImages, VisualSteps, AudioSteps
  <2>2. CASE pc[i] \in AfterPaths /\ disk'[i] = disk[i]
    <3>1. /\ DrawnFrom(disk[i].video.slides, i, disk[i])
          /\ \A k \in Jobs : DrawnFrom(build[k].took, i, disk[i])
      BY <1>1, <2>2 DEF SlidesDrawn
    <3> QED BY <2>2, <3>1, BlankDrawn DEF Calm
  <2>3. CASE pc[i] \in Early /\ disk'[i].video.slides = <<>>
    <3>1. \A k \in Jobs : NoneOf(build[k].took, i)
      BY <1>1, <2>3 DEF SlidesDrawn
    <3>2. \A k \in Jobs : NoneOf(build'[k].took, i)
      BY <3>1, BlankDrawn DEF Calm
    <3>3. \A k \in Jobs : DrawnFrom(build'[k].took, i, disk'[i])
      BY <3>2 DEF NoneOf, DrawnFrom
    <3> QED BY <2>3, <3>3, BlankDrawn
  <2> QED BY <2>1, <2>2, <2>3
<1>7. SlidesDrawn'
  BY <1>5, <1>6 DEF SlidesDrawn
<1> QED BY <1>2, <1>3, <1>4, <1>7 DEF DrawnInv, Calm

(* The queue, the images and the layout results.                          *)
LEMMA QueueCalm ==
    ASSUME DrawnInv, NEW j \in Jobs,
           \/ RequestCancel(j) \/ Start(j) \/ EnsurePdf(j) \/ EnsureImages(j) \/ SavePage(j) \/ EnsureLpOutputs(j) \/ OpenResult(j) \/ DumpResult(j) \/ SnapshotAndScan(j) \/ SpeakScript(j)
    PROVE  Calm(j)
<1>1. Domains /\ DOMAIN build = Jobs /\ {"ids", "left", "took", "out"} = DOMAIN build[j]
      /\ Traced(flow[j], pc[j], disk[j], result[j])
  BY DEF DrawnInv
<1>2. CASE RequestCancel(j)
  BY <1>1, <1>2 DEF RequestCancel, Calm, Traced, Domains, At, Goto, NoBuild, Early, AfterPaths, Finished, VisualAt, RenderSteps, BeforeImages, VisualSteps, AudioSteps
<1>3. CASE Start(j)
  BY <1>1, <1>3 DEF Start, Calm, Traced, Domains, At, Goto, FirstStep, NoBuild, Early, AfterPaths, Finished, VisualAt, RenderSteps, BeforeImages, VisualSteps, AudioSteps
<1>4. CASE EnsurePdf(j)
  BY <1>1, <1>4 DEF EnsurePdf, Calm, Traced, Domains, At, Goto, NoBuild, Early, AfterPaths, Finished, VisualAt, RenderSteps, BeforeImages, VisualSteps, AudioSteps
<1>5. CASE EnsureImages(j)
  BY <1>1, <1>5 DEF EnsureImages, Calm, Traced, Domains, At, Goto, NoBuild, Early, AfterPaths, Finished, VisualAt, RenderSteps, BeforeImages, VisualSteps, AudioSteps
<1>6. CASE SavePage(j)
  BY <1>1, <1>6 DEF SavePage, Calm, Traced, Domains, At, Goto, NoBuild, Early, AfterPaths, Finished, VisualAt, RenderSteps, BeforeImages, VisualSteps, AudioSteps
<1>7. CASE EnsureLpOutputs(j)
  BY <1>1, <1>7 DEF EnsureLpOutputs, Calm, Traced, Domains, At, Goto, NoBuild, Early, AfterPaths, Finished, VisualAt, RenderSteps, BeforeImages, VisualSteps, AudioSteps
<1>8. CASE OpenResult(j)
  BY <1>1, <1>8 DEF OpenResult, Calm, Traced, Domains, At, Goto, NoBuild, Early, AfterPaths, Finished, VisualAt, RenderSteps, BeforeImages, VisualSteps, AudioSteps
<1>9. CASE DumpResult(j)
  BY <1>1, <1>9 DEF DumpResult, Calm, Traced, Domains, At, Goto, NoBuild, Early, AfterPaths, Finished, VisualAt, RenderSteps, BeforeImages, VisualSteps, AudioSteps
<1>10. CASE SnapshotAndScan(j)
  BY <1>1, <1>10 DEF SnapshotAndScan, Calm, Traced, Domains, At, Goto, NoBuild, Early, AfterPaths, Finished, VisualAt, RenderSteps, BeforeImages, VisualSteps, AudioSteps
<1>11. CASE SpeakScript(j)
  BY <1>1, <1>11 DEF SpeakScript, Calm, Traced, Domains, At, Goto, NoBuild, Early, AfterPaths, Finished, VisualAt, RenderSteps, BeforeImages, VisualSteps, AudioSteps
<1> QED BY <1>2, <1>3, <1>4, <1>5, <1>6, <1>7, <1>8, <1>9, <1>10, <1>11

(* An audio lecture.                                                      *)
LEMMA AudioCalm ==
    ASSUME DrawnInv, NEW j \in Jobs,
           \/ StartMaterials(j) \/ WriteOutline(j) \/ Narrate(j) \/ Stitch(j)
    PROVE  Calm(j)
<1>1. Domains /\ DOMAIN build = Jobs /\ {"ids", "left", "took", "out"} = DOMAIN build[j]
      /\ Traced(flow[j], pc[j], disk[j], result[j])
  BY DEF DrawnInv
<1>2. CASE StartMaterials(j)
  BY <1>1, <1>2 DEF StartMaterials, Calm, Traced, Domains, At, Goto, NoBuild, Early, AfterPaths, Finished, VisualAt, RenderSteps, BeforeImages, VisualSteps, AudioSteps
<1>3. CASE WriteOutline(j)
  BY <1>1, <1>3 DEF WriteOutline, Calm, Traced, Domains, At, Goto, NoBuild, Early, AfterPaths, Finished, VisualAt, RenderSteps, BeforeImages, VisualSteps, AudioSteps
<1>4. CASE Narrate(j)
  BY <1>1, <1>4 DEF Narrate, Calm, Traced, Domains, At, Goto, NoBuild, Early, AfterPaths, Finished, VisualAt, RenderSteps, BeforeImages, VisualSteps, AudioSteps
<1>5. CASE Stitch(j)
  BY <1>1, <1>5 DEF Stitch, Calm, Traced, Domains, At, Goto, NoBuild, Early, AfterPaths, Finished, VisualAt, RenderSteps, BeforeImages, VisualSteps, AudioSteps
<1> QED BY <1>2, <1>3, <1>4, <1>5

(* A job that is over without a response.                                  *)
LEMMA StoppedCalm ==
    ASSUME DrawnInv, NEW j \in Jobs, NEW end \in {"failed", "cancelled"}, Stopped(j, end), pc[j] # "none"
    PROVE  Calm(j)
<1>1. Domains /\ DOMAIN build = Jobs /\ Traced(flow[j], pc[j], disk[j], result[j])
  BY DEF DrawnInv
<1>2. /\ Domains' /\ DOMAIN build' = Jobs /\ concat' = concat
      /\ \A i \in Jobs \ {j} :
           /\ flow'[i] = flow[i] /\ pc'[i] = pc[i] /\ disk'[i] = disk[i]
           /\ result'[i] = result[i] /\ build'[i] = build[i]
      /\ flow'[j] = flow[j] /\ pc'[j] = end /\ disk'[j] = EmptyDisk
      /\ result'[j] = NoResult /\ build'[j] = NoBuild
  BY <1>1 DEF Stopped, Over, Goto, Lose, Domains
<1>3. Traced(flow[j], end, EmptyDisk, NoResult)
  BY <1>1, BlankDrawn DEF Traced, Early, AfterPaths, Finished, VisualAt, RenderSteps, BeforeImages,
                    VisualSteps, AudioSteps
<1> QED BY <1>2, <1>3, BlankDrawn DEF Calm, Finished

LEMMA EndCalm ==
    ASSUME DrawnInv, NEW j \in Jobs, Cancelled(j) \/ Fail(j)
    PROVE  Calm(j)
<1>1. pc[j] # "none" /\ \E end \in {"failed", "cancelled"} : Stopped(j, end)
  BY DEF Cancelled, Checks, Checked, Fail, At
<1> QED BY <1>1, StoppedCalm

(* A new job, and a worker's steps that change what slides are made of.    *)
LEMMA SubmitCalm ==
    ASSUME DrawnInv, NEW j \in Jobs, Submit(j)
    PROVE  Calm(j)
<1>1. Domains /\ DOMAIN build = Jobs /\ {"ids", "left", "took", "out"} = DOMAIN build[j]
      /\ Traced(flow[j], pc[j], disk[j], result[j])
  BY DEF DrawnInv
<1>2. pc[j] = "none" /\ \E f \in Flows : flow' = [flow EXCEPT ![j] = f]
  BY <1>1 DEF Submit, Flows, Traced
<1>3. PICK f \in Flows : flow' = [flow EXCEPT ![j] = f]
  BY <1>2
<1>4. pc' = [pc EXCEPT ![j] = "queued"] /\ UNCHANGED <<disk, result, build, concat>>
  BY DEF Submit, Goto
<1>5. Traced(f, "queued", disk[j], result[j])
  BY <1>1, <1>2 DEF Flows, Traced, Early, AfterPaths, Finished, VisualAt, RenderSteps, BeforeImages,
              VisualSteps, AudioSteps
<1>6. disk[j].video.slides = <<>>
  BY <1>1, <1>2 DEF Traced, Early
<1> QED BY <1>1, <1>2, <1>3, <1>4, <1>5, <1>6 DEF Calm, Domains, Early

LEMMA WriteScriptCalm ==
    ASSUME DrawnInv, NEW j \in Jobs, WriteScript(j)
    PROVE  Calm(j)
<1>1. Domains /\ DOMAIN build = Jobs /\ {"ids", "left", "took", "out"} = DOMAIN build[j]
      /\ Traced(flow[j], pc[j], disk[j], result[j])
  BY DEF DrawnInv
<1>2. PICK t \in [Images(j) -> Narrations] :
        disk' = [disk EXCEPT ![j].texts = [p \in Pages |-> IF p \in Images(j) THEN t[p] ELSE @[p]]]
  BY DEF WriteScript
<1>3. /\ pc[j] = "script" /\ UNCHANGED <<flow, result, concat, build>>
      /\ \E s \in {"respond", "assign"} : pc' = [pc EXCEPT ![j] = s] /\ (s = "respond" => flow[j] = "reviewed")
  BY DEF WriteScript, At, Goto
<1>4. \A p \in Pages : disk'[j].texts[p] \in Seq({"full", "ask"})
  <2>1. Narrations \subseteq Seq({"full", "ask"})
    BY PipelineAssumption
  <2> QED BY <1>1, <1>2, <2>1 DEF Domains, Traced
<1>5. /\ DOMAIN disk' = Jobs /\ \A i \in Jobs \ {j} : disk'[i] = disk[i]
      /\ DOMAIN disk'[j] = DOMAIN disk[j] /\ disk'[j].maps = disk[j].maps /\ disk'[j].lp = disk[j].lp
      /\ disk'[j].clips = disk[j].clips /\ disk'[j].video = disk[j].video
  BY <1>1, <1>2 DEF Domains, Traced
<1> QED
  BY <1>1, <1>3, <1>4, <1>5 DEF Calm, Traced, Domains, Early, AfterPaths, Finished, VisualAt,
     RenderSteps, BeforeImages, VisualSteps, AudioSteps

LEMMA AssignCalm ==
    ASSUME DrawnInv, NEW j \in Jobs, AssignRegions(j)
    PROVE  Calm(j)
<1>1. Domains /\ DOMAIN build = Jobs /\ {"ids", "left", "took", "out"} = DOMAIN build[j]
      /\ Traced(flow[j], pc[j], disk[j], result[j])
  BY DEF DrawnInv
<1>2. CASE Stopped(j, "failed")
  BY <1>2, StoppedCalm DEF AssignRegions, At
<1>3. CASE ~Stopped(j, "failed")
  <2> DEFINE As == UNION {Answers(Len(disk[j].texts[p])) : p \in Images(j)} \cup {NoMap}
  <2>1. PICK m \in [Images(j) -> As] :
            /\ \A p \in Images(j) : m[p] \in Answers(Len(disk[j].texts[p])) \cup {NoMap}
            /\ disk' = [disk EXCEPT ![j].maps = [p \in Pages |-> IF p \in Images(j) THEN m[p] ELSE @[p]]]
    BY <1>3 DEF AssignRegions
  <2>2. /\ pc[j] = "assign" /\ UNCHANGED <<flow, result, concat, build>>
        /\ pc' = [pc EXCEPT ![j] = "tts"]
    BY <1>3 DEF AssignRegions, At, Goto
  <2>3. \A p \in Pages \cap Images(j) : m[p] \in Seq(Item)
    <3> TAKE p \in Pages \cap Images(j)
    <3>1. Len(disk[j].texts[p]) \in Nat
      <4>1. disk[j].texts[p] \in Seq({"full", "ask"})
        BY <1>1 DEF Traced
      <4> QED BY <4>1, LenProperties
    <3> QED BY <2>1, <3>1, AnswersAreItems
  <2>4. \A p \in Pages : disk'[j].maps[p] \in Seq(Item)
    BY <1>1, <2>1, <2>3 DEF Domains, Traced
  <2>5. /\ DOMAIN disk' = Jobs /\ \A i \in Jobs \ {j} : disk'[i] = disk[i]
        /\ DOMAIN disk'[j] = DOMAIN disk[j] /\ disk'[j].texts = disk[j].texts
        /\ disk'[j].video = disk[j].video
    BY <1>1, <2>1 DEF Domains, Traced
  <2> QED
    BY <1>1, <2>2, <2>4, <2>5 DEF Calm, Traced, Domains, Early, AfterPaths, Finished, VisualAt,
       RenderSteps, BeforeImages, VisualSteps, AudioSteps
<1> QED BY <1>2, <1>3

LEMMA AnimateCalm ==
    ASSUME DrawnInv, NEW j \in Jobs, Animate(j)
    PROVE  Calm(j)
<1>1. Domains /\ DOMAIN build = Jobs /\ {"ids", "left", "took", "out"} = DOMAIN build[j]
      /\ Traced(flow[j], pc[j], disk[j], result[j])
  BY DEF DrawnInv
<1>2. CASE Stopped(j, "failed")
  BY <1>2, StoppedCalm DEF Animate, At
<1>3. CASE ~Stopped(j, "failed")
  <2> DEFINE e == disk'[j]
  <2>1. /\ pc[j] = "animate" /\ UNCHANGED <<flow, result, concat, build>>
        /\ pc' = [pc EXCEPT ![j] = "concat"]
        /\ disk' = [disk EXCEPT ![j].clips = [p \in Pages |-> Clips(disk[j], p)]]
    BY <1>3 DEF Animate, At, Goto
  <2>2. /\ DOMAIN disk' = Jobs /\ \A i \in Jobs \ {j} : disk'[i] = disk[i]
        /\ DOMAIN e = DOMAIN disk[j] /\ e.texts = disk[j].texts /\ e.maps = disk[j].maps
        /\ e.lp = disk[j].lp /\ e.video = disk[j].video
        /\ e.clips = [p \in Pages |-> Clips(disk[j], p)]
    BY <1>1, <2>1 DEF Domains, Traced
  <2> HIDE DEF e
  <2>3. \A p \in Pages : Clips(e, p) = Clips(disk[j], p)
    BY <2>2, SameClips
  <2>4. e.clips = [p \in Pages |-> Clips(e, p)]
    BY <2>2, <2>3
  <2> QED
    BY <1>1, <2>1, <2>2, <2>4 DEF e, Calm, Traced, Domains, Early, AfterPaths, Finished, VisualAt,
       RenderSteps, BeforeImages, VisualSteps, AudioSteps
<1> QED BY <1>2, <1>3

LEMMA NoLectureCalm ==
    ASSUME DrawnInv, NEW j \in Jobs, NoLecture(j)
    PROVE  Calm(j)
<1>1. Domains /\ DOMAIN build = Jobs /\ Traced(flow[j], pc[j], disk[j], result[j])
  BY DEF DrawnInv
<1>2. CASE Stopped(j, "failed")
  BY <1>2, StoppedCalm DEF NoLecture, At
<1>3. CASE ~Stopped(j, "failed")
  <2>1. /\ pc[j] = "slide" /\ pc' = [pc EXCEPT ![j] = "respond"] /\ flow[j] # "render"
        /\ build' = [build EXCEPT ![j] = NoBuild] /\ UNCHANGED <<flow, disk, result, concat>>
    BY <1>3 DEF NoLecture, At, Goto
  <2> QED
    BY <1>1, <2>1, BlankDrawn DEF Calm, Traced, Domains, Early, AfterPaths, Finished, VisualAt,
       RenderSteps, BeforeImages, VisualSteps, AudioSteps
<1> QED BY <1>2, <1>3

(* Materials are no part of a video.                                       *)
LEMMA MaterialCalm ==
    ASSUME DrawnInv, NEW j \in Jobs, (\E p \in Pages : ExtractMaterial(j, p)) \/ WriteMaterials(j)
    PROVE  Calm(j)
<1>1. Domains /\ DOMAIN build = Jobs /\ {"ids", "left", "took", "out"} = DOMAIN build[j]
      /\ Traced(flow[j], pc[j], disk[j], result[j])
  BY DEF DrawnInv
<1>2. pc[j] = "extract" /\ UNCHANGED <<flow, result, concat, build>>
      /\ (pc' = pc \/ pc' = [pc EXCEPT ![j] = "outline"])
  BY DEF ExtractMaterial, WriteMaterials, At, Goto
<1>3. \E x : \/ disk' = [disk EXCEPT ![j].arrived = x]
             \/ disk' = [disk EXCEPT ![j].materials = x]
  <2>1. CASE \E p \in Pages : ExtractMaterial(j, p)
    BY <2>1 DEF ExtractMaterial
  <2>2. CASE WriteMaterials(j)
    BY <2>2 DEF WriteMaterials
  <2> QED BY <2>1, <2>2
<1>4. /\ DOMAIN disk' = Jobs /\ \A i \in Jobs \ {j} : disk'[i] = disk[i]
      /\ DOMAIN disk'[j] = DOMAIN disk[j] /\ disk'[j].texts = disk[j].texts
      /\ disk'[j].maps = disk[j].maps /\ disk'[j].video = disk[j].video
  BY <1>1, <1>3 DEF Domains, Traced
<1> QED
  BY <1>1, <1>2, <1>4 DEF Calm, Traced, Domains, Early, AfterPaths, Finished, VisualAt,
     RenderSteps, BeforeImages, VisualSteps, AudioSteps

(* A reviewed lecture: what a render prepares has the numbers of its       *)
(* sentences.                                                              *)
LEMMA MatchCalm ==
    ASSUME DrawnInv, NEW j \in Jobs, Match(j)
    PROVE  Calm(j)
<1>1. Domains /\ DOMAIN build = Jobs /\ {"ids", "left", "took", "out"} = DOMAIN build[j]
      /\ Traced(flow[j], pc[j], disk[j], result[j])
  BY DEF DrawnInv
<1>2. /\ pc[j] = "match" /\ pc' = [pc EXCEPT ![j] = "publish"]
      /\ UNCHANGED <<flow, disk, result, concat, build>>
  BY DEF Match, At, Goto
<1> QED
  BY <1>1, <1>2 DEF Calm, Traced, Domains, Early, AfterPaths, Finished, VisualAt,
     RenderSteps, BeforeImages, VisualSteps, AudioSteps

LEMMA PrepareCalm ==
    ASSUME DrawnInv, NEW j \in Jobs, Prepare(j)
    PROVE  Calm(j)
<1>1. Domains /\ DOMAIN build = Jobs /\ {"ids", "left", "took", "out"} = DOMAIN build[j]
      /\ Traced(flow[j], pc[j], disk[j], result[j])
  BY DEF DrawnInv
<1>2. /\ pc[j] = "prepare" /\ pc' = [pc EXCEPT ![j] = "animate"]
      /\ UNCHANGED <<flow, result, concat, build>>
  BY DEF Prepare, At, Goto
<1>3. /\ DOMAIN disk' = Jobs /\ \A i \in Jobs \ {j} : disk'[i] = disk[i]
      /\ {"texts", "maps", "lp", "parts", "clips", "video"} \subseteq DOMAIN disk'[j]
      /\ disk'[j].texts = EmptyDisk.texts /\ disk'[j].video = EmptyDisk.video
      /\ \A p \in Pages : disk'[j].maps[p] = CustomMap(marks[j][p], Draft[p])
  BY <1>1 DEF Prepare, Domains, EmptyDisk
<1>4. \A p \in Pages : disk'[j].maps[p] \in Seq(Item)
  BY <1>3, CustomMapIsItems, PipelineAssumption
<1> QED
  BY <1>1, <1>2, <1>3, <1>4, BlankDrawn DEF Calm, Traced, Domains, Early, AfterPaths, Finished,
     VisualAt, RenderSteps, BeforeImages, VisualSteps, AudioSteps

(* The response.                                                           *)
LEMMA RespondCalm ==
    ASSUME DrawnInv, NEW j \in Jobs, Respond(j)
    PROVE  Calm(j)
<1>1. Domains /\ DOMAIN build = Jobs /\ {"ids", "left", "took", "out"} = DOMAIN build[j]
      /\ Traced(flow[j], pc[j], disk[j], result[j])
  BY DEF DrawnInv
<1>2. /\ pc[j] = "respond" /\ pc' = [pc EXCEPT ![j] = "publish"]
      /\ UNCHANGED <<flow, disk, concat, build>>
  BY DEF Respond, At, Goto
<1>3. /\ DOMAIN result' = Jobs /\ \A i \in Jobs \ {j} : result'[i] = result[i]
      /\ DOMAIN result'[j] = DOMAIN result[j]
      /\ flow[j] = "visual" => result'[j].timeline = [p \in Pages |-> Timeline(disk[j], p)]
  BY <1>1 DEF Respond, Domains, Traced
<1> QED
  BY <1>1, <1>2, <1>3 DEF Calm, Traced, Domains, Early, AfterPaths, Finished, VisualAt,
     RenderSteps, BeforeImages, VisualSteps, AudioSteps

LEMMA PublishCalm ==
    ASSUME DrawnInv, NEW j \in Jobs, Publish(j)
    PROVE  Calm(j)
<1>1. Domains /\ DOMAIN build = Jobs /\ {"ids", "left", "took", "out"} = DOMAIN build[j]
      /\ Traced(flow[j], pc[j], disk[j], result[j])
  BY DEF DrawnInv
<1>2. /\ pc[j] = "publish" /\ pc' = [pc EXCEPT ![j] = "done"] /\ UNCHANGED <<flow, concat>>
      /\ disk' = [disk EXCEPT ![j] = EmptyDisk] /\ build' = [build EXCEPT ![j] = NoBuild]
  BY DEF Publish, Over, At, Goto
<1>3. /\ DOMAIN result' = Jobs /\ \A i \in Jobs \ {j} : result'[i] = result[i]
      /\ DOMAIN result'[j] = DOMAIN NoResult
  BY <1>1 DEF Publish, Domains
<1>4. Traced(flow[j], "done", EmptyDisk, result'[j])
  BY <1>1, <1>2, <1>3, BlankDrawn DEF Traced, Early, AfterPaths, Finished, VisualAt, RenderSteps,
     BeforeImages, VisualSteps, AudioSteps
<1> QED BY <1>1, <1>2, <1>3, <1>4, BlankDrawn DEF Calm, Domains, Finished

(* run_concat: the directories, the slides with a mapping, a slide, and    *)
(* the video, for the job whose directories they are.                      *)
LEMMA SetPathsDrawn ==
    ASSUME DrawnInv, NEW j \in Jobs, SetPaths(j)
    PROVE  DrawnInv'
<1>1. /\ Domains /\ DOMAIN build = Jobs
      /\ \A i \in Jobs : {"ids", "left", "took", "out"} = DOMAIN build[i]
      /\ \A i \in Jobs : Traced(flow[i], pc[i], disk[i], result[i])
      /\ TakesSlides /\ SlidesDrawn
  BY DEF DrawnInv
<1>2. /\ pc[j] = "concat" /\ pc' = [pc EXCEPT ![j] = "collect"] /\ concat' = j
      /\ UNCHANGED <<flow, disk, result, build>>
  BY DEF SetPaths, PathsOf, At, Goto
<1>3. Traced(flow[j], "collect", disk[j], result[j])
  BY <1>1, <1>2 DEF Traced, Early, AfterPaths, Finished, VisualAt, RenderSteps, BeforeImages,
     VisualSteps, AudioSteps
<1>4. \A i \in Jobs : Traced(flow'[i], pc'[i], disk'[i], result'[i])
  BY <1>1, <1>2, <1>3 DEF Domains
<1>5. TakesSlides'
  BY <1>1, <1>2 DEF TakesSlides, Domains
<1>6. disk[j].video.slides = <<>> /\ \A i \in Jobs : NoneOf(build[i].took, j)
  BY <1>1, <1>2 DEF Traced, SlidesDrawn, Early, VisualSteps
<1>7. /\ DrawnFrom(disk[j].video.slides, j, disk[j])
      /\ \A i \in Jobs : DrawnFrom(build[i].took, j, disk[j])
  BY <1>6, BlankDrawn DEF NoneOf, DrawnFrom
<1>8. SlidesDrawn'
  BY <1>1, <1>2, <1>7 DEF SlidesDrawn, Domains, Early, BeforeImages, VisualSteps, AudioSteps
<1> QED BY <1>1, <1>2, <1>4, <1>5, <1>8 DEF DrawnInv, Domains

LEMMA CollectDrawn ==
    ASSUME DrawnInv, NEW j \in Jobs, Collect(j)
    PROVE  DrawnInv'
<1>1. /\ Domains /\ DOMAIN build = Jobs
      /\ \A i \in Jobs : {"ids", "left", "took", "out"} = DOMAIN build[i]
      /\ \A i \in Jobs : Traced(flow[i], pc[i], disk[i], result[i])
      /\ TakesSlides /\ SlidesDrawn
  BY DEF DrawnInv
<1> DEFINE ids == InTurn(Mapped(disk[concat]))
<1>2. ids \in Seq(Pages)
  <2> DEFINE S == Mapped(disk[concat])
  <2>1. S \in SUBSET (1..LastPage) /\ LastPage \in Nat /\ S \subseteq Pages
    BY PipelineAssumption DEF Mapped, Pages
  <2> HIDE DEF S
  <2>2. InTurn(S) \in [1..Cardinality(S) -> S] /\ Cardinality(S) \in Nat
    BY <2>1, InTurnRises, RankRises
  <2>3. InTurn(S) \in Seq(S)
    BY <2>2, SeqDef
  <2>4. InTurn(S) \in Seq(Pages)
    BY <2>1, <2>3, SeqMonotonic
  <2> QED BY <2>4 DEF S
<1>3. /\ pc[j] = "collect" /\ pc' = [pc EXCEPT ![j] = "slide"]
      /\ build' = [build EXCEPT ![j] = [NoBuild EXCEPT !.ids = ids, !.left = ids]]
      /\ UNCHANGED <<flow, disk, result, concat>>
  BY DEF Collect, At, Goto
<1> HIDE DEF ids
<1>4. /\ DOMAIN build' = Jobs /\ \A i \in Jobs \ {j} : build'[i] = build[i]
      /\ {"ids", "left", "took", "out"} = DOMAIN build'[j]
      /\ build'[j].took = NoBuild.took /\ build'[j].left = ids
  BY <1>1, <1>3 DEF NoBuild
<1>5. Traced(flow[j], "slide", disk[j], result[j])
  BY <1>1, <1>3 DEF Traced, Early, AfterPaths, Finished, VisualAt, RenderSteps, BeforeImages,
     VisualSteps, AudioSteps
<1>6. \A i \in Jobs : Traced(flow'[i], pc'[i], disk'[i], result'[i])
  BY <1>1, <1>3, <1>5 DEF Domains
<1>7. TakesSlides'
  BY <1>1, <1>2, <1>3, <1>4, BlankDrawn DEF TakesSlides, Domains
<1>8. SlidesDrawn'
  BY <1>1, <1>3, <1>4, BlankDrawn DEF SlidesDrawn, Domains, Early, BeforeImages, VisualSteps,
     AudioSteps, AfterPaths
<1> QED BY <1>1, <1>3, <1>4, <1>6, <1>7, <1>8 DEF DrawnInv, Domains

LEMMA SlideIsDrawn ==
    ASSUME NEW j \in Jobs, NEW p \in Pages, disk[j].maps[p] \in Seq(Item), NEW keep \in Kept(disk[j], p)
    PROVE  LET slide == SlideFinal(j, p, InTurn(keep)) IN slide.owner = j /\ Drawn(slide, disk[j])
<1> DEFINE n == Len(disk[j].maps[p])
<1>1. n \in Nat /\ Sentences(disk[j], p) = 1..n
  BY LenProperties DEF Sentences
<1>2. keep \in SUBSET (1..n)
  BY <1>1 DEF Kept
<1> HIDE DEF n
<1>3. InTurn(keep) \in [1..Cardinality(keep) -> keep]
  BY <1>1, <1>2, InTurnRises
<1>4. \A k \in DOMAIN InTurn(keep) : InTurn(keep)[k] \in Sentences(disk[j], p)
  BY <1>1, <1>2, <1>3
<1> QED BY <1>4 DEF SlideFinal, Drawn

LEMMA BuildSlideDrawn ==
    ASSUME DrawnInv, NEW j \in Jobs, BuildSlide(j)
    PROVE  DrawnInv'
<1>1. /\ Domains /\ DOMAIN build = Jobs
      /\ \A i \in Jobs : {"ids", "left", "took", "out"} = DOMAIN build[i]
      /\ \A i \in Jobs : Traced(flow[i], pc[i], disk[i], result[i])
      /\ TakesSlides /\ SlidesDrawn
  BY DEF DrawnInv
<1>2. /\ pc[j] = "slide" /\ build[j].left # <<>>
      /\ UNCHANGED <<flow, pc, disk, result, concat>>
  BY DEF BuildSlide, At
<1>3. concat \in Jobs /\ build[j].left \in Seq(Pages) /\ build[j].took \in Seq(Elements(build[j].took))
  BY <1>1, <1>2 DEF TakesSlides
<1>4. Head(build[j].left) \in Pages /\ Tail(build[j].left) \in Seq(Pages)
  BY <1>2, <1>3, HeadTailProperties
<1>5. PICK slide :
        /\ slide.owner = concat /\ Drawn(slide, disk[concat])
        /\ build' = [build EXCEPT ![j].left = Tail(@), ![j].took = Append(@, slide)]
           \/ build' = [build EXCEPT ![j].left = Tail(@)]
  <2> DEFINE p == Head(build[j].left)
  <2>1. CASE \E keep \in Kept(disk[concat], p) :
               build' = [build EXCEPT ![j].left = Tail(@),
                                      ![j].took = Append(@, SlideFinal(concat, p, InTurn(keep)))]
    <3>1. disk[concat].maps[p] \in Seq(Item)
      BY <1>1, <1>3, <1>4 DEF Traced
    <3> QED BY <1>3, <1>4, <2>1, <3>1, SlideIsDrawn
  <2>2. CASE build' = [build EXCEPT ![j].left = Tail(@)]
    <3> DEFINE blank == [owner |-> concat, page |-> p, clips |-> <<>>]
    <3>1. blank.owner = concat /\ Drawn(blank, disk[concat])
      BY <1>4, EmptySeq DEF Drawn
    <3> QED BY <2>2, <3>1
  <2> QED BY <2>1, <2>2 DEF BuildSlide
<1>6. /\ DOMAIN build' = Jobs /\ \A i \in Jobs \ {j} : build'[i] = build[i]
      /\ {"ids", "left", "took", "out"} = DOMAIN build'[j]
      /\ build'[j].left = Tail(build[j].left)
      /\ build'[j].took \in {build[j].took, Append(build[j].took, slide)}
  BY <1>1, <1>5
<1> DEFINE t == build[j].took
           u == Append(t, slide)
<1>7. /\ u \in Seq(Elements(u)) /\ DOMAIN u = 1..Len(t) + 1 /\ DOMAIN t = 1..Len(t) /\ Len(t) \in Nat
      /\ u[Len(t) + 1] = slide /\ \A k \in 1..Len(t) : u[k] = t[k]
  BY <1>3, AppendElements
<1> HIDE DEF t, u
<1>8. TakesSlides'
  BY <1>1, <1>2, <1>3, <1>4, <1>6, <1>7 DEF TakesSlides, t, u
<1>9. ASSUME NEW i \in Jobs, NoneOf(t, i), concat # i PROVE NoneOf(u, i)
  BY <1>5, <1>7, <1>9 DEF NoneOf
<1>10. ASSUME NEW i \in Jobs, DrawnFrom(t, i, disk[i]) PROVE DrawnFrom(u, i, disk[i])
  BY <1>5, <1>7, <1>10 DEF DrawnFrom
<1>11. SlidesDrawn'
  <2>1. ASSUME NEW i \in Jobs, pc[i] \in Early
        PROVE  concat # i /\ \A k \in Jobs : NoneOf(build'[k].took, i)
    BY <1>1, <1>6, <1>9, <2>1 DEF SlidesDrawn, t, u
  <2>2. ASSUME NEW i \in Jobs, pc[i] \in AfterPaths
        PROVE  /\ DrawnFrom(disk[i].video.slides, i, disk[i])
               /\ \A k \in Jobs : DrawnFrom(build'[k].took, i, disk[i])
    BY <1>1, <1>6, <1>10, <2>2 DEF SlidesDrawn, t, u
  <2> QED BY <1>2, <2>1, <2>2 DEF SlidesDrawn
<1> QED BY <1>1, <1>2, <1>6, <1>8, <1>11 DEF DrawnInv, Domains

LEMMA JoinSlidesDrawn ==
    ASSUME DrawnInv, NEW j \in Jobs, JoinSlides(j)
    PROVE  DrawnInv'
<1>1. /\ Domains /\ DOMAIN build = Jobs
      /\ \A i \in Jobs : {"ids", "left", "took", "out"} = DOMAIN build[i]
      /\ \A i \in Jobs : Traced(flow[i], pc[i], disk[i], result[i])
      /\ TakesSlides /\ SlidesDrawn
  BY DEF DrawnInv
<1> DEFINE k == concat
<1>2. pc[j] = "slide" /\ pc' = [pc EXCEPT ![j] = AfterConcat(j)] /\ UNCHANGED <<flow, result, concat>>
  BY DEF JoinSlides, At, Goto
<1>3. k \in Jobs /\ pc[k] \notin Early
  BY <1>1, <1>2 DEF TakesSlides, SlidesDrawn
<1>4. AfterConcat(j) \in {"publish", "respond"}
      /\ (flow[j] = "render" => AfterConcat(j) = "publish")
      /\ (flow[j] # "render" => AfterConcat(j) = "respond")
  BY DEF AfterConcat
<1>5. /\ DOMAIN build' = Jobs /\ \A i \in Jobs \ {j} : build'[i] = build[i]
      /\ {"ids", "left", "took", "out"} = DOMAIN build'[j] /\ build'[j].took = NoBuild.took
  BY <1>1 DEF JoinSlides, NoBuild
<1>6. /\ DOMAIN disk' = Jobs /\ \A i \in Jobs \ {k} : disk'[i] = disk[i]
      /\ DOMAIN disk'[k] = DOMAIN disk[k] /\ disk'[k].texts = disk[k].texts
      /\ disk'[k].maps = disk[k].maps /\ disk'[k].lp = disk[k].lp /\ disk'[k].parts = disk[k].parts
      /\ disk'[k].clips = disk[k].clips /\ disk'[k].video.slides = build[j].took
  BY <1>1, <1>3 DEF JoinSlides, Domains, Traced
<1> HIDE DEF k
<1>7. \A i \in Jobs : Traced(flow[i], pc'[i], disk[i], result[i])
  <2>1. Traced(flow[j], AfterConcat(j), disk[j], result[j])
    BY <1>1, <1>2, <1>4 DEF Traced, Early, AfterPaths, Finished, VisualAt, RenderSteps, BeforeImages,
       VisualSteps, AudioSteps
  <2> QED BY <1>1, <1>2, <2>1 DEF Domains
<1>8. pc'[k] \notin Early
  BY <1>1, <1>2, <1>3, <1>4 DEF Domains, Early, BeforeImages, VisualSteps, AudioSteps
<1>9. /\ \A p : Clips(disk'[k], p) = Clips(disk[k], p) /\ Timeline(disk'[k], p) = Timeline(disk[k], p)
      /\ \A slides, i : DrawnFrom(slides, i, disk[k]) => DrawnFrom(slides, i, disk'[k])
  BY <1>6, SameDraws
<1>10. \A i \in Jobs : Traced(flow'[i], pc'[i], disk'[i], result'[i])
  <2>1. Traced(flow[k], pc'[k], disk'[k], result[k])
    BY <1>3, <1>6, <1>7, <1>8, <1>9 DEF Traced
  <2> TAKE i \in Jobs
  <2>2. CASE i = k
    BY <1>2, <2>1, <2>2
  <2>3. CASE i # k
    BY <1>2, <1>6, <1>7, <2>3
  <2> QED BY <2>2, <2>3
<1>11. TakesSlides'
  BY <1>1, <1>2, <1>4, <1>5, BlankDrawn DEF TakesSlides, Domains
<1>12. ASSUME NEW i \in Jobs, pc'[i] \in Early
       PROVE  concat' # i /\ \A l \in Jobs : NoneOf(build'[l].took, i)
  <2>1. pc[i] \in Early
    BY <1>1, <1>2, <1>4, <1>12 DEF Domains, Early, BeforeImages, VisualSteps, AudioSteps
  <2>2. concat # i /\ \A l \in Jobs : NoneOf(build[l].took, i)
    BY <1>1, <2>1 DEF SlidesDrawn
  <2> QED BY <1>2, <1>5, <2>2, BlankDrawn
<1>13. ASSUME NEW i \in Jobs, pc'[i] \in AfterPaths
       PROVE  /\ DrawnFrom(disk'[i].video.slides, i, disk'[i])
              /\ \A l \in Jobs : DrawnFrom(build'[l].took, i, disk'[i])
  <2>1. pc[i] \in AfterPaths
    BY <1>1, <1>2, <1>13 DEF Domains, AfterPaths
  <2>2. /\ DrawnFrom(disk[i].video.slides, i, disk[i])
        /\ \A l \in Jobs : DrawnFrom(build[l].took, i, disk[i])
    BY <1>1, <2>1 DEF SlidesDrawn
  <2>3. DrawnFrom(disk'[i].video.slides, i, disk[i])
    BY <1>6, <2>2
  <2>4. \A l \in Jobs : DrawnFrom(build'[l].took, i, disk[i])
    BY <1>5, <2>2, BlankDrawn
  <2> QED BY <1>6, <1>9, <2>3, <2>4
<1>14. SlidesDrawn'
  BY <1>12, <1>13 DEF SlidesDrawn
<1> QED BY <1>1, <1>2, <1>5, <1>6, <1>10, <1>11, <1>14 DEF DrawnInv, Domains

LEMMA CrashDrawn ==
    ASSUME DrawnInv, Crash
    PROVE  DrawnInv'
<1>1. /\ Domains /\ DOMAIN build = Jobs
      /\ \A i \in Jobs : Traced(flow[i], pc[i], disk[i], result[i])
  BY DEF DrawnInv
<1>2. /\ Domains' /\ DOMAIN build' = Jobs /\ concat' = NoJob
      /\ \A i \in Jobs : build'[i] = NoBuild
  BY <1>1 DEF Crash, Cleared, Lose, Domains
<1>3. ASSUME NEW i \in Jobs
      PROVE  /\ Traced(flow'[i], pc'[i], disk'[i], result'[i])
             /\ pc'[i] \notin AfterPaths
  <2>1. CASE i \in Running
    <3>1. disk'[i] = EmptyDisk /\ result'[i] = NoResult /\ flow'[i] = flow[i]
      BY <1>1, <2>1 DEF Crash, Cleared, Lose, Domains
    <3>2. pc'[i] \in {"queued", "failed"}
      BY <1>1, <2>1 DEF Crash, Domains
    <3>3. flow[i] # "none"
      BY <1>1, <2>1 DEF Traced, Running, Checked, Unchecked
    <3> QED BY <3>1, <3>2, <3>3, BlankDrawn DEF Traced, Early, AfterPaths, Finished, VisualAt,
            RenderSteps, BeforeImages, VisualSteps, AudioSteps
  <2>2. CASE i \notin Running
    <3>1. disk'[i] = disk[i] /\ flow'[i] = flow[i]
      BY <1>1, <2>2 DEF Crash, Cleared, Domains
    <3>2. result'[i] = result[i]
      BY <1>1, <2>2 DEF Crash, Lose, Domains
    <3>3. pc'[i] = pc[i]
      BY <1>1, <2>2 DEF Crash, Domains
    <3>4. pc[i] \notin AfterPaths
      BY <2>2 DEF Running, Checked, Unchecked, AfterPaths
    <3> QED BY <1>1, <3>1, <3>2, <3>3, <3>4
  <2> QED BY <2>1, <2>2
<1>4. TakesSlides' /\ SlidesDrawn'
  <2>1. \A i \in Jobs : pc'[i] \notin {"collect", "slide"}
    BY <1>3 DEF AfterPaths
  <2> QED BY <1>2, <1>3, <2>1, BlankDrawn, PipelineAssumption DEF TakesSlides, SlidesDrawn
<1> QED BY <1>2, <1>3, <1>4, BlankDrawn DEF DrawnInv

LEMMA NextDrawn ==
    ASSUME DrawnInv, Next
    PROVE  DrawnInv'
<1>1. CASE Crash
  BY <1>1, CrashDrawn
<1>2. CASE \E j \in Jobs : Step(j)
  <2>1. PICK j \in Jobs : Step(j)
    BY <1>2
  <2>2. CASE SetPaths(j) \/ Collect(j) \/ BuildSlide(j) \/ JoinSlides(j)
    BY <2>2, SetPathsDrawn, CollectDrawn, BuildSlideDrawn, JoinSlidesDrawn
  <2>3. CASE ~(SetPaths(j) \/ Collect(j) \/ BuildSlide(j) \/ JoinSlides(j))
    <3>1. Calm(j)
      BY <2>1, <2>3, QueueCalm, AudioCalm, EndCalm, SubmitCalm, WriteScriptCalm, AssignCalm,
         AnimateCalm, NoLectureCalm, MaterialCalm, MatchCalm, PrepareCalm, RespondCalm, PublishCalm
         DEF Step
    <3> QED BY <3>1, CalmDrawn
  <2> QED BY <2>2, <2>3
<1> QED BY <1>1, <1>2 DEF Next

LEMMA DrawnStutters == ASSUME DrawnInv, UNCHANGED vars PROVE DrawnInv'
BY DEF vars, DrawnInv, Domains, TakesSlides, SlidesDrawn

(* The clip of a sentence, where the mapping numbers its sentences in turn. *)
LEMMA ClipOfSentence ==
    ASSUME NEW d, NEW p, d.maps[p] \in Seq(Item), InOrder(d.maps[p]), d.clips[p] = Clips(d, p),
           NEW n \in DOMAIN d.maps[p]
    PROVE  SentenceClip(d, p, n) =
             [sent |-> n, part |-> Part(d, p, n),
              region |-> IF Shown(d, p, d.maps[p][n]) THEN d.lp[p][d.maps[p][n].region] ELSE None]
<1> DEFINE map == d.maps[p]
           animated == {c \in d.clips[p] : c.sent = n}
<1>1. map # NoMap /\ (\A i \in DOMAIN map : map[i].sent = i) /\ DOMAIN map = 1..Len(map) /\ Len(map) \in Nat
  BY LenProperties DEF InOrder
<1>2. d.clips[p] = {map[i] : i \in AnimatedClips(d, p)}
  BY <1>1 DEF Clips
<1>3. AnimatedClips(d, p) = {i \in DOMAIN map : Shown(d, p, map[i])}
  <2>1. ASSUME NEW i \in DOMAIN map, NEW k \in (i + 1)..Len(map) PROVE map[k].sent # map[i].sent
    <3>1. k \in DOMAIN map /\ k # i
      BY <1>1
    <3> QED BY <1>1, <3>1
  <2> QED BY <2>1 DEF AnimatedClips
<1>4. CASE Shown(d, p, map[n])
  <2>1. animated = {map[n]}
    BY <1>1, <1>2, <1>3, <1>4
  <2>2. (CHOOSE c \in animated : TRUE) = map[n] /\ animated # {}
    BY <2>1
  <2> QED BY <1>4, <2>2 DEF SentenceClip
<1>5. CASE ~Shown(d, p, map[n])
  <2>1. animated = {}
    BY <1>1, <1>2, <1>3, <1>5
  <2> QED BY <1>5, <2>1 DEF SentenceClip
<1> QED BY <1>4, <1>5

(* Whoever makes the slides of a lecture, and whatever fails, dies or is   *)
(* cancelled meanwhile, a clip shows and says what the timeline has for    *)
(* its sentence.                                                           *)
THEOREM VideoFollowsItsTimeline == Spec => []VideoFollowsTimeline
<1>1. DrawnInv => VideoFollowsTimeline
  <2> SUFFICES ASSUME DrawnInv, NEW j \in Jobs, flow[j] = "visual", pc[j] = "publish",
                      NEW k \in DOMAIN disk[j].video.slides,
                      disk[j].video.slides[k].owner = j,
                      InOrder(disk[j].maps[disk[j].video.slides[k].page]),
                      NEW i \in DOMAIN disk[j].video.slides[k].clips
               PROVE  LET slide == disk[j].video.slides[k]
                          line == result[j].timeline[slide.page][slide.clips[i].sent]
                      IN  slide.clips[i].part = line.part /\ slide.clips[i].region = line.region
    BY DEF VideoFollowsTimeline
  <2> DEFINE d == disk[j]
             slide == d.video.slides[k]
             p == slide.page
  <2>1. Traced(flow[j], pc[j], d, result[j]) /\ DrawnFrom(d.video.slides, j, d)
    BY DEF DrawnInv, SlidesDrawn, AfterPaths
  <2>2. Drawn(slide, d)
    BY <2>1 DEF DrawnFrom
  <2>3. p \in Pages /\ d.maps[p] \in Seq(Item) /\ d.clips[p] = Clips(d, p)
        /\ result[j].timeline[p] = Timeline(d, p)
    BY <2>1, <2>2 DEF Traced, Drawn, AfterPaths
  <2>4. PICK n \in Sentences(d, p) : slide.clips[i] = SentenceClip(d, p, n)
    BY <2>2 DEF Drawn
  <2> HIDE DEF d, slide
  <2>5. n \in DOMAIN d.maps[p] /\ InOrder(d.maps[p])
    BY DEF Sentences, d, slide
  <2> DEFINE shows == IF Shown(d, p, d.maps[p][n]) THEN d.lp[p][d.maps[p][n].region] ELSE None
  <2>6. slide.clips[i] = [sent |-> n, part |-> Part(d, p, n), region |-> shows]
    BY <2>3, <2>4, <2>5, ClipOfSentence
  <2>7. Timeline(d, p)[n] = [part |-> Part(d, p, n), region |-> shows]
    BY <2>5 DEF Timeline, InOrder
  <2> HIDE DEF shows
  <2>8. /\ slide.clips[i].sent = n /\ slide.clips[i].part = Timeline(d, p)[n].part
        /\ slide.clips[i].region = Timeline(d, p)[n].region
    BY <2>6, <2>7
  <2>9. result[j].timeline[p][slide.clips[i].sent] = Timeline(d, p)[n]
    BY <2>3, <2>8
  <2> QED BY <2>8, <2>9 DEF d, slide
<1>2. DrawnInv /\ [Next]_vars => DrawnInv'
  BY NextDrawn, DrawnStutters
<1> QED BY InitDrawn, <1>1, <1>2, PTL DEF Spec

-----------------------------------------------------------------------------
(* One worker: a render shows the assignment it was given                  *)

(* From its mapping on, a render works on what it was given.               *)
Made == {"animate", "concat", "collect", "slide", "publish"}
GivenInv ==
    \A j \in Jobs : flow[j] = "render" /\ pc[j] \in Made => \A p \in Pages :
        /\ disk[j].lp[p] = CustomLp(marks[j][p], Draft[p])
        /\ disk[j].maps[p] = CustomMap(marks[j][p], Draft[p])

RenderInv == OwnInv /\ DrawnInv /\ DOMAIN marks = Jobs /\ GivenInv /\ RenderShowsAssigned

(* The place of a sentence's region, counted in the layout results, in the *)
(* mapping and in the clip's name, is the same.                            *)
LEMMA LastIsOne ==
    ASSUME NEW mark, NEW n, Lit(mark, n)
    PROVE  LastOf(RegionsOf(mark, n)) \in RegionsOf(mark, n)
<1> DEFINE rs == RegionsOf(mark, n)
<1>1. rs \subseteq {1, 2} /\ rs # {}
  BY DEF RegionsOf, Regions, Lit
<1>2. \E r \in rs : \A q \in rs : q <= r
  <2>1. CASE 2 \in rs
    BY <1>1, <2>1
  <2>2. CASE 2 \notin rs
    <3>1. rs = {1}
      BY <1>1, <2>2
    <3> QED BY <3>1
  <2> QED BY <2>1, <2>2
<1> HIDE DEF rs
<1>3. LastOf(rs) \in rs
  BY <1>2 DEF LastOf
<1> QED BY <1>3 DEF rs

LEMMA ClipOfGiven ==
    ASSUME NEW d, NEW p, NEW mark, NEW m \in Nat, NEW n \in 1..m,
           d.lp[p] = CustomLp(mark, m), d.maps[p] = CustomMap(mark, m), d.clips[p] = Clips(d, p)
    PROVE  /\ SentenceClip(d, p, n).sent = n
           /\ IF RegionsOf(mark, n) = {} THEN SentenceClip(d, p, n).region = None
              ELSE SentenceClip(d, p, n).region \in RegionsOf(mark, n)
<1> DEFINE S == {i \in 1..m : Lit(mark, i)}
           lit == InTurn(S)
           map == d.maps[p]
<1>1. /\ map \in Seq(Item) /\ DOMAIN map = 1..m /\ n \in DOMAIN map
      /\ map[n].region = IF Lit(mark, n) THEN Cardinality({k \in 1..n : Lit(mark, k)}) ELSE None
      /\ \A i \in 1..m : map[i].sent = i
  <2>1. map \in Seq(Item)
    BY CustomMapIsItems
  <2> DEFINE region(i) == IF Lit(mark, i) THEN Cardinality({k \in 1..i : Lit(mark, k)}) ELSE None
  <2>2. map = [i \in 1..m |-> [sent |-> i, region |-> region(i)]]
    BY DEF CustomMap
  <2> HIDE DEF region, map
  <2>3. DOMAIN map = 1..m /\ \A i \in 1..m : map[i].sent = i /\ map[i].region = region(i)
    BY <2>2
  <2>4. map[n].region = region(n)
    BY <2>3
  <2> QED BY <2>1, <2>3, <2>4 DEF region
<1>2. map # NoMap
  <2>1. NoMap[1].sent = 0 /\ 1 \in 1..m
    BY DEF NoMap
  <2>2. map[1].sent = 1
    BY <1>1, <2>1
  <2> HIDE DEF map
  <2> QED BY <2>1, <2>2
<1>3. SentenceClip(d, p, n) =
        [sent |-> n, part |-> Part(d, p, n),
         region |-> IF Shown(d, p, map[n]) THEN d.lp[p][map[n].region] ELSE None]
  <2>1. InOrder(map)
    BY <1>1, <1>2 DEF InOrder
  <2> HIDE DEF map
  <2> QED BY <1>1, <2>1, ClipOfSentence DEF map
<1>4. S \in SUBSET (1..m)
  OBVIOUS
<1>5. Cardinality(S) \in Nat /\ lit \in [1..Cardinality(S) -> S]
  <2> HIDE DEF S
  <2> QED BY <1>4, RankRises, InTurnRises
<1>6. d.lp[p] = [k \in 1..Cardinality(S) |-> LastOf(RegionsOf(mark, lit[k]))]
  BY <1>5 DEF CustomLp
<1>7. Len(d.lp[p]) = Cardinality(S)
  <2> HIDE DEF S, lit
  <2> QED BY <1>5, <1>6
<1>8. CASE Lit(mark, n)
  <2>1. n \in S /\ {k \in 1..n : Lit(mark, k)} = UpTo(S, n)
    BY <1>8 DEF UpTo
  <2>2. map[n].region = Rank(S, n)
    BY <1>1, <1>8, <2>1 DEF Rank
  <2> HIDE DEF S, lit, map
  <2>3. Rank(S, n) \in 1..Cardinality(S) /\ lit[Rank(S, n)] = n
    BY <1>4, <2>1, InTurnCounts DEF lit
  <2>4. Shown(d, p, map[n])
    BY <1>7, <2>2, <2>3 DEF Shown
  <2>5. d.lp[p][map[n].region] = LastOf(RegionsOf(mark, n))
    BY <1>6, <2>2, <2>3
  <2>6. LastOf(RegionsOf(mark, n)) \in RegionsOf(mark, n)
    BY <1>8, LastIsOne
  <2> QED BY <1>3, <2>4, <2>5, <2>6
<1>9. CASE ~Lit(mark, n)
  <2>1. map[n].region = 0 /\ Cardinality(S) \in Nat /\ Len(d.lp[p]) = Cardinality(S)
    BY <1>1, <1>5, <1>7, <1>9 DEF None
  <2> HIDE DEF S, lit, map
  <2>2. ~Shown(d, p, map[n])
    BY <2>1 DEF Shown
  <2> QED BY <1>3, <1>9, <2>2 DEF Lit
<1> QED BY <1>8, <1>9

(* What a render works on changes only when it prepares it.                *)
RenderStays(i) ==
    /\ pc'[i] \in Made =>
         pc[i] \in Made /\ disk'[i].maps = disk[i].maps /\ disk'[i].lp = disk[i].lp
    /\ pc'[i] = "done" => pc[i] = "done" /\ result'[i] = result[i]

LEMMA OthersStay ==
    ASSUME OwnInv, DrawnInv, Next, NEW j \in Jobs, Step(j), NEW i \in Jobs \ {j}
    PROVE  /\ flow'[i] = flow[i] /\ pc'[i] = pc[i] /\ result'[i] = result[i]
           /\ disk'[i].maps = disk[i].maps /\ disk'[i].lp = disk[i].lp
<1>1. Domains /\ DOMAIN build = Jobs /\ OneRuns /\ PathsOwn
      /\ {"ids", "left", "took", "out"} = DOMAIN build[j]
      /\ \A k \in Jobs : Traced(flow[k], pc[k], disk[k], result[k])
  BY DEF DrawnInv, OwnInv
<1>2. CASE SetPaths(j) \/ Collect(j) \/ BuildSlide(j)
  BY <1>1, <1>2 DEF SetPaths, Collect, BuildSlide, At, Goto, Domains
<1>3. CASE JoinSlides(j)
  <2>1. concat = j
    BY <1>1, <1>3 DEF JoinSlides, At, PathsOwn
  <2> QED BY <1>1, <1>3, <2>1 DEF JoinSlides, At, Goto, Domains
<1>4. CASE ~(SetPaths(j) \/ Collect(j) \/ BuildSlide(j) \/ JoinSlides(j))
  <2>1. Calm(j)
    BY <1>4, QueueCalm, AudioCalm, EndCalm, SubmitCalm, WriteScriptCalm, AssignCalm,
       AnimateCalm, NoLectureCalm, MaterialCalm, MatchCalm, PrepareCalm, RespondCalm, PublishCalm
       DEF Step
  <2> QED BY <2>1 DEF Calm
<1> QED BY <1>2, <1>3, <1>4

LEMMA RenderKeeps ==
    ASSUME OwnInv, DrawnInv, NEW j \in Jobs, flow[j] = "render", Step(j)
    PROVE  flow'[j] = "render" /\ (Prepare(j) \/ Publish(j) \/ RenderStays(j))
<1>1. /\ Domains /\ DOMAIN build = Jobs /\ pc[j] \in RenderSteps /\ PathsOwn
      /\ {"texts", "maps", "lp", "parts", "clips", "video"} \subseteq DOMAIN disk[j]
  BY DEF DrawnInv, OwnInv, Traced
<1>2. CASE RequestCancel(j)
  BY <1>1, <1>2 DEF RequestCancel, RenderStays
<1>3. CASE Start(j)
  BY <1>1, <1>3 DEF Start, FirstStep, Goto, RenderStays, Made, Domains
<1>4. CASE Cancelled(j) \/ Fail(j)
  <2>1. \E end \in {"failed", "cancelled"} : Stopped(j, end)
    BY <1>4 DEF Cancelled, Fail
  <2> QED BY <1>1, <2>1 DEF Stopped, Over, Goto, RenderStays, Made, Domains
<1>5. CASE Animate(j)
  <2>1. /\ pc[j] = "animate" /\ flow' = flow /\ pc' = [pc EXCEPT ![j] = "concat"]
        /\ disk' = [disk EXCEPT ![j].clips = [p \in Pages |-> Clips(disk[j], p)]]
    BY <1>5 DEF Animate, At, Goto
  <2> QED BY <1>1, <2>1 DEF RenderStays, Made, Domains
<1>6. CASE SetPaths(j) \/ Collect(j) \/ BuildSlide(j)
  BY <1>1, <1>6 DEF SetPaths, Collect, BuildSlide, At, Goto, RenderStays, Made, Domains
<1>7. CASE JoinSlides(j)
  <2>1. concat = j
    BY <1>1, <1>7 DEF JoinSlides, At, PathsOwn
  <2> QED BY <1>1, <1>7, <2>1 DEF JoinSlides, AfterConcat, At, Goto, RenderStays, Made, Domains
<1>8. CASE NoLecture(j)
  BY <1>1, <1>8 DEF NoLecture, Stopped, Over, Goto, RenderStays, Made, Domains
<1>9. CASE Prepare(j)
  BY <1>9 DEF Prepare
<1>10. CASE Publish(j)
  BY <1>10 DEF Publish, Over
<1>11. CASE \/ Submit(j) \/ EnsurePdf(j) \/ EnsureImages(j) \/ SavePage(j) \/ EnsureLpOutputs(j)
            \/ OpenResult(j) \/ DumpResult(j) \/ SnapshotAndScan(j) \/ WriteScript(j)
            \/ AssignRegions(j) \/ SpeakScript(j)
  BY <1>1, <1>11 DEF Submit, EnsurePdf, EnsureImages, SavePage, EnsureLpOutputs, OpenResult, DumpResult,
     SnapshotAndScan, WriteScript, AssignRegions, SpeakScript, At, RenderSteps
<1>12. CASE \/ StartMaterials(j) \/ (\E p \in Pages : ExtractMaterial(j, p)) \/ WriteMaterials(j)
            \/ WriteOutline(j) \/ Narrate(j) \/ Stitch(j) \/ Match(j) \/ Respond(j)
  BY <1>1, <1>12 DEF StartMaterials, ExtractMaterial, WriteMaterials, WriteOutline, Narrate, Stitch,
     Match, Respond, At, RenderSteps
<1> QED
  BY <1>2, <1>3, <1>4, <1>5, <1>6, <1>7, <1>8, <1>9, <1>10, <1>11, <1>12 DEF Step

(* The assignment of a render is its own.                                  *)
LEMMA MarksStay ==
    ASSUME DrawnInv, DOMAIN marks = Jobs, Next
    PROVE  DOMAIN marks' = Jobs /\ \A i \in Jobs : flow[i] = "render" => marks'[i] = marks[i]
<1>1. Domains /\ \A j \in Jobs : Traced(flow[j], pc[j], disk[j], result[j])
  BY DEF DrawnInv
<1>2. CASE Crash
  BY <1>2 DEF Crash, Lose
<1>3. ASSUME NEW j \in Jobs, Step(j)
      PROVE  DOMAIN marks' = Jobs /\ \A i \in Jobs : flow[i] = "render" => marks'[i] = marks[i]
  <2>1. ASSUME NEW end, Stopped(j, end)
        PROVE  DOMAIN marks' = Jobs /\ \A i \in Jobs : flow[i] = "render" => marks'[i] = marks[i]
    BY <2>1 DEF Stopped, Lose
  <2>2. CASE Submit(j)
    <3>1. flow[j] = "none" /\ (marks' = marks \/ \E a \in Jobs : marks' = [marks EXCEPT ![j] = marks[a]])
      BY <2>2 DEF Submit
    <3> QED BY <3>1
  <2>3. CASE Match(j)
    <3>1. flow[j] # "render"
      BY <1>1, <2>3 DEF Match, At, Traced, RenderSteps
    <3>2. \E x : marks' = [marks EXCEPT ![j] = x]
      BY <2>3 DEF Match
    <3> QED BY <3>1, <3>2
  <2>4. CASE Cancelled(j) \/ Fail(j) \/ AssignRegions(j) \/ Animate(j) \/ NoLecture(j)
    <3>1. (\E end \in {"failed", "cancelled"} : Stopped(j, end)) \/ marks' = marks
      BY <2>4 DEF Cancelled, Fail, AssignRegions, Animate, NoLecture
    <3> QED BY <2>1, <3>1
  <2>5. CASE \/ RequestCancel(j) \/ Start(j) \/ EnsurePdf(j) \/ EnsureImages(j) \/ SavePage(j)
             \/ EnsureLpOutputs(j) \/ OpenResult(j) \/ DumpResult(j) \/ SnapshotAndScan(j)
             \/ WriteScript(j) \/ SpeakScript(j) \/ SetPaths(j) \/ Collect(j) \/ BuildSlide(j)
             \/ JoinSlides(j)
    BY <2>5 DEF RequestCancel, Start, EnsurePdf, EnsureImages, SavePage, EnsureLpOutputs, OpenResult,
       DumpResult, SnapshotAndScan, WriteScript, SpeakScript, SetPaths, Collect, BuildSlide, JoinSlides
  <2>6. CASE \/ StartMaterials(j) \/ (\E p \in Pages : ExtractMaterial(j, p)) \/ WriteMaterials(j)
             \/ WriteOutline(j) \/ Narrate(j) \/ Stitch(j) \/ Prepare(j) \/ Respond(j) \/ Publish(j)
    BY <2>6 DEF StartMaterials, ExtractMaterial, WriteMaterials, WriteOutline, Narrate, Stitch,
       Prepare, Respond, Publish
  <2> QED BY <1>3, <2>2, <2>3, <2>4, <2>5, <2>6 DEF Step
<1> QED BY <1>2, <1>3 DEF Next

LEMMA PrepareGives ==
    ASSUME DrawnInv, NEW j \in Jobs, Prepare(j)
    PROVE  /\ pc'[j] = "animate" /\ marks' = marks
           /\ \A p \in Pages : /\ disk'[j].lp[p] = CustomLp(marks[j][p], Draft[p])
                               /\ disk'[j].maps[p] = CustomMap(marks[j][p], Draft[p])
BY DEF DrawnInv, Domains, Prepare, Goto, EmptyDisk

(* The video of a render that is published: one worker, so its own.        *)
LEMMA PublishShows ==
    ASSUME RenderInv, NEW j \in Jobs, flow[j] = "render", Publish(j)
    PROVE  /\ pc'[j] = "done"
           /\ \A k \in DOMAIN result'[j].video.slides :
                LET slide == result'[j].video.slides[k]
                IN  \A i \in DOMAIN slide.clips :
                      LET given == RegionsOf(marks[j][slide.page], slide.clips[i].sent)
                      IN  IF given = {} THEN slide.clips[i].region = None ELSE slide.clips[i].region \in given
<1> DEFINE d == disk[j]
<1>1. pc[j] = "publish" /\ pc'[j] = "done"
  BY DEF Publish, Over, At, Goto, RenderInv, DrawnInv, Domains
<1>2. result'[j].video = d.video
  <2>1. build[j].out = j
    BY <1>1 DEF RenderInv, OwnInv, RenderOwn
  <2> QED BY <2>1 DEF Publish, RenderInv, DrawnInv, Domains, NoResult
<1>3. /\ Traced(flow[j], pc[j], d, result[j]) /\ DrawnFrom(d.video.slides, j, d) /\ Own(d.video.slides, j)
      /\ \A p \in Pages : /\ d.lp[p] = CustomLp(marks[j][p], Draft[p])
                          /\ d.maps[p] = CustomMap(marks[j][p], Draft[p])
  BY <1>1 DEF RenderInv, OwnInv, DiskOwn, DrawnInv, SlidesDrawn, AfterPaths, GivenInv, Made
<1>4. d.clips = [p \in Pages |-> Clips(d, p)]
  BY <1>1, <1>3 DEF Traced, AfterPaths
<1> HIDE DEF d
<1>5. ASSUME NEW k \in DOMAIN d.video.slides, NEW i \in DOMAIN d.video.slides[k].clips
      PROVE  LET slide == d.video.slides[k]
                 given == RegionsOf(marks[j][slide.page], slide.clips[i].sent)
             IN  IF given = {} THEN slide.clips[i].region = None ELSE slide.clips[i].region \in given
  <2> DEFINE slide == d.video.slides[k]
             p == slide.page
             mark == marks[j][p]
  <2>1. Drawn(slide, d)
    BY <1>3 DEF DrawnFrom, Own
  <2>2. p \in Pages /\ \E n \in Sentences(d, p) : slide.clips[i] = SentenceClip(d, p, n)
    BY <2>1 DEF Drawn
  <2>3. PICK n \in Sentences(d, p) : slide.clips[i] = SentenceClip(d, p, n)
    BY <2>2
  <2>4. /\ d.lp[p] = CustomLp(mark, Draft[p]) /\ d.maps[p] = CustomMap(mark, Draft[p])
        /\ d.clips[p] = Clips(d, p)
    BY <1>3, <1>4, <2>2
  <2>5. n \in 1..Draft[p] /\ Draft[p] \in Nat
    BY <2>2, <2>4, PipelineAssumption DEF Sentences, CustomMap
  <2> HIDE DEF slide, p, mark
  <2>6. /\ SentenceClip(d, p, n).sent = n
        /\ IF RegionsOf(mark, n) = {} THEN SentenceClip(d, p, n).region = None
           ELSE SentenceClip(d, p, n).region \in RegionsOf(mark, n)
    BY <2>4, <2>5, ClipOfGiven
  <2>7. /\ slide.clips[i].sent = n
        /\ IF RegionsOf(mark, slide.clips[i].sent) = {} THEN slide.clips[i].region = None
           ELSE slide.clips[i].region \in RegionsOf(mark, slide.clips[i].sent)
    BY <2>3, <2>6
  <2> QED BY <2>7 DEF slide, p, mark
<1> QED BY <1>1, <1>2, <1>5

LEMMA InitRender == Init => RenderInv
BY InitOwn, InitDrawn DEF RenderInv, Init, GivenInv, RenderShowsAssigned, Done

LEMMA NextRender ==
    ASSUME RenderInv, Workers = 1, Next
    PROVE  RenderInv'
<1>1. OwnInv /\ DrawnInv /\ GivenInv /\ RenderShowsAssigned
      /\ Domains /\ \A j \in Jobs : Traced(flow[j], pc[j], disk[j], result[j])
  BY DEF RenderInv, DrawnInv
<1>2. OwnInv' /\ DrawnInv'
  BY <1>1, StepOwn, NextDrawn
<1>3. DOMAIN marks' = Jobs /\ \A i \in Jobs : flow[i] = "render" => marks'[i] = marks[i]
  BY <1>1, MarksStay DEF RenderInv
<1>4. ASSUME NEW i \in Jobs, flow'[i] = "render", pc'[i] \in Made \cup {"done"}
      PROVE  flow[i] = "render" /\ ((Step(i) /\ (Prepare(i) \/ Publish(i))) \/ RenderStays(i))
  <2>1. CASE Crash
    <3>1. flow' = flow /\ i \notin Running
      <4>1. i \in Running => pc'[i] \in {"queued", "failed"}
        BY <1>1, <2>1 DEF Crash, Domains
      <4>2. flow' = flow
        BY <2>1 DEF Crash
      <4> QED BY <1>4, <4>1, <4>2 DEF Made
    <3>2. pc'[i] = pc[i] /\ result'[i] = result[i] /\ disk'[i] = disk[i]
      BY <1>1, <2>1, <3>1 DEF Crash, Lose, Cleared, Domains
    <3> QED BY <1>4, <3>1, <3>2 DEF RenderStays
  <2>2. ASSUME NEW j \in Jobs, Step(j)
        PROVE  flow[i] = "render" /\ ((Step(i) /\ (Prepare(i) \/ Publish(i))) \/ RenderStays(i))
    <3>1. CASE i # j
      <4>1. /\ flow'[i] = flow[i] /\ pc'[i] = pc[i] /\ result'[i] = result[i]
            /\ disk'[i].maps = disk[i].maps /\ disk'[i].lp = disk[i].lp
        BY <1>1, <2>2, <3>1, OthersStay
      <4> QED BY <1>4, <4>1 DEF RenderStays
    <3>2. CASE i = j
      <4>1. flow[i] = "render"
        <5>1. CASE Submit(i)
          <6>1. pc'[i] = "queued"
            BY <1>1, <5>1 DEF Submit, Goto, Domains
          <6> QED BY <1>4, <6>1 DEF Made
        <5>2. CASE ~Submit(i)
          <6>1. CASE SetPaths(i) \/ Collect(i) \/ BuildSlide(i) \/ JoinSlides(i)
            BY <1>4, <6>1 DEF SetPaths, Collect, BuildSlide, JoinSlides
          <6>2. CASE \/ RequestCancel(i) \/ Start(i) \/ EnsurePdf(i) \/ EnsureImages(i) \/ SavePage(i)
                     \/ EnsureLpOutputs(i) \/ OpenResult(i) \/ DumpResult(i) \/ SnapshotAndScan(i)
                     \/ WriteScript(i) \/ AssignRegions(i) \/ SpeakScript(i) \/ Animate(i)
                     \/ NoLecture(i) \/ Cancelled(i) \/ Fail(i)
            BY <1>4, <6>2 DEF RequestCancel, Start, EnsurePdf, EnsureImages, SavePage, EnsureLpOutputs,
               OpenResult, DumpResult, SnapshotAndScan, WriteScript, AssignRegions, SpeakScript, Animate,
               NoLecture, Cancelled, Fail, Stopped, Over
          <6>3. CASE \/ StartMaterials(i) \/ (\E p \in Pages : ExtractMaterial(i, p)) \/ WriteMaterials(i)
                     \/ WriteOutline(i) \/ Narrate(i) \/ Stitch(i) \/ Match(i) \/ Prepare(i)
                     \/ Respond(i) \/ Publish(i)
            BY <1>4, <6>3 DEF StartMaterials, ExtractMaterial, WriteMaterials, WriteOutline, Narrate,
               Stitch, Match, Prepare, Respond, Publish, Over
          <6> QED BY <2>2, <3>2, <5>2, <6>1, <6>2, <6>3 DEF Step
        <5> QED BY <5>1, <5>2
      <4> QED BY <1>1, <2>2, <3>2, <4>1, RenderKeeps
    <3> QED BY <3>1, <3>2
  <2> QED BY <2>1, <2>2 DEF Next
<1>5. GivenInv'
  <2> SUFFICES ASSUME NEW i \in Jobs, flow'[i] = "render", pc'[i] \in Made, NEW p \in Pages
               PROVE  /\ disk'[i].lp[p] = CustomLp(marks'[i][p], Draft[p])
                      /\ disk'[i].maps[p] = CustomMap(marks'[i][p], Draft[p])
    BY DEF GivenInv
  <2>1. flow[i] = "render" /\ (Prepare(i) \/ Publish(i) \/ RenderStays(i)) /\ marks'[i] = marks[i]
    BY <1>3, <1>4
  <2>2. CASE Prepare(i)
    BY <1>1, <2>1, <2>2, PrepareGives
  <2>3. CASE Publish(i)
    <3>1. pc'[i] = "done"
      BY <2>1, <2>3, PublishShows
    <3> QED BY <3>1 DEF Made
  <2>4. CASE RenderStays(i)
    BY <1>1, <2>1, <2>4 DEF RenderStays, GivenInv
  <2> QED BY <2>1, <2>2, <2>3, <2>4
<1>6. RenderShowsAssigned'
  <2> DEFINE Shows(slides, mark) ==
        \A k \in DOMAIN slides : \A i \in DOMAIN slides[k].clips :
            LET given == RegionsOf(mark[slides[k].page], slides[k].clips[i].sent)
            IN  IF given = {} THEN slides[k].clips[i].region = None ELSE slides[k].clips[i].region \in given
  <2>1. ASSUME NEW j \in Jobs, flow'[j] = "render", pc'[j] = "done"
        PROVE  Shows(result'[j].video.slides, marks'[j])
    <3>1. flow[j] = "render" /\ (Prepare(j) \/ Publish(j) \/ RenderStays(j)) /\ marks'[j] = marks[j]
      BY <1>3, <1>4, <2>1
    <3>2. CASE Prepare(j)
      BY <1>1, <2>1, <3>2, PrepareGives
    <3>3. CASE Publish(j)
      BY <3>1, <3>3, PublishShows
    <3>4. CASE RenderStays(j)
      BY <1>1, <2>1, <3>1, <3>4 DEF RenderStays, RenderShowsAssigned, Done
    <3> QED BY <3>1, <3>2, <3>3, <3>4
  <2> QED BY <2>1 DEF RenderShowsAssigned, Done
<1> QED BY <1>2, <1>3, <1>5, <1>6 DEF RenderInv

LEMMA RenderStutters == ASSUME RenderInv, UNCHANGED vars PROVE RenderInv'
<1>1. OwnInv' /\ DrawnInv'
  BY OwnStutters, DrawnStutters DEF RenderInv
<1>2. UNCHANGED <<flow, pc, disk, marks, result>>
  BY DEF vars
<1>3. DOMAIN marks' = Jobs /\ GivenInv'
  BY <1>2 DEF RenderInv, GivenInv
<1>4. RenderShowsAssigned'
  BY <1>2 DEF RenderInv, RenderShowsAssigned, Done
<1> QED BY <1>1, <1>3, <1>4 DEF RenderInv

(* With one worker a final render shows what the user confirmed: three     *)
(* modules count the place of a sentence's region, each its own way, and   *)
(* count the same.                                                         *)
THEOREM RenderShowsItsAssignment ==
    ASSUME Workers = 1
    PROVE  Spec => []RenderShowsAssigned
<1>1. RenderInv => RenderShowsAssigned
  BY DEF RenderInv
<1>2. RenderInv /\ [Next]_vars => RenderInv'
  BY NextRender, RenderStutters
<1> QED BY InitRender, <1>1, <1>2, PTL DEF Spec

=============================================================================
