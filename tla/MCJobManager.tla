---------------------------- MODULE MCJobManager ----------------------------
(***************************************************************************)
(* Small instances of JobManager for TLC.                                  *)
(***************************************************************************)
EXTENDS JobManager, TLC

CONSTANTS i1, i2, i3, w1, w2, c1, c2, j1, j2, r1, r2

(* One generation job and one preview job of the same run. *)
RunAndPreview == [j \in Jobs |-> IF j = j1 THEN "project_run" ELSE "preview_audio"]
SameRun == [j \in Jobs |-> r1]

(* Jobs of a run that is there already. *)
ReviewAndPreview == [j \in Jobs |-> IF j = j1 THEN "review_assignment" ELSE "preview_audio"]
PreviewAudios == [j \in Jobs |-> "preview_audio"]

(* Bound: only one of the jobs is ever submitted. *)
OneSubmitted == \E j \in Jobs : \A k \in Jobs \ {j} : db[k].status = "absent"

(* Processes that come one after the other are interchangeable. *)
AnyOrder == Permutations(Instances)

(* Two generation jobs of two runs. *)
TwoRuns == [j \in Jobs |-> IF j = j1 THEN r1 ELSE r2]
BothProjectRuns == [j \in Jobs |-> "project_run"]

DefaultLimits == [k \in Kinds |-> IF k = "final_render" THEN 1 ELSE 2]
LimitOne == [k \in Kinds |-> 1]
=============================================================================
