---------------------------- MODULE JobLifecycle ----------------------------
(***************************************************************************)
(* What a client of /api/jobs is promised while the backend stays up: a    *)
(* job goes from queued to running to exactly one final status, it is      *)
(* completed only after its result was published, a cancelled job has      *)
(* published nothing unless it is of a kind that can still be cancelled    *)
(* then, a result is published at most once, and every accepted job gets   *)
(* to its end.                                                             *)
(***************************************************************************)
EXTENDS Naturals

CONSTANTS
    Jobs,
    Rechecked  \* jobs that can be cancelled after their result was published

VARIABLES
    status,
    published  \* how often the result of a job was published

lifeVars == <<status, published>>

Init ==
    /\ status = [j \in Jobs |-> "absent"]
    /\ published = [j \in Jobs |-> 0]

Enter(j, from, to) ==
    /\ status[j] \in from
    /\ status' = [status EXCEPT ![j] = to]
    /\ UNCHANGED published

Submit(j)   == Enter(j, {"absent"}, "queued")
Begin(j)    == Enter(j, {"queued"}, "running")
Fail(j)     == Enter(j, {"queued", "running"}, "failed")
Cancel(j)   == (published[j] > 0 => j \in Rechecked) /\ Enter(j, {"running"}, "cancelled")
Complete(j) == published[j] > 0 /\ Enter(j, {"running"}, "completed")

Publish(j) ==
    /\ status[j] = "running" /\ published[j] = 0
    /\ published' = [published EXCEPT ![j] = 1]
    /\ UNCHANGED status

Progress(j) == Begin(j) \/ Publish(j) \/ Complete(j) \/ Fail(j) \/ Cancel(j)

Next == \E j \in Jobs : Submit(j) \/ Progress(j)

Spec == Init /\ [][Next]_lifeVars /\ \A j \in Jobs : WF_lifeVars(Progress(j))
=============================================================================
