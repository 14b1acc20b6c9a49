----------------------------- MODULE JobManager -----------------------------
(***************************************************************************)
(* The job manager of the backend (src/backend/app/jobs.py): requests that *)
(* submit and cancel jobs, the worker threads that run them, the jobs      *)
(* table that survives a restart and the restore that every new backend    *)
(* instance performs.                                                      *)
(*                                                                         *)
(* One action is one region the code makes atomic: a `with _jobs_lock`     *)
(* block, or one database transaction.  A job is kept twice: as a record   *)
(* in the memory of an instance and as a row of the jobs table.  The row   *)
(* is only ever replaced by a whole snapshot of the record, taken outside  *)
(* the lock and written later (_persist_job), so a snapshot in flight is   *)
(* part of the state of the thread that took it.                           *)
(***************************************************************************)
EXTENDS Naturals, Sequences, FiniteSets

CONSTANTS
    Instances,            \* backend processes; a restart is a new instance
    Workers,              \* worker threads of one instance
    Clients,              \* request threads, each serving one request at a time
    Jobs,                 \* job ids
    Runs,                 \* generation runs
    RunOf,                \* the generation run of a job
    Kind,                 \* the kind of a job
    Limit,                \* active jobs a user may have of each kind
    None,                 \* no instance, no job
    MaxRetries,           \* LECTURE_CRAFT_JOB_MAX_RETRIES
    MaxReports,           \* bound: progress reports of one execution
    MaxAlive,             \* bound: instances alive at the same time
    MaxCrashes,           \* bound: instances that die
    MaxFaults,            \* bound: database operations that fail
    LeaseCoversRun,       \* a lease does not expire while its job executes
    CancelFinished,       \* clients also cancel jobs that have finished
    RepeatPreviews,       \* clients also repeat a preview request that has failed
    CrashWhileRestoring   \* an instance may die in the middle of a restore

Kinds == {"project_run", "final_render", "preview_audio", "review_assignment"}

ASSUME JobManagerAssumption ==
    /\ None \notin Instances \cup Jobs
    /\ RunOf \in [Jobs -> Runs]
    /\ Kind \in [Jobs -> Kinds]
    /\ Limit \in [Kinds -> Nat]
    /\ MaxRetries \in Nat /\ MaxReports \in Nat
    /\ MaxAlive \in Nat \ {0} /\ MaxFaults \in Nat /\ MaxCrashes \in Nat
    /\ LeaseCoversRun \in BOOLEAN
    /\ CancelFinished \in BOOLEAN
    /\ RepeatPreviews \in BOOLEAN
    /\ CrashWhileRestoring \in BOOLEAN

VARIABLES
    db,        \* the jobs table
    run,       \* the generation_runs table and whether a run is its project's active one
    mem,       \* JobManager.jobs of every instance
    queue,     \* JobManager._queue of every instance
    inst,      \* life of every instance
    todo,      \* rows that a starting instance selected and has not restored yet
    worker,    \* worker threads
    request,   \* request threads
    applied,   \* how often the result of a job was published
    claims,    \* how often an execution of a job was begun
    faults     \* database operations that have failed so far

vars == <<db, run, mem, queue, inst, todo, worker, request,
          applied, claims, faults>>

-----------------------------------------------------------------------------
(* JobRecord, and a row of the jobs table.  `fresh` says that              *)
(* lease_expires_at is set and not yet over, `path` that result_path is    *)
(* set, `artifact` that result_artifact_id is set.                         *)
Terminal == {"completed", "failed", "cancelled"}
Active   == {"queued", "running"}
Status   == {"absent"} \cup Active \cup Terminal

Record == [status : Status, cancel : BOOLEAN, retry : Nat,
           owner : Instances \cup {None}, fresh : BOOLEAN,
           path : BOOLEAN, artifact : BOOLEAN]

Blank(status) == [status |-> status, cancel |-> FALSE, retry |-> 0,
                  owner |-> None, fresh |-> FALSE,
                  path |-> FALSE, artifact |-> FALSE]

RunStatus == {"queued", "running", "completed", "failed", "cancelled", "superseded"}
Run == [status : RunStatus, job : Jobs \cup {None}, active : BOOLEAN]

(* Where a worker thread is in _worker_loop and the handler it runs:       *)
(*   taken, claimed           between queue.get, the claim and its record  *)
(*   begin, entered           before and after the first cancel check      *)
(*   work                     after the handler's first update             *)
(*   commit, applied          last cancel check passed; result published   *)
(*   rechecked                preview audio: one more check after that     *)
(*   persist, sync            _persist_job and _sync_generation_run_status *)
(*   attach, persistResult    result_artifact_id set after the completion  *)
WorkerPC == {"idle", "taken", "claimed", "begin", "entered", "work", "commit", "applied",
             "rechecked", "persist", "sync", "attach", "persistResult"}
Thread == [pc : WorkerPC, job : Jobs \cup {None}, snap : Record, left : Nat]
IdleThread == [pc |-> "idle", job |-> None, snap |-> Blank("absent"), left |-> 0]

RequestPC == {"idle", "accepted", "attached", "flagged", "snapped", "blocked"}
Request == [pc : RequestPC, at : Instances \cup {None}, job : Jobs \cup {None},
            snap : Record]
IdleRequest == [pc |-> "idle", at |-> None, job |-> None, snap |-> Blank("absent")]

TypeOK ==
    /\ db \in [Jobs -> Record]
    /\ run \in [Runs -> Run]
    /\ mem \in [Instances -> [Jobs -> Record]]
    /\ queue \in [Instances -> Seq(Jobs)]
    /\ inst \in [Instances -> {"new", "restoring", "up", "down"}]
    /\ todo \in [Instances -> SUBSET (Jobs \X Record)]
    /\ worker \in [Instances -> [Workers -> Thread]]
    /\ request \in [Clients -> Request]
    /\ applied \in [Jobs -> Nat]
    /\ claims \in [Jobs -> Nat]
    /\ faults \in Nat

Init ==
    /\ db = [j \in Jobs |-> Blank("absent")]
    /\ run = [r \in Runs |-> [status |-> "queued", job |-> None, active |-> TRUE]]
    /\ mem = [i \in Instances |-> [j \in Jobs |-> Blank("absent")]]
    /\ queue = [i \in Instances |-> <<>>]
    /\ inst = [i \in Instances |-> "new"]
    /\ todo = [i \in Instances |-> {}]
    /\ worker = [i \in Instances |-> [w \in Workers |-> IdleThread]]
    /\ request = [c \in Clients |-> IdleRequest]
    /\ applied = [j \in Jobs |-> 0]
    /\ claims = [j \in Jobs |-> 0]
    /\ faults = 0

-----------------------------------------------------------------------------
(* A database operation fails: the budget of failures bounds it. *)
Fault == faults < MaxFaults /\ faults' = faults + 1

(* _jobs_lock of a serving instance can be taken: no request thread waits  *)
(* for it while holding it.                                                *)
LockFree(i) ==
    inst[i] = "up" /\ \A c \in Clients : ~(request[c].pc = "blocked" /\ request[c].at = i)

(* The row that _persist_job_snapshot_db writes for a snapshot: only a     *)
(* running or queued row keeps a lease, and the lease of a job the         *)
(* instance runs itself is renewed; result_path has no column.             *)
Stored(i, s) ==
    [s EXCEPT
        !.owner = CASE s.status = "running" -> (IF s.owner = None THEN i ELSE s.owner)
                    [] s.status = "queued" -> s.owner
                    [] OTHER -> None,
        !.fresh = CASE s.status = "running" -> s.owner \in {None, i} \/ s.fresh
                    [] s.status = "queued" -> s.fresh
                    [] OTHER -> FALSE,
        !.path = s.artifact]

(* _persist_job: the snapshot replaces the row, or the write fails and the *)
(* failure is only logged.                                                 *)
Persist(i, j, s) ==
    \/ db' = [db EXCEPT ![j] = Stored(i, s)] /\ UNCHANGED faults
    \/ Fault /\ UNCHANGED db

(* The rows that a starting instance takes over: nobody holds a live lease. *)
RestorableEver(row) == row.status \in Active  \* variant: a live lease is ignored
Restorable(row) == row.status \in Active /\ ~row.fresh

(* The condition of the UPDATE in _claim_job. *)
Claimable(i, row) == row.status = "queued" /\ (row.owner \in {None, i} \/ ~row.fresh)

(* _is_cancel_requested: the record first, then the row. *)
Flagged(r) == r.cancel \/ r.status = "cancelled"
CancelSeen(i, j) == Flagged(mem[i][j]) \/ Flagged(db[j])
CancelUnseenInRow(i, j) ==  \* variant: the record is not asked
    \/ ~Flagged(db[j]) /\ UNCHANGED faults
    \/ Fault
CancelUnseen(i, j) ==
    /\ ~Flagged(mem[i][j])
    /\ \/ ~Flagged(db[j]) /\ UNCHANGED faults
       \/ Fault

ActiveCount(i, kind) ==
    Cardinality({j \in Jobs : Kind[j] = kind /\ mem[i][j].status \in Active})

-----------------------------------------------------------------------------
(* Requests: submit_project_run, submit_final_render, submit_preview_audio, *)
(* submit_review_assignment, cancel_job, get_job                           *)

(* The per-user limit counts jobs of this kind: submit_project_run asks    *)
(* for "generate", the name the kind had before "project_run".             *)
CountedKind(kind) == IF kind = "project_run" THEN "generate" ELSE kind
WithinLimit(i, kind) ==
    Limit[kind] = 0 \/ ActiveCount(i, CountedKind(kind)) < Limit[kind]

(* A job id that was never used, for a run that may get one: a run is      *)
(* submitted once, right after its creation, and the other kinds read the  *)
(* context of an active run first (preview audio checks it in the handler).*)
(* A preview request that equals an earlier one and is answered with the   *)
(* job of that one is no submission, but at most a GetJob or a ReuseRow.   *)
Submittable(i, j) ==
    /\ db[j].status = "absent"
    /\ \A k \in Instances : mem[k][j].status = "absent"
    /\ WithinLimit(i, Kind[j])
    /\ CASE Kind[j] = "project_run" -> /\ run[RunOf[j]].job = None
                                       /\ run[RunOf[j]].status # "failed"
         [] Kind[j] = "preview_audio" -> TRUE
         [] OTHER -> run[RunOf[j]].active

(* The record enters the memory and the table under one lock. *)
Submit(c, i, j) ==
    /\ request[c].pc = "idle" /\ LockFree(i)
    /\ Submittable(i, j)
    /\ mem' = [mem EXCEPT ![i][j] = Blank("queued")]
    /\ db' = [db EXCEPT ![j] = Stored(i, Blank("queued"))]
    /\ request' = [request EXCEPT ![c] =
            [IdleRequest EXCEPT !.pc = IF Kind[j] = "project_run" THEN "accepted" ELSE "attached",
                                !.at = i, !.job = j]]
    /\ UNCHANGED <<run, queue, inst, todo, worker, applied, claims, faults>>

(* mark_generation_run_submission_failed: what the endpoint does when the  *)
(* submission raises.                                                      *)
SubmissionUnknown(r) ==  \* variant: a status generation runs do not have
    run' = [run EXCEPT ![r].status = IF @ = "queued" THEN "error" ELSE @]
SubmissionFailed(r) ==
    run' = [run EXCEPT ![r].status = IF @ = "queued" THEN "failed" ELSE @]

(* The strict persist fails: the record is taken back and the request is   *)
(* answered with 503.  What follows a failed write may fail as well.       *)
SubmitUnsaved(c, i, j) ==
    /\ request[c].pc = "idle" /\ LockFree(i)
    /\ Submittable(i, j) /\ Fault
    /\ \/ Kind[j] = "project_run" /\ SubmissionFailed(RunOf[j])
       \/ UNCHANGED run
    /\ UNCHANGED <<db, mem, queue, inst, todo, worker, request, applied, claims>>

(* attach_job_to_run, whatever became of the run meanwhile. *)
AttachRun(c) ==
    /\ request[c].pc = "accepted"
    /\ run' = [run EXCEPT ![RunOf[request[c].job]] =
            [@ EXCEPT !.job = request[c].job, !.status = "queued"]]
    /\ request' = [request EXCEPT ![c].pc = "attached"]
    /\ UNCHANGED <<db, mem, queue, inst, todo, worker, applied, claims, faults>>

AttachFails(c) ==
    LET i == request[c].at  j == request[c].job IN
    /\ request[c].pc = "accepted" /\ Fault
    /\ mem' = [mem EXCEPT ![i][j].status = "failed"]
    /\ db' = [db EXCEPT ![j] = Stored(i, mem'[i][j])] \/ UNCHANGED db
    /\ SubmissionFailed(RunOf[j]) \/ UNCHANGED run
    /\ request' = [request EXCEPT ![c] = IdleRequest]
    /\ UNCHANGED <<queue, inst, todo, worker, applied, claims>>

Enqueue(c) ==
    /\ request[c].pc = "attached"
    /\ queue' = [queue EXCEPT ![request[c].at] = Append(@, request[c].job)]
    /\ request' = [request EXCEPT ![c] = IdleRequest]
    /\ UNCHANGED <<db, run, mem, inst, todo, worker, applied, claims, faults>>

(* get_job of a job the instance does not know: its row becomes a record,  *)
(* and stays one.                                                          *)
GetJobAgain(i, j) ==  \* variant: the row replaces the record every time
    /\ LockFree(i)
    /\ db[j].status # "absent"
    /\ mem' = [mem EXCEPT ![i][j] = db[j]]
    /\ UNCHANGED <<db, run, queue, inst, todo, worker, request, applied, claims, faults>>

GetJob(i, j) ==
    /\ LockFree(i)
    /\ mem[i][j].status = "absent" /\ db[j].status # "absent"
    /\ mem' = [mem EXCEPT ![i][j] = db[j]]
    /\ UNCHANGED <<db, run, queue, inst, todo, worker, request, applied, claims, faults>>

(* submit_preview_audio of a request that equals an earlier one.  Among    *)
(* the records it reuses one that is active or completed; if there is none *)
(* it asks the table, and the row it finds replaces the record, even one   *)
(* that is over while its row does not say so yet.                         *)
Repeatable(j) == RepeatPreviews /\ Kind[j] = "preview_audio"
ReuseRow(i, j) ==
    /\ Repeatable(j) /\ LockFree(i)
    /\ mem[i][j].status \in {"failed", "cancelled"}
    /\ db[j].status \in Active \/ (db[j].status = "completed" /\ db[j].artifact)
    /\ mem' = [mem EXCEPT ![i][j] = db[j]]
    /\ UNCHANGED <<db, run, queue, inst, todo, worker, request, applied, claims, faults>>

(* The record cancel_job works on. *)
KnownRow(i, j) == db[j]  \* variant: the row, although there is a record
KnownRecord(i, j) == IF mem[i][j].status = "absent" THEN db[j] ELSE mem[i][j]

(* cancel_job of a job that is not over: the flag is set under the lock,   *)
(* the snapshot to persist is taken after it, and written later.           *)
Cancel(c, i, j) ==
    /\ request[c].pc = "idle" /\ LockFree(i)
    /\ KnownRecord(i, j).status \in Active
    /\ mem' = [mem EXCEPT ![i][j] = [KnownRecord(i, j) EXCEPT !.cancel = TRUE]]
    /\ request' = [request EXCEPT ![c] =
            [IdleRequest EXCEPT !.pc = "flagged", !.at = i, !.job = j]]
    /\ UNCHANGED <<db, run, queue, inst, todo, worker, applied, claims, faults>>

SnapCancel(c) ==
    /\ request[c].pc = "flagged"
    /\ request' = [request EXCEPT ![c] =
            [@ EXCEPT !.pc = "snapped", !.snap = mem[request[c].at][request[c].job]]]
    /\ UNCHANGED <<db, run, mem, queue, inst, todo, worker, applied, claims, faults>>

PersistCancel(c) ==
    /\ request[c].pc = "snapped"
    /\ Persist(request[c].at, request[c].job, request[c].snap)
    /\ request' = [request EXCEPT ![c] = IdleRequest]
    /\ UNCHANGED <<run, mem, queue, inst, todo, worker, applied, claims>>

(* cancel_job of a job that is over: the early return asks for the public  *)
(* payload inside the `with _jobs_lock` block, which takes the same        *)
(* non-reentrant lock again.                                               *)
CancelTerminal(c, i, j) ==
    /\ CancelFinished
    /\ request[c].pc = "idle" /\ LockFree(i)
    /\ KnownRecord(i, j).status \in Terminal
    /\ mem' = [mem EXCEPT ![i][j] = KnownRecord(i, j)]
    /\ request' = [request EXCEPT ![c] =
            [IdleRequest EXCEPT !.pc = "blocked", !.at = i, !.job = j]]
    /\ UNCHANGED <<db, run, queue, inst, todo, worker, applied, claims, faults>>

ClientStep(c) ==
    \/ \E i \in Instances, j \in Jobs :
          \/ Submit(c, i, j)
          \/ SubmitUnsaved(c, i, j)
          \/ Cancel(c, i, j)
          \/ CancelTerminal(c, i, j)
    \/ AttachRun(c)
    \/ AttachFails(c)
    \/ Enqueue(c)
    \/ SnapCancel(c)
    \/ PersistCancel(c)

-----------------------------------------------------------------------------
(* Worker threads: _worker_loop and the handlers                           *)

Move(i, w, pc) == worker' = [worker EXCEPT ![i][w].pc = pc]
Resume(i, w, pc) ==
    worker' = [worker EXCEPT ![i][w] = [@ EXCEPT !.pc = pc, !.snap = Blank("absent")]]
Rest(i, w) == worker' = [worker EXCEPT ![i][w] = IdleThread]

(* _update_job and _mark_cancelled: the record changes under the lock and  *)
(* the thread leaves it with a snapshot to persist.  An update would leave *)
(* a cancelled record alone, but only the thread that runs the job cancels *)
(* its record, so no update ever finds one (RecordFollowsThread).          *)
Update(i, w, rec, pc, left) ==
    LET j == worker[i][w].job IN
    /\ LockFree(i)
    /\ mem' = [mem EXCEPT ![i][j] = rec]
    /\ worker' = [worker EXCEPT ![i][w] = [pc |-> pc, job |-> j, snap |-> rec, left |-> left]]

RecordOf(i, w) == mem[i][worker[i][w].job]

Take(i, w) ==
    /\ inst[i] = "up" /\ worker[i][w].pc = "idle" /\ queue[i] # <<>>
    /\ worker' = [worker EXCEPT ![i][w] =
            [IdleThread EXCEPT !.pc = "taken", !.job = Head(queue[i])]]
    /\ queue' = [queue EXCEPT ![i] = Tail(@)]
    /\ UNCHANGED <<db, run, mem, inst, todo, request, applied, claims, faults>>

(* _claim_job: the compare-and-set on the row. *)
Claim(i, w) ==
    LET j == worker[i][w].job IN
    /\ worker[i][w].pc = "taken" /\ Claimable(i, db[j])
    /\ db' = [db EXCEPT ![j] = [@ EXCEPT !.status = "running", !.owner = i, !.fresh = TRUE]]
    /\ claims' = [claims EXCEPT ![j] = @ + 1]
    /\ Move(i, w, "claimed")
    /\ UNCHANGED <<run, mem, queue, inst, todo, request, applied, faults>>

ClaimLost(i, w) ==
    /\ worker[i][w].pc = "taken" /\ ~Claimable(i, db[worker[i][w].job])
    /\ Rest(i, w)
    /\ UNCHANGED <<db, run, mem, queue, inst, todo, request, applied, claims, faults>>

ClaimRecord(i, w) ==
    LET j == worker[i][w].job IN
    /\ worker[i][w].pc = "claimed" /\ LockFree(i)
    /\ mem' = [mem EXCEPT ![i][j] = [@ EXCEPT !.status = "running", !.owner = i, !.fresh = TRUE]]
    /\ worker' = [worker EXCEPT ![i][w] = [@ EXCEPT !.pc = "begin", !.left = MaxReports]]
    /\ UNCHANGED <<db, run, queue, inst, todo, request, applied, claims, faults>>

(* Preview audio publishes its result inside build_audio_preview, and      *)
(* looks for a cancel request once more before it says so.                 *)
Rechecks(j) == Kind[j] = "preview_audio"

(* A cancel check that passes: before an update of the handler or of its   *)
(* callbacks, before the result is published, and after that if the kind   *)
(* checks again.                                                           *)
CheckPasses(i, w) ==
    /\ worker[i][w].pc \in {"begin", "work", "applied"} /\ LockFree(i)
    /\ CancelUnseen(i, worker[i][w].job)
    /\ \/ worker[i][w].pc = "begin" /\ Move(i, w, "entered")
       \/ /\ worker[i][w].pc = "work" /\ worker[i][w].left > 0
          /\ worker' = [worker EXCEPT ![i][w].pc = "entered", ![i][w].left = @ - 1]
       \/ worker[i][w].pc = "work" /\ Move(i, w, "commit")
       \/ worker[i][w].pc = "applied" /\ Rechecks(worker[i][w].job) /\ Move(i, w, "rechecked")
    /\ UNCHANGED <<db, run, mem, queue, inst, todo, request, applied, claims>>

(* The handler's first update, and those of _report_progress and           *)
(* _report_partial_result, each after a check that passed.  The check after *)
(* an update is the check before the next step.                            *)
Report(i, w) ==
    /\ worker[i][w].pc = "entered"
    /\ Update(i, w, [RecordOf(i, w) EXCEPT !.status = "running"], "persist", worker[i][w].left)
    /\ UNCHANGED <<db, run, queue, inst, todo, request, applied, claims, faults>>

(* JobCancelledError: _mark_cancelled. *)
StopLate(i, w) ==  \* variant: one more check, after the publication
    /\ worker[i][w].pc \in {"begin", "work", "applied"}
    /\ CancelSeen(i, worker[i][w].job)
    /\ Update(i, w, [RecordOf(i, w) EXCEPT !.status = "cancelled", !.cancel = TRUE], "persist", 0)
    /\ UNCHANGED <<db, run, queue, inst, todo, request, applied, claims, faults>>

Stop(i, w) ==
    /\ \/ worker[i][w].pc \in {"begin", "work"}
       \/ worker[i][w].pc = "applied" /\ Rechecks(worker[i][w].job)
    /\ CancelSeen(i, worker[i][w].job)
    /\ Update(i, w, [RecordOf(i, w) EXCEPT !.status = "cancelled", !.cancel = TRUE], "persist", 0)
    /\ UNCHANGED <<db, run, queue, inst, todo, request, applied, claims, faults>>

(* The result is published: apply_generated_result and its counterparts of *)
(* the other kinds, which refuse a run that is no longer the active one.   *)
Publishable(j) ==
    /\ run[RunOf[j]].active
    /\ Kind[j] = "project_run" =>
            run[RunOf[j]].status \notin {"superseded", "failed", "cancelled"}

Apply(i, w) ==
    LET j == worker[i][w].job IN
    /\ worker[i][w].pc = "commit" /\ Publishable(j)
    /\ applied' = [applied EXCEPT ![j] = @ + 1]
    /\ Move(i, w, "applied")
    /\ UNCHANGED <<db, run, mem, queue, inst, todo, request, claims, faults>>

(* A handler raises: on its way, because the result was refused, or after  *)
(* it was applied, in confirm_review_stage (generation run) or because the *)
(* manifest of the artifact cannot be published (video and audio).  A      *)
(* failing claim raises as well.                                           *)
FailUnsaved(i, w) ==  \* variant: the failure is not persisted
    /\ worker[i][w].pc \in {"entered", "work", "commit"}
    /\ Update(i, w, [RecordOf(i, w) EXCEPT !.status = "failed"], "sync", 0)
    /\ UNCHANGED <<db, run, queue, inst, todo, request, applied, claims, faults>>

FailSilently(i, w) ==  \* variant: the thread drops a job that raised
    /\ worker[i][w].pc \in {"entered", "work", "commit"}
    /\ Rest(i, w)
    /\ UNCHANGED <<db, run, mem, queue, inst, todo, request, applied, claims, faults>>

Fail(i, w) ==
    LET j == worker[i][w].job IN
    /\ \/ worker[i][w].pc \in {"entered", "work", "commit"} /\ UNCHANGED faults
       \/ worker[i][w].pc = "applied" /\ Kind[j] # "review_assignment" /\ UNCHANGED faults
       \/ worker[i][w].pc = "taken" /\ Fault
    /\ Update(i, w, [RecordOf(i, w) EXCEPT !.status = "failed"], "persist", 0)
    /\ UNCHANGED <<db, run, queue, inst, todo, request, applied, claims>>

(* _update_job(completed).  Preview audio has set result_artifact_id by    *)
(* now; the other handlers set it afterwards (Attach).                     *)
CompleteEarly(i, w) ==  \* variant: completed before the result is published
    /\ worker[i][w].pc \in {"commit", "applied"}
    /\ Update(i, w, [RecordOf(i, w) EXCEPT !.status = "completed", !.path = TRUE], "persist", 0)
    /\ UNCHANGED <<db, run, queue, inst, todo, request, applied, claims, faults>>

Complete(i, w) ==
    /\ \/ worker[i][w].pc = "applied" /\ ~Rechecks(worker[i][w].job)
       \/ worker[i][w].pc = "rechecked"
    /\ Update(i, w, [RecordOf(i, w) EXCEPT
                        !.status = "completed", !.path = TRUE,
                        !.artifact = @ \/ Rechecks(worker[i][w].job)],
              "persist", 0)
    /\ UNCHANGED <<db, run, queue, inst, todo, request, applied, claims, faults>>

(* _persist_job, outside the lock.  A running job goes on with the status  *)
(* of its run, or directly with its work when it reported a partial        *)
(* result; a cancelled one is over without telling its run.                *)
PersistRecord(i, w) ==
    LET t == worker[i][w] IN
    /\ t.pc \in {"persist", "persistResult"}
    /\ Persist(i, t.job, t.snap)
    /\ \/ /\ t.pc = "persistResult" \/ t.snap.status = "cancelled"
          /\ Rest(i, w)
       \/ /\ t.pc = "persist" /\ t.snap.status # "cancelled"
          /\ Move(i, w, "sync")
       \/ /\ t.pc = "persist" /\ t.snap.status = "running"
          /\ Resume(i, w, "work")
    /\ UNCHANGED <<run, mem, queue, inst, todo, request, applied, claims>>

(* _sync_generation_run_status: whatever status the run has by now. *)
SyncRunOnce(i, w) ==  \* variant: only a queued run follows its job
    LET t == worker[i][w] IN
    /\ t.pc = "sync"
    /\ run' = [r \in Runs |-> IF run[r].job = t.job /\ run[r].status = "queued"
                              THEN [run[r] EXCEPT !.status = t.snap.status]
                              ELSE run[r]]
    /\ CASE t.snap.status = "running" -> Resume(i, w, "work")
         [] t.snap.status = "completed" /\ Kind[t.job] # "preview_audio" -> Resume(i, w, "attach")
         [] OTHER -> Rest(i, w)
    /\ UNCHANGED <<db, mem, queue, inst, todo, request, applied, claims, faults>>

SyncRun(i, w) ==
    LET t == worker[i][w] IN
    /\ t.pc = "sync"
    /\ \/ /\ run' = [r \in Runs |-> IF run[r].job = t.job
                                    THEN [run[r] EXCEPT !.status = t.snap.status]
                                    ELSE run[r]]
          /\ UNCHANGED faults
       \/ Fault /\ UNCHANGED run
    /\ CASE t.snap.status = "running" -> Resume(i, w, "work")
         [] t.snap.status = "completed" /\ Kind[t.job] # "preview_audio" -> Resume(i, w, "attach")
         [] OTHER -> Rest(i, w)
    /\ UNCHANGED <<db, mem, queue, inst, todo, request, applied, claims>>

(* result_artifact_id enters the record, in a lock block of its own. *)
Attach(i, w) ==
    /\ worker[i][w].pc = "attach"
    /\ Update(i, w, [RecordOf(i, w) EXCEPT !.artifact = TRUE], "persistResult", 0)
    /\ UNCHANGED <<db, run, queue, inst, todo, request, applied, claims, faults>>

WorkerStep(i, w) ==
    \/ Take(i, w)
    \/ Claim(i, w)
    \/ ClaimLost(i, w)
    \/ ClaimRecord(i, w)
    \/ CheckPasses(i, w)
    \/ Report(i, w)
    \/ Stop(i, w)
    \/ Apply(i, w)
    \/ Fail(i, w)
    \/ Complete(i, w)
    \/ PersistRecord(i, w)
    \/ SyncRun(i, w)
    \/ Attach(i, w)

-----------------------------------------------------------------------------
(* Life of an instance: JobManager.start, _restore_pending_project_runs    *)

Alive == {i \in Instances : inst[i] \in {"restoring", "up"}}

(* A new instance selects the rows that nobody holds, or starts without    *)
(* them if the query fails.                                                *)
Start(i) ==
    /\ inst[i] = "new" /\ Cardinality(Alive) < MaxAlive
    /\ inst' = [inst EXCEPT ![i] = "restoring"]
    /\ \/ /\ todo' = [todo EXCEPT ![i] = {<<j, db[j]>> : j \in {k \in Jobs : Restorable(db[k])}}]
          /\ UNCHANGED faults
       \/ UNCHANGED todo /\ Fault
    /\ UNCHANGED <<db, run, mem, queue, worker, request, applied, claims>>

(* The record made of a selected row.  Its retry count and its cancel flag *)
(* are those of the selected row, not of the row as it is by now.          *)
RestoredUncounted(i, row) ==  \* variant: the retry is not counted
    [row EXCEPT !.status = IF row.cancel THEN "cancelled" ELSE "queued",
                !.owner = i, !.fresh = TRUE, !.path = FALSE]
RestoredRecord(i, row) ==
    LET retry == row.retry + (IF row.status = "running" THEN 1 ELSE 0) IN
    [row EXCEPT !.status = CASE row.cancel -> "cancelled"
                             [] ~row.cancel /\ retry > MaxRetries -> "failed"
                             [] OTHER -> "queued",
                !.retry = retry, !.owner = i, !.fresh = TRUE, !.path = FALSE]

(* The compare-and-set that takes a selected row over. *)
TakenOver(i, j) == [db[j] EXCEPT !.status = "queued", !.owner = i, !.fresh = TRUE]

(* One row: taken over, made a record, persisted, and enqueued unless it   *)
(* was cancelled or retried too often.  Nobody else can use the instance   *)
(* yet; what a death in between leaves behind is CrashInRestore, and a     *)
(* takeover that raises ends the start: it is a death as well.             *)
RestoreUnqueued(i, e) ==  \* variant: the record is not put into the queue
    LET j == e[1]  rec == RestoredRecord(i, e[2]) IN
    /\ inst[i] = "restoring" /\ Restorable(db[j])
    /\ mem' = [mem EXCEPT ![i][j] = rec]
    /\ db' = [db EXCEPT ![j] = Stored(i, rec)]
    /\ todo' = [todo EXCEPT ![i] = @ \ {e}]
    /\ UNCHANGED <<run, queue, inst, worker, request, applied, claims, faults>>

RestoreJob(i, e) ==
    LET j == e[1]  rec == RestoredRecord(i, e[2]) IN
    /\ inst[i] = "restoring" /\ Restorable(db[j])
    /\ mem' = [mem EXCEPT ![i][j] = rec]
    /\ \/ db' = [db EXCEPT ![j] = Stored(i, rec)] /\ UNCHANGED faults
       \/ db' = [db EXCEPT ![j] = TakenOver(i, j)] /\ Fault
    /\ queue' = IF rec.status = "queued" THEN [queue EXCEPT ![i] = Append(@, j)] ELSE queue
    /\ todo' = [todo EXCEPT ![i] = @ \ {e}]
    /\ UNCHANGED <<run, inst, worker, request, applied, claims>>

(* Somebody else took the row over in the meantime. *)
RestoreLost(i, e) ==
    /\ inst[i] = "restoring" /\ ~Restorable(db[e[1]])
    /\ todo' = [todo EXCEPT ![i] = @ \ {e}]
    /\ UNCHANGED <<db, run, mem, queue, inst, worker, request, applied, claims, faults>>

(* All rows are restored: the workers start and requests are served. *)
Serve(i) ==
    /\ inst[i] = "restoring" /\ todo[i] = {}
    /\ inst' = [inst EXCEPT ![i] = "up"]
    /\ UNCHANGED <<db, run, mem, queue, todo, worker, request, applied, claims, faults>>

RestoreStep(i) ==
    \/ \E e \in todo[i] : RestoreJob(i, e) \/ RestoreLost(i, e)
    \/ Serve(i)

(* The process dies: memory, queue and threads are gone, the tables stay. *)
Die(i) ==
    /\ inst' = [inst EXCEPT ![i] = "down"]
    /\ mem' = [mem EXCEPT ![i] = [j \in Jobs |-> Blank("absent")]]
    /\ queue' = [queue EXCEPT ![i] = <<>>]
    /\ todo' = [todo EXCEPT ![i] = {}]
    /\ worker' = [worker EXCEPT ![i] = [w \in Workers |-> IdleThread]]
    /\ request' = [c \in Clients |-> IF request[c].at = i THEN IdleRequest ELSE request[c]]

MayCrash == Cardinality({i \in Instances : inst[i] = "down"}) < MaxCrashes

Crash(i) ==
    /\ MayCrash
    /\ \/ inst[i] = "up"
       \/ inst[i] = "restoring" /\ CrashWhileRestoring
    /\ Die(i)
    /\ UNCHANGED <<db, run, applied, claims, faults>>

(* ... after it took a row over and before it persisted the record. *)
CrashInRestore(i, e) ==
    /\ MayCrash /\ CrashWhileRestoring
    /\ inst[i] = "restoring" /\ Restorable(db[e[1]])
    /\ db' = [db EXCEPT ![e[1]] = TakenOver(i, e[1])]
    /\ Die(i)
    /\ UNCHANGED <<run, applied, claims, faults>>

-----------------------------------------------------------------------------
(* What happens around the job manager                                     *)

(* A thread is past its claim of the job and not yet back in the queue. *)
Executes(i, w, j) ==
    worker[i][w].job = j /\ worker[i][w].pc \notin {"idle", "taken"}

(* Time passes: the lease on a row is over, in the records too. *)
LeaseExpires(j) ==
    /\ db[j].fresh
    /\ LeaseCoversRun => \A i \in Instances, w \in Workers : ~Executes(i, w, j)
    /\ db' = [db EXCEPT ![j].fresh = FALSE]
    /\ mem' = [i \in Instances |-> [mem[i] EXCEPT ![j].fresh = FALSE]]
    /\ UNCHANGED <<run, queue, inst, todo, worker, request, applied, claims, faults>>

(* create_generation_run_v2 for the same project, or save_source_pdf: the  *)
(* run is no longer the active one and its jobs are asked to stop.         *)
Supersede(r) ==
    /\ run[r].active
    /\ run' = [run EXCEPT ![r] =
            [job |-> @.job, active |-> FALSE,
             status |-> IF @.status \in {"queued", "running", "completed"}
                        THEN "superseded" ELSE @.status]]
    /\ db' = [j \in Jobs |-> IF RunOf[j] = r /\ db[j].status \in Active
                             THEN [db[j] EXCEPT !.cancel = TRUE] ELSE db[j]]
    /\ UNCHANGED <<mem, queue, inst, todo, worker, request, applied, claims, faults>>

-----------------------------------------------------------------------------
Next ==
    \/ \E c \in Clients : ClientStep(c)
    \/ \E i \in Instances, j \in Jobs : GetJob(i, j) \/ ReuseRow(i, j)
    \/ \E i \in Instances, w \in Workers : WorkerStep(i, w)
    \/ \E i \in Instances : Start(i) \/ RestoreStep(i) \/ Crash(i)
    \/ \E i \in Instances : \E e \in todo[i] : CrashInRestore(i, e)
    \/ \E j \in Jobs : LeaseExpires(j)
    \/ \E r \in Runs : Supersede(r)

Spec == Init /\ [][Next]_vars

-----------------------------------------------------------------------------
(* Properties                                                              *)

(* All the copies of a job: its row, its records and the snapshots that    *)
(* threads have taken of it.                                               *)
Copies(j) ==
    {db[j]} \cup {mem[i][j] : i \in Instances}
    \cup (UNION {{worker[i][w].snap : w \in {v \in Workers : worker[i][v].job = j}} :
               i \in Instances})
    \cup {request[c].snap : c \in {d \in Clients : request[d].job = j}}
    \cup {e[2] : e \in {x \in UNION {todo[i] : i \in Instances} : x[1] = j}}

(* No copy of a job says that it completed unless its result has been      *)
(* published, whatever is restored, cancelled or persisted late.           *)
CompletedIsPublished ==
    \A j \in Jobs : \A r \in Copies(j) : r.status = "completed" => applied[j] > 0

(* A thread executes the job and has not got to its end. *)
WorksOn(i, w, j) == Executes(i, w, j) /\ worker[i][w].snap.status \notin Terminal

(* Two threads never execute the same job, in one instance or in two, as   *)
(* long as a lease outlives the execution it was taken for: what           *)
(* _claim_job and the restore are for.                                     *)
OneExecution ==
    \A x, y \in Instances \X Workers, j \in Jobs :
        WorksOn(x[1], x[2], j) /\ WorksOn(y[1], y[2], j) => x = y

(* The same of the jobs that nobody has asked to stop: only the snapshot   *)
(* of a cancel request can give a claimed job back to the queue.           *)
OneExecutionUnlessCancelled ==
    \A x, y \in Instances \X Workers, j \in Jobs :
        WorksOn(x[1], x[2], j) /\ WorksOn(y[1], y[2], j) =>
            x = y \/ \E r \in Copies(j) : r.cancel

(* While a handler runs, the record of its job is running and leased to    *)
(* this instance: cancel requests, restores and other threads never move   *)
(* it, which is why an update never finds a cancelled record.              *)
RecordFollowsThread ==
    \A i \in Instances, w \in Workers :
        worker[i][w].pc \in {"begin", "entered", "work", "commit", "applied", "rechecked"} =>
            RecordOf(i, w).status = "running" /\ RecordOf(i, w).owner = i

(* As long as the process lives, a job that ended as cancelled has         *)
(* published nothing, except for the audio of a preview: no cancel check   *)
(* comes after the publication.                                            *)
CancelledIsUnpublished ==
    \A j \in Jobs : \A r \in Copies(j) :
        r.status = "cancelled" /\ applied[j] > 0 => Kind[j] = "preview_audio"

(* No thread of any instance has anything left to do for the job. *)
Handles(i, j) ==
    \/ \E n \in 1..Len(queue[i]) : queue[i][n] = j
    \/ \E w \in Workers : worker[i][w].job = j
    \/ \E c \in Clients : request[c].at = i /\ request[c].job = j /\ request[c].pc # "blocked"
    \/ \E e \in todo[i] : e[1] = j
Quiet(j) == \A i \in Instances : ~Handles(i, j)

(* What a quiet job looks like in memory and in the table: the same.       *)
RowAgreesWithRecord ==
    \A i \in Instances, j \in Jobs :
        inst[i] = "up" /\ Quiet(j) => db[j].status = mem[i][j].status

(* The same of the jobs nobody asked to cancel.                            *)
UncancelledRowAgrees ==
    \A i \in Instances, j \in Jobs :
        inst[i] = "up" /\ Quiet(j) /\ ~mem[i][j].cancel => db[j].status = mem[i][j].status

(* The run of a generation job that ended by itself ends with it, unless   *)
(* a newer run or another PDF has superseded it.                           *)
RunFollowsJob ==
    \A i \in Instances, j \in Jobs :
        Quiet(j) /\ run[RunOf[j]].job = j /\ mem[i][j].status \in {"completed", "failed"} =>
            run[RunOf[j]].status \in {mem[i][j].status, "superseded"}

(* A living instance that holds the lease of a job works on it: a job that *)
(* nobody asked to cancel is never locked away by a process that forgot it *)
(* - unless its request is repeated, which can erase that it was cancelled.*)
LeaseIsServed ==
    \A i \in Instances, j \in Jobs :
        inst[i] = "up" /\ db[j].owner = i /\ db[j].fresh /\ ~db[j].cancel /\ ~Repeatable(j) =>
            Handles(i, j)

(* The retry limit: a job is executed once, and again at most MaxRetries   *)
(* times.                                                                  *)
ExecutionsBounded == \A j \in Jobs : claims[j] <= MaxRetries + 1

(* The limit of active jobs, of the kind submit_project_run enforces it    *)
(* for.                                                                    *)
ProjectRunsWithinLimit ==
    \A i \in Instances :
        Limit["project_run"] > 0 => ActiveCount(i, "project_run") <= Limit["project_run"]

(* What get_job answers for a completed job includes its result.           *)
CompletedIncludesResult ==
    \A i \in Instances, j \in Jobs : mem[i][j].status = "completed" => mem[i][j].path

(* A record that is over stays as it ended while its instance lives.       *)
RecordStaysFinished ==
    [][\A i \in Instances, j \in Jobs :
          mem[i][j].status \in Terminal /\ inst'[i] = "up" =>
              mem'[i][j].status = mem[i][j].status]_vars

(* A request to stop that is in the table stays there until the job ends.  *)
CancelRequestIsKept ==
    [][\A j \in Jobs :
          db[j].cancel /\ db[j].status \in Active =>
              db'[j].cancel \/ db'[j].status \in Terminal]_vars

-----------------------------------------------------------------------------
(* Fairness: threads are scheduled, a starting instance gets through its   *)
(* restore.  Clients need not ask for anything, but a request that is      *)
(* being served goes on.                                                   *)
Serving(c) ==
    AttachRun(c) \/ AttachFails(c) \/ Enqueue(c) \/ SnapCancel(c) \/ PersistCancel(c)
Fairness ==
    /\ \A i \in Instances, w \in Workers : WF_vars(WorkerStep(i, w))
    /\ \A c \in Clients : WF_vars(Serving(c))
    /\ \A i \in Instances : WF_vars(Start(i)) /\ WF_vars(RestoreStep(i))
    /\ \A j \in Jobs : WF_vars(LeaseExpires(j))

FairSpec == Spec /\ Fairness

(* Every accepted job ends, in a process that stays up.                    *)
JobEnds ==
    \A i \in Instances, j \in Jobs :
        mem[i][j].status = "queued" ~> mem[i][j].status \in Terminal

(* A job that is cancelled while it waits in the queue ends as cancelled.  *)
QueuedCancelTakesEffect ==
    \A i \in Instances, j \in Jobs :
        mem[i][j].status = "queued" /\ mem[i][j].cancel ~> mem[i][j].status = "cancelled"

(* A cancel request is answered. *)
CancelIsAnswered ==
    \A c \in Clients : request[c].pc \in {"flagged", "snapped", "blocked"} ~> request[c].pc = "idle"

(* A job that was accepted ends, even if its process dies and another one  *)
(* is started.                                                             *)
JobEndsAfterRestart ==
    \A j \in Jobs : db[j].status \in Active ~> db[j].status \in Terminal

(* The promise to the clients of a single process that does not die.       *)
TheInstance == CHOOSE i \in Instances : TRUE
Life == INSTANCE JobLifecycle WITH
            Rechecked <- {j \in Jobs : Rechecks(j)},
            status <- [j \in Jobs |-> mem[TheInstance][j].status],
            published <- applied
ImplementsLifecycle == Life!Spec
=============================================================================
