---------------------------- MODULE JobGuarantees ----------------------------
(***************************************************************************)
(* What the job manager guarantees, proved from the invariant of the       *)
(* threads (TInv, JobSteps):                                               *)
(*                                                                         *)
(*   a record that is over stays as it ended                               *)
(*   in one process, what ended as cancelled is unpublished, and without   *)
(*     faults the row and the generation run agree with the record (OInv)  *)
(*   in one process, every step is one of JobLifecycle or stutters         *)
(*   a job nobody asks to cancel is executed once at a time (Leased,       *)
(*     Single), by any number of processes, and any job is, as long as no  *)
(*     process dies and no record says that it was asked to (CancelKept)   *)
(*   a job is executed at most MaxRetries times again (CInv)               *)
(*   a living process works on the jobs whose lease it holds (DInv)        *)
(***************************************************************************)
EXTENDS JobSteps, FiniteSetTheorems

-----------------------------------------------------------------------------
(* A record that is over.                                                  *)

LEMMA FinishedByClient ==
    ASSUME RepeatPreviews = FALSE, IInv, TInv, NEW c \in Clients, ClientStep(c),
           NEW i \in Instances, NEW j \in Jobs, mem[i][j].status \in Terminal
    PROVE  mem'[i][j].status = mem[i][j].status
<1>1. mem[i][j].status \notin {"absent", "queued", "running"}
  BY DEF Terminal
<1>2. ASSUME NEW k \in Instances, NEW l \in Jobs, Submit(c, k, l)
      PROVE  mem'[i][j].status = mem[i][j].status
  <2>1. PICK r \in Record : MemIs(k, l, r)
    BY <1>2, SubmitStep
  <2>2. mem[k][l].status = "absent"
    BY <1>2, SubmitStep
  <2>. QED
    BY <1>1, <2>1, <2>2 DEF MemIs
<1>3. ASSUME NEW k \in Instances, NEW l \in Jobs, Cancel(c, k, l)
      PROVE  mem'[i][j].status = mem[i][j].status
  <2>1. PICK r \in Record :
           /\ MemIs(k, l, r)
           /\ Fields(r, KnownRecord(k, l).status, TRUE, KnownRecord(k, l).retry,
                        KnownRecord(k, l).owner, KnownRecord(k, l).fresh)
    BY <1>3, CancelStep
  <2>2. KnownRecord(k, l).status \in Active
    BY <1>3, CancelStep
  <2>. QED
    BY <1>1, <2>1, <2>2 DEF MemIs, KnownRecord, Fields
<1>4. ASSUME NEW k \in Instances, NEW l \in Jobs, CancelTerminal(c, k, l)
      PROVE  mem'[i][j].status = mem[i][j].status
  BY <1>1, <1>4, CancelTerminalStep DEF MemIs, KnownRecord
<1>5. ASSUME AttachFails(c)
      PROVE  mem'[i][j].status = mem[i][j].status
  <2>1. Handing(c, request[c].at, request[c].job)
        /\ request[c].at \in Instances /\ request[c].job \in Jobs
    BY <1>5, AttachFailsStep DEF Handing
  <2>2. mem[request[c].at][request[c].job].status = "queued"
    BY <2>1 DEF TInv, Waiting, Waits
  <2>. QED
    BY <1>1, <1>5, <2>1, <2>2, AttachFailsStep DEF MemIs
<1>6. CASE UNCHANGED mem
  BY <1>6
<1>7. \/ \E k \in Instances, l \in Jobs : Submit(c, k, l) \/ Cancel(c, k, l) \/ CancelTerminal(c, k, l)
      \/ AttachFails(c)
      \/ UNCHANGED mem
  BY DEF ClientStep, SubmitUnsaved, AttachRun, Enqueue, SnapCancel, PersistCancel
<1>. QED
  BY <1>2, <1>3, <1>4, <1>5, <1>6, <1>7

LEMMA FinishedByWorker ==
    ASSUME IInv, TInv, NEW k \in Instances, NEW w \in Workers, WorkerStep(k, w),
           NEW i \in Instances, NEW j \in Jobs, mem[i][j].status \in Terminal
    PROVE  mem'[i][j].status = mem[i][j].status
<1>. DEFINE l == worker[k][w].job
<1>1. mem[i][j].status \notin {"queued", "running"}
  BY DEF Terminal
<1>2. ASSUME worker[k][w].pc \in Running \cup {"taken", "claimed"}
      PROVE  mem[k][l].status \in {"queued", "running"} /\ l \in Jobs
  BY <1>2, BusyTypes DEF TInv, Waiting, Waits, Held, RunsOn, RecordOf, Running
<1>3. CASE ClaimRecord(k, w)
  <2>1. worker[k][w].pc = "claimed" /\ \E r \in Record : MemIs(k, l, r)
    BY <1>3, ClaimRecordStep
  <2>. QED
    BY <1>1, <1>2, <2>1 DEF MemIs
<1>4. CASE Report(k, w)
  <2>1. worker[k][w].pc \in Running \cup {"taken"} /\ \E r \in Record : MemIs(k, l, r)
    BY <1>4, ReportStep DEF Updates, Running
  <2>. QED
    BY <1>1, <1>2, <2>1 DEF MemIs
<1>5. CASE Stop(k, w)
  <2>1. worker[k][w].pc \in Running \cup {"taken"} /\ \E r \in Record : MemIs(k, l, r)
    BY <1>5, StopStep DEF Updates, Running
  <2>. QED
    BY <1>1, <1>2, <2>1 DEF MemIs
<1>6. CASE Fail(k, w)
  <2>1. worker[k][w].pc \in Running \cup {"taken"} /\ \E r \in Record : MemIs(k, l, r)
    BY <1>6, FailStep DEF Updates, Running
  <2>. QED
    BY <1>1, <1>2, <2>1 DEF MemIs
<1>7. CASE Complete(k, w)
  <2>1. worker[k][w].pc \in Running \cup {"taken"} /\ \E r \in Record : MemIs(k, l, r)
    BY <1>7, CompleteStep DEF Updates, Running
  <2>. QED
    BY <1>1, <1>2, <2>1 DEF MemIs
<1>8. CASE Attach(k, w)
  BY <1>8, AttachStep DEF MemIs, Updates, Fields, RecordOf
<1>9. CASE UNCHANGED mem
  BY <1>9
<1>10. \/ ClaimRecord(k, w) \/ Report(k, w) \/ Stop(k, w) \/ Fail(k, w) \/ Complete(k, w)
       \/ Attach(k, w) \/ UNCHANGED mem
  BY DEF WorkerStep, Take, Claim, ClaimLost, CheckPasses, Apply, PersistRecord, SyncRun
<1>. QED
  BY <1>3, <1>4, <1>5, <1>6, <1>7, <1>8, <1>9, <1>10

LEMMA FinishedStays ==
    ASSUME RepeatPreviews = FALSE, IInv, TInv, [Next]_vars,
           NEW i \in Instances, NEW j \in Jobs, mem[i][j].status \in Terminal, inst'[i] = "up"
    PROVE  mem'[i][j].status = mem[i][j].status
<1>1. CASE UNCHANGED mem
  BY <1>1
<1>2. ASSUME NEW c \in Clients, ClientStep(c)
      PROVE  mem'[i][j].status = mem[i][j].status
  BY <1>2, FinishedByClient
<1>3. ASSUME NEW k \in Instances, NEW l \in Jobs, GetJob(k, l) \/ ReuseRow(k, l)
      PROVE  mem'[i][j].status = mem[i][j].status
  <2>1. ~Repeatable(l)
    BY DEF Repeatable
  <2>. QED
    BY <1>3, <2>1, ReadRowStep DEF MemIs, Terminal
<1>4. ASSUME NEW k \in Instances, NEW w \in Workers, WorkerStep(k, w)
      PROVE  mem'[i][j].status = mem[i][j].status
  BY <1>4, FinishedByWorker
<1>5. ASSUME NEW k \in Instances, NEW e \in todo[k], RestoreJob(k, e)
      PROVE  mem'[i][j].status = mem[i][j].status
  <2>1. k # i
    BY <1>5, RestoreJobStep
  <2>2. \E r \in Record : MemIs(k, e[1], r)
    BY <1>5, RestoreJobStep
  <2>. QED
    BY <2>1, <2>2 DEF MemIs
<1>6. ASSUME NEW k \in Instances, DeadIs(k)
      PROVE  mem'[i][j].status = mem[i][j].status
  BY <1>6 DEF DeadIs
<1>7. ASSUME NEW l \in Jobs, LeaseExpires(l)
      PROVE  mem'[i][j].status = mem[i][j].status
  BY <1>7, LeaseExpiresStep DEF Fields
<1>8. ASSUME NEW k \in Instances, Start(k) \/ RestoreStep(k) \/ Crash(k)
      PROVE  mem'[i][j].status = mem[i][j].status
  BY <1>1, <1>5, <1>6, <1>8, CrashStep DEF Start, RestoreStep, RestoreLost, Serve
<1>9. ASSUME NEW k \in Instances, NEW e \in todo[k], CrashInRestore(k, e)
      PROVE  mem'[i][j].status = mem[i][j].status
  BY <1>6, <1>9, CrashInRestoreStep
<1>10. ASSUME NEW r \in Runs, Supersede(r)
       PROVE  mem'[i][j].status = mem[i][j].status
  BY <1>10, SupersedeStep
<1>. QED
  BY <1>1, <1>2, <1>3, <1>4, <1>7, <1>8, <1>9, <1>10 DEF Next, vars

(* A record that is over stays as it ended while its instance lives: only  *)
(* a preview request that is repeated may replace it by an older row.      *)
THEOREM FinishedRecordsStay ==
    ASSUME RepeatPreviews = FALSE
    PROVE  Spec => RecordStaysFinished
<1>1. (IInv /\ TInv) /\ [Next]_vars =>
         [\A i \in Instances, j \in Jobs :
             mem[i][j].status \in Terminal /\ inst'[i] = "up" =>
                 mem'[i][j].status = mem[i][j].status]_vars
  BY FinishedStays
<1>. QED
  BY <1>1, TInvariance, PTL DEF Spec, RecordStaysFinished

-----------------------------------------------------------------------------
(* One process, as the service is deployed: p is the only instance.        *)

(* Before it serves, there is no job; while it is up, it knows every job.  *)
Whole(p) ==
    /\ inst[p] \in {"new", "restoring"} =>
          todo[p] = {} /\ \A j \in Jobs : db[j].status = "absent"
    /\ inst[p] = "up" =>
          \A j \in Jobs : mem[p][j].status = "absent" => db[j].status = "absent"

(* A thread that has not published the result of its job yet.              *)
Before(p, w) ==
    \/ worker[p][w].pc \in {"begin", "entered", "work", "commit"}
    \/ worker[p][w].pc \in {"persist", "sync"} /\ worker[p][w].snap.status = "running"
Unpublished(p) ==
    /\ \A j \in Jobs : db[j].status = "absent" => applied[j] = 0
    /\ \A j \in Jobs : Waits(p, j) /\ ~Repeatable(j) => applied[j] = 0
    /\ \A w \in Workers, j \in Jobs :
          worker[p][w].job = j /\ Before(p, w) /\ ~Repeatable(j) => applied[j] = 0

(* A job that has a cancelled copy is cancelled in memory.                 *)
CancelledOnce(p) ==
    \A j \in Jobs : ~Rechecks(j) =>
        /\ mem[p][j].status = "cancelled" => applied[j] = 0
        /\ db[j].status = "cancelled" =>
              applied[j] = 0 /\ (inst[p] = "up" => mem[p][j].status = "cancelled")
        /\ \A w \in Workers :
              worker[p][w].job = j /\ worker[p][w].snap.status = "cancelled" =>
                  mem[p][j].status = "cancelled"
        /\ \A c \in Clients :
              request[c].job = j /\ request[c].snap.status = "cancelled" =>
                  mem[p][j].status = "cancelled"

(* Without failures the row of a job nobody cancels is its record, except  *)
(* between two steps of the thread that moves the job on.                  *)
Agree(p) ==
    MaxFaults = 0 /\ ~RepeatPreviews =>
        /\ \A c \in Clients :
              request[c].pc \in {"flagged", "snapped"} => mem[p][request[c].job].cancel
        /\ \A j \in Jobs :
              inst[p] = "up" /\ ~mem[p][j].cancel =>
                  \/ db[j].status = mem[p][j].status
                  \/ \E w \in Workers : worker[p][w].job = j
                                        /\ worker[p][w].pc \in {"claimed", "persist"}
        /\ \A w \in Workers, j \in Jobs :
              worker[p][w].job = j /\ worker[p][w].pc = "claimed" /\ ~mem[p][j].cancel =>
                  db[j].status = "running"

(* The same of the generation run of a job, for the ends of a job.         *)
RunAgrees(p) ==
    MaxFaults = 0 =>
        /\ \A c \in Clients : request[c].pc = "accepted" => Kind[request[c].job] = "project_run"
        /\ \A r \in Runs, j \in Jobs : run[r].job = j => Kind[j] = "project_run" /\ RunOf[j] = r
        /\ \A j \in Jobs :
              run[RunOf[j]].job = j /\ mem[p][j].status \in {"completed", "failed"} =>
                  \/ run[RunOf[j]].status \in {mem[p][j].status, "superseded"}
                  \/ \E w \in Workers : worker[p][w].job = j
                                        /\ worker[p][w].pc \in {"persist", "sync"}

OInv(p) == Whole(p) /\ Unpublished(p) /\ CancelledOnce(p) /\ Agree(p) /\ RunAgrees(p)

LEMMA NeverFailing ==
    ASSUME IInv, MaxFaults = 0 PROVE ~Failing
BY AllTypes DEF Failing

LEMMA RunTypes ==
    ASSUME IInv
    PROVE  /\ \A r \in Runs : run[r] \in Run
           /\ \A j \in Jobs : RunOf[j] \in Runs
BY AllTypes, JobManagerAssumption

LEMMA SubmitAlone ==
    ASSUME NEW p, Instances = {p}, IInv, TInv, OInv(p), NEW c \in Clients, NEW j \in Jobs, Submit(c, p, j)
    PROVE  OInv(p)'
<1>1. /\ inst[p] = "up" /\ request[c].pc = "idle" /\ db[j].status = "absent"
      /\ mem[p][j].status = "absent"
      /\ UNCHANGED <<run, queue, inst, todo, worker, applied, claims, faults>>
  BY SubmitStep
<1>2. PICK r \in Record, s \in Record :
         /\ MemIs(p, j, r) /\ Fields(r, "queued", FALSE, 0, None, FALSE)
         /\ RowIs(j, s) /\ Fields(s, "queued", FALSE, 0, None, FALSE)
  BY SubmitStep
<1>3. PICK pc \in {"accepted", "attached"} :
         /\ RequestIs(c, pc, p, j, Blank("absent"))
         /\ pc = "accepted" <=> Kind[j] = "project_run"
  BY SubmitStep
<1>4. Blank("absent").status = "absent"
  BY DEF Blank
<1>5. Queued(p)' = Queued(p)
  BY <1>1 DEF Queued
<1>6. Whole(p)'
  BY <1>1, <1>2, <1>3, <1>4, <1>5, NeverFailing DEF OInv, Whole, MemIs, RowIs, RequestIs, Fields
<1>7. Unpublished(p)'
  BY <1>1, <1>2, <1>3, <1>4, <1>5, NeverFailing
     DEF OInv, Unpublished, Before, Waits, Handing, MemIs, RowIs, RequestIs
<1>8. CancelledOnce(p)'
  BY <1>1, <1>2, <1>3, <1>4, <1>5, NeverFailing
     DEF OInv, CancelledOnce, KnownThread, MemIs, RowIs, RequestIs, Fields, TInv
<1>9. Agree(p)'
  BY <1>1, <1>2, <1>3, <1>4, <1>5, BusyTypes, NeverFailing
     DEF OInv, Agree, KnownThread, KnownRequest, RecordOf, MemIs, RowIs, RequestIs, Fields, TInv,
         Known
<1>10. RunAgrees(p)'
  BY <1>1, <1>2, <1>3, <1>4, <1>5, NeverFailing
     DEF OInv, RunAgrees, MemIs, RowIs, RequestIs, Fields
<1>. QED
  BY <1>6, <1>7, <1>8, <1>9, <1>10 DEF OInv

LEMMA SubmitUnsavedAlone ==
    ASSUME NEW p, Instances = {p}, IInv, TInv, OInv(p), NEW c \in Clients, NEW j \in Jobs, SubmitUnsaved(c, p, j)
    PROVE  OInv(p)'
<1>1. Failing /\ UNCHANGED <<db, mem, queue, inst, todo, worker, request, applied, claims>>
  BY DEF SubmitUnsaved, Fault, Failing
<1>2. Queued(p)' = Queued(p)
  BY <1>1 DEF Queued
<1>3. Whole(p)' /\ Unpublished(p)' /\ CancelledOnce(p)' /\ Agree(p)'
  BY <1>1, <1>2 DEF OInv, Whole, Unpublished, Before, Waits, Handing, CancelledOnce, Agree
<1>4. RunAgrees(p)'
  BY <1>1, <1>2, NeverFailing DEF OInv, RunAgrees
<1>. QED
  BY <1>3, <1>4 DEF OInv

LEMMA AttachRunAlone ==
    ASSUME NEW p, Instances = {p}, IInv, TInv, OInv(p), NEW c \in Clients, AttachRun(c)
    PROVE  OInv(p)'
<1>. DEFINE j == request[c].job
<1>1. /\ request[c].pc = "accepted" /\ j \in Jobs /\ request[c].at = p
      /\ RequestIs(c, "attached", p, j, request[c].snap)
      /\ UNCHANGED <<db, mem, queue, inst, todo, worker, applied, claims, faults>>
  BY AttachRunStep
<1>2. \A r \in Runs : /\ r # RunOf[j] => run'[r] = run[r]
                      /\ r = RunOf[j] => run'[r].job = j
  <2>1. \A u \in Run : [u EXCEPT !.job = j, !.status = "queued"].job = j
    BY DEF Run
  <2>2. \A r \in Runs : run'[r] = IF r = RunOf[j]
                                 THEN [run[r] EXCEPT !.job = j, !.status = "queued"]
                                 ELSE run[r]
    BY AttachRunStep
  <2>. HIDE DEF j
  <2>. QED
    BY <2>1, <2>2, RunTypes
<1>3. mem[p][j].status = "queued" /\ RunOf[j] \in Runs
  BY <1>1, RunTypes DEF TInv, Waiting, Waits, Handing
<1>4. Queued(p)' = Queued(p)
  BY <1>1 DEF Queued
<1>5. Whole(p)'
  BY <1>1, <1>4 DEF OInv, Whole
<1>6. Unpublished(p)'
  BY <1>1, <1>2, <1>3, <1>4, NeverFailing DEF OInv, Unpublished, Before, Waits, Handing, RequestIs
<1>7. CancelledOnce(p)'
  BY <1>1, <1>2, <1>3, <1>4, NeverFailing DEF OInv, CancelledOnce, RequestIs
<1>8. Agree(p)'
  BY <1>1, <1>2, <1>3, <1>4, NeverFailing DEF OInv, Agree, RequestIs
<1>9. RunAgrees(p)'
  BY <1>1, <1>2, <1>3, <1>4, NeverFailing, RunTypes DEF OInv, RunAgrees, RequestIs
<1>. QED
  BY <1>5, <1>6, <1>7, <1>8, <1>9 DEF OInv

LEMMA AttachFailsAlone ==
    ASSUME NEW p, Instances = {p}, IInv, TInv, OInv(p), NEW c \in Clients, AttachFails(c)
    PROVE  OInv(p)'
<1>. DEFINE j == request[c].job
<1>1. /\ request[c].pc = "accepted" /\ p = request[c].at /\ j \in Jobs /\ j = request[c].job
      /\ Failing /\ inst[p] = "up"
      /\ RequestIs(c, "idle", None, None, Blank("absent"))
      /\ UNCHANGED <<queue, inst, todo, worker, applied, claims>>
  BY AttachFailsStep DEF TInv, Lives
<1>2. PICK r \in Record, s \in Record :
         /\ MemIs(p, j, r)
         /\ Fields(r, "failed", mem[p][j].cancel, mem[p][j].retry, mem[p][j].owner, mem[p][j].fresh)
         /\ RowIs(j, s) /\ (IsStored(p, r, s) \/ s = db[j])
  BY <1>1, AttachFailsStep
<1>3. /\ \A l \in Jobs : /\ mem'[p][l].status = IF l = j THEN "failed" ELSE mem[p][l].status
                         /\ mem'[p][l].cancel = mem[p][l].cancel
                         /\ \/ db'[l].status = db[l].status
                            \/ l = j /\ db'[l].status = "failed"
  BY <1>1, <1>2 DEF Fields, IsStored, MemIs, RowIs
<1>4. mem[p][j].status = "queued"
  BY <1>1 DEF TInv, Waiting, Waits, Handing
<1>5. Blank("absent").status = "absent"
  BY DEF Blank
<1>6. Queued(p)' = Queued(p)
  BY <1>1 DEF Queued
<1>. HIDE DEF j
<1>7. Whole(p)'
  BY <1>1, <1>3, <1>4, <1>5, <1>6, NeverFailing DEF OInv, Whole, RequestIs
<1>8. Unpublished(p)'
  BY <1>1, <1>3, <1>4, <1>5, <1>6, NeverFailing
     DEF OInv, Unpublished, Before, Waits, Handing, RequestIs
<1>9. CancelledOnce(p)'
  BY <1>1, <1>3, <1>4, <1>5, <1>6, NeverFailing DEF OInv, CancelledOnce, RequestIs
<1>10. Agree(p)'
  BY <1>1, <1>3, <1>4, <1>5, <1>6, NeverFailing DEF OInv, Agree, RequestIs
<1>11. RunAgrees(p)'
  BY <1>1, <1>3, <1>4, <1>5, <1>6, NeverFailing DEF OInv, RunAgrees, RequestIs
<1>. QED
  BY <1>7, <1>8, <1>9, <1>10, <1>11 DEF OInv

LEMMA EnqueueAlone ==
    ASSUME NEW p, Instances = {p}, IInv, TInv, OInv(p), NEW c \in Clients, Enqueue(c)
    PROVE  OInv(p)'
<1>. DEFINE j == request[c].job
<1>1. /\ request[c].pc = "attached" /\ p = request[c].at /\ j \in Jobs
      /\ RequestIs(c, "idle", None, None, Blank("absent"))
      /\ UNCHANGED <<db, run, mem, inst, todo, worker, applied, claims, faults>>
      /\ Queued(p)' = Queued(p) \cup {j}
  BY EnqueueStep
<1>2. Blank("absent").status = "absent"
  BY DEF Blank
<1>3. Whole(p)'
  BY <1>1 DEF OInv, Whole
<1>4. Unpublished(p)'
  BY <1>1, <1>2, NeverFailing DEF OInv, Unpublished, Before, Waits, Handing, RequestIs
<1>5. CancelledOnce(p)'
  BY <1>1, <1>2, NeverFailing DEF OInv, CancelledOnce, RequestIs
<1>6. Agree(p)'
  BY <1>1, <1>2, NeverFailing DEF OInv, Agree, RequestIs
<1>7. RunAgrees(p)'
  BY <1>1, <1>2, NeverFailing DEF OInv, RunAgrees, RequestIs
<1>. QED
  BY <1>3, <1>4, <1>5, <1>6, <1>7 DEF OInv

LEMMA CancelAlone ==
    ASSUME NEW p, Instances = {p}, IInv, TInv, OInv(p), NEW c \in Clients, NEW j \in Jobs, Cancel(c, p, j)
    PROVE  OInv(p)'
<1>1. /\ inst[p] = "up" /\ request[c].pc = "idle"
      /\ RequestIs(c, "flagged", p, j, Blank("absent"))
      /\ UNCHANGED <<db, run, queue, inst, todo, worker, applied, claims, faults>>
  BY CancelStep
<1>2. KnownRecord(p, j) = mem[p][j] /\ mem[p][j].status \in Active
  BY CancelStep DEF KnownRecord, OInv, Whole, Active
<1>3. PICK r \in Record :
         /\ MemIs(p, j, r)
         /\ Fields(r, mem[p][j].status, TRUE, mem[p][j].retry, mem[p][j].owner, mem[p][j].fresh)
  BY <1>2, CancelStep
<1>4. Blank("absent").status = "absent"
  BY DEF Blank
<1>5. Queued(p)' = Queued(p)
  BY <1>1 DEF Queued
<1>6. Whole(p)'
  BY <1>1, <1>2, <1>3, <1>4, <1>5, NeverFailing DEF OInv, Whole, MemIs, RequestIs, Fields
<1>7. Unpublished(p)'
  BY <1>1, <1>2, <1>3, <1>4, <1>5, NeverFailing
     DEF OInv, Unpublished, Before, Waits, Handing, MemIs, RequestIs
<1>8. CancelledOnce(p)'
  BY <1>1, <1>2, <1>3, <1>4, <1>5, NeverFailing DEF OInv, CancelledOnce, MemIs, RequestIs, Fields
<1>9. Agree(p)'
  BY <1>1, <1>2, <1>3, <1>4, <1>5, BusyTypes, NeverFailing
     DEF OInv, Agree, MemIs, RequestIs, Fields
<1>10. RunAgrees(p)'
  BY <1>1, <1>2, <1>3, <1>4, <1>5, NeverFailing DEF OInv, RunAgrees, MemIs, RequestIs, Fields
<1>. QED
  BY <1>6, <1>7, <1>8, <1>9, <1>10 DEF OInv

LEMMA CancelTerminalAlone ==
    ASSUME NEW p, Instances = {p}, IInv, TInv, OInv(p), NEW c \in Clients, NEW j \in Jobs, CancelTerminal(c, p, j)
    PROVE  OInv(p)'
<1>1. /\ inst[p] = "up" /\ request[c].pc = "idle"
      /\ RequestIs(c, "blocked", p, j, Blank("absent"))
      /\ UNCHANGED <<db, run, queue, inst, todo, worker, applied, claims, faults>>
  BY CancelTerminalStep
<1>2. KnownRecord(p, j) = mem[p][j]
  BY CancelTerminalStep DEF KnownRecord, OInv, Whole, Terminal
<1>3. \A l \in Jobs : mem'[p][l] = mem[p][l]
  BY <1>2, CancelTerminalStep DEF MemIs
<1>4. Blank("absent").status = "absent"
  BY DEF Blank
<1>5. Queued(p)' = Queued(p)
  BY <1>1 DEF Queued
<1>6. Whole(p)'
  BY <1>1, <1>2, <1>3, <1>4, <1>5, NeverFailing DEF OInv, Whole, RequestIs
<1>7. Unpublished(p)'
  BY <1>1, <1>2, <1>3, <1>4, <1>5, NeverFailing
     DEF OInv, Unpublished, Before, Waits, Handing, RequestIs
<1>8. CancelledOnce(p)'
  BY <1>1, <1>2, <1>3, <1>4, <1>5, NeverFailing DEF OInv, CancelledOnce, RequestIs
<1>9. Agree(p)'
  BY <1>1, <1>2, <1>3, <1>4, <1>5, BusyTypes, NeverFailing DEF OInv, Agree, RequestIs
<1>10. RunAgrees(p)'
  BY <1>1, <1>2, <1>3, <1>4, <1>5, NeverFailing DEF OInv, RunAgrees, RequestIs
<1>. QED
  BY <1>6, <1>7, <1>8, <1>9, <1>10 DEF OInv

LEMMA SnapCancelAlone ==
    ASSUME NEW p, Instances = {p}, IInv, TInv, OInv(p), NEW c \in Clients, SnapCancel(c)
    PROVE  OInv(p)'
<1>. DEFINE j == request[c].job
<1>1. /\ request[c].pc = "flagged" /\ j \in Jobs /\ request[c].at = p
      /\ RequestIs(c, "snapped", p, j, mem[p][j])
      /\ UNCHANGED <<db, run, mem, queue, inst, todo, worker, applied, claims, faults>>
  BY SnapCancelStep
<1>2. Queued(p)' = Queued(p)
  BY <1>1 DEF Queued
<1>3. Whole(p)'
  BY <1>1, <1>2 DEF OInv, Whole
<1>4. Unpublished(p)'
  BY <1>1, <1>2, NeverFailing DEF OInv, Unpublished, Before, Waits, Handing, RequestIs
<1>5. CancelledOnce(p)'
  BY <1>1, <1>2, NeverFailing DEF OInv, CancelledOnce, RequestIs
<1>6. Agree(p)'
  BY <1>1, <1>2, NeverFailing DEF OInv, Agree, RequestIs
<1>7. RunAgrees(p)'
  BY <1>1, <1>2, NeverFailing DEF OInv, RunAgrees, RequestIs
<1>. QED
  BY <1>3, <1>4, <1>5, <1>6, <1>7 DEF OInv

LEMMA PersistCancelAlone ==
    ASSUME NEW p, Instances = {p}, IInv, TInv, OInv(p), NEW c \in Clients, PersistCancel(c)
    PROVE  OInv(p)'
<1>. DEFINE j == request[c].job
            s == request[c].snap
<1>1. /\ request[c].pc = "snapped" /\ j \in Jobs /\ request[c].at = p /\ s \in Record
      /\ RequestIs(c, "idle", None, None, Blank("absent"))
      /\ UNCHANGED <<run, mem, queue, inst, todo, worker, applied, claims>>
  BY PersistCancelStep
<1>2. \/ UNCHANGED db
      \/ \A l \in Jobs : db'[l].status = IF l = j THEN s.status ELSE db[l].status
  BY PersistCancelStep DEF RowIs, IsStored
<1>3. inst[p] = "up" /\ s.status # "absent" /\ mem[p][j].status # "absent"
  BY <1>1 DEF TInv, Known, KnownSnap, KnownRequest, Lives
<1>4. Blank("absent").status = "absent"
  BY DEF Blank
<1>5. Queued(p)' = Queued(p)
  BY <1>1 DEF Queued
<1>6. Whole(p)'
  BY <1>1, <1>2, <1>3, <1>4, <1>5, NeverFailing DEF OInv, Whole, RequestIs
<1>7. Unpublished(p)'
  BY <1>1, <1>2, <1>3, <1>4, <1>5, NeverFailing
     DEF OInv, Unpublished, Before, Waits, Handing, RequestIs
<1>8. CancelledOnce(p)'
  BY <1>1, <1>2, <1>3, <1>4, <1>5, NeverFailing DEF OInv, CancelledOnce, RequestIs
<1>9. Agree(p)'
  BY <1>1, <1>2, <1>3, <1>4, <1>5, NeverFailing DEF OInv, Agree, RequestIs
<1>10. RunAgrees(p)'
  BY <1>1, <1>2, <1>3, <1>4, <1>5, NeverFailing DEF OInv, RunAgrees, RequestIs
<1>. QED
  BY <1>6, <1>7, <1>8, <1>9, <1>10 DEF OInv

LEMMA ReadRowAlone ==
    ASSUME NEW p, Instances = {p}, IInv, TInv, OInv(p), NEW j \in Jobs, GetJob(p, j) \/ ReuseRow(p, j)
    PROVE  OInv(p)'
<1>1. /\ inst[p] = "up" /\ MemIs(p, j, db[j]) /\ db[j].status # "absent" /\ Repeatable(j)
      /\ mem[p][j].status \in {"failed", "cancelled"}
      /\ UNCHANGED <<db, run, queue, inst, todo, worker, request, applied, claims, faults>>
  BY ReadRowStep DEF OInv, Whole
<1>2. Rechecks(j) /\ RepeatPreviews /\ Kind[j] # "project_run"
  BY <1>1 DEF Repeatable, Rechecks
<1>3. Queued(p)' = Queued(p)
  BY <1>1 DEF Queued
<1>4. Unpublished(p)'
  BY <1>1, <1>3 DEF OInv, Unpublished, Before, Waits, Handing
<1>5. Whole(p)'
  BY <1>1, <1>2, <1>3, NeverFailing DEF OInv, Whole, MemIs
<1>6. CancelledOnce(p)'
  BY <1>1, <1>2, <1>3, NeverFailing DEF OInv, CancelledOnce, MemIs
<1>7. Agree(p)'
  BY <1>1, <1>2, <1>3, NeverFailing DEF OInv, Agree, MemIs
<1>8. RunAgrees(p)'
  BY <1>1, <1>2, <1>3, NeverFailing, RunTypes DEF OInv, RunAgrees, MemIs
<1>. QED
  BY <1>4, <1>5, <1>6, <1>7, <1>8 DEF OInv

LEMMA TakeAlone ==
    ASSUME NEW p, Instances = {p}, IInv, TInv, OInv(p), NEW w \in Workers, Take(p, w)
    PROVE  OInv(p)'
<1>. DEFINE j == Head(queue[p])
<1>1. /\ worker[p][w].pc = "idle" /\ j \in Queued(p) /\ j \in Jobs
      /\ ThreadIs(p, w, "taken", j, Blank("absent"))
      /\ UNCHANGED <<db, run, mem, inst, todo, request, applied, claims, faults>>
      /\ Queued(p)' = Queued(p) \ {j}
  BY TakeStep DEF TInv, Once, OnceQueue
<1>2. worker[p][w].job = None /\ Blank("absent").status = "absent"
  BY <1>1 DEF TInv, Idle, Blank
<1>. HIDE DEF j
<1>3. Whole(p)'
  BY <1>1 DEF OInv, Whole
<1>4. Unpublished(p)'
  BY <1>1, <1>2, NeverFailing DEF OInv, Unpublished, Before, Waits, Handing, ThreadIs
<1>5. CancelledOnce(p)'
  BY <1>1, <1>2, NeverFailing DEF OInv, CancelledOnce, ThreadIs
<1>6. Agree(p)'
  BY <1>1, <1>2, NeverFailing DEF OInv, Agree, ThreadIs
<1>7. RunAgrees(p)'
  BY <1>1, <1>2, NeverFailing DEF OInv, RunAgrees, ThreadIs
<1>. QED
  BY <1>3, <1>4, <1>5, <1>6, <1>7 DEF OInv

LEMMA ClaimAlone ==
    ASSUME NEW p, Instances = {p}, IInv, TInv, OInv(p), NEW w \in Workers, Claim(p, w)
    PROVE  OInv(p)'
<1>. DEFINE j == worker[p][w].job
<1>1. /\ worker[p][w].pc = "taken" /\ j \in Jobs
      /\ ThreadIs(p, w, "claimed", j, worker[p][w].snap)
      /\ UNCHANGED <<run, mem, queue, inst, todo, request, applied, faults>>
  BY ClaimStep
<1>2. PICK r \in Record : RowIs(j, r) /\ Fields(r, "running", db[j].cancel, db[j].retry, p, TRUE)
  BY ClaimStep
<1>3. inst[p] = "up" /\ mem[p][j].status = "queued"
  BY <1>1 DEF TInv, Lives, Waiting, Waits
<1>4. Queued(p)' = Queued(p)
  BY <1>1 DEF Queued
<1>5. Whole(p)'
  BY <1>1, <1>2, <1>3, <1>4, NeverFailing DEF OInv, Whole, ThreadIs, RowIs
<1>6. Unpublished(p)'
  BY <1>1, <1>2, <1>3, <1>4, NeverFailing
     DEF OInv, Unpublished, Before, Waits, Handing, ThreadIs, RowIs, Fields
<1>7. CancelledOnce(p)'
  BY <1>1, <1>2, <1>3, <1>4, NeverFailing DEF OInv, CancelledOnce, ThreadIs, RowIs, Fields
<1>8. Agree(p)'
  BY <1>1, <1>2, <1>3, <1>4, NeverFailing DEF OInv, Agree, ThreadIs, RowIs, Fields
<1>9. RunAgrees(p)'
  BY <1>1, <1>2, <1>3, <1>4, NeverFailing DEF OInv, RunAgrees, ThreadIs, RowIs
<1>. QED
  BY <1>5, <1>6, <1>7, <1>8, <1>9 DEF OInv

LEMMA ClaimLostAlone ==
    ASSUME NEW p, Instances = {p}, IInv, TInv, OInv(p), NEW w \in Workers, ClaimLost(p, w)
    PROVE  OInv(p)'
<1>1. /\ worker[p][w].pc = "taken"
      /\ ThreadIs(p, w, "idle", None, Blank("absent"))
      /\ UNCHANGED <<db, run, mem, queue, inst, todo, request, applied, claims, faults>>
  BY ClaimLostStep
<1>2. Blank("absent").status = "absent"
  BY DEF Blank
<1>3. Queued(p)' = Queued(p)
  BY <1>1 DEF Queued
<1>4. Whole(p)'
  BY <1>1, <1>3 DEF OInv, Whole
<1>5. Unpublished(p)'
  BY <1>1, <1>2, <1>3, NeverFailing DEF OInv, Unpublished, Before, Waits, Handing, ThreadIs
<1>6. CancelledOnce(p)'
  BY <1>1, <1>2, <1>3, NeverFailing DEF OInv, CancelledOnce, ThreadIs
<1>7. Agree(p)'
  BY <1>1, <1>2, <1>3, NeverFailing DEF OInv, Agree, OnceThread, ThreadIs, TInv
<1>8. RunAgrees(p)'
  BY <1>1, <1>2, <1>3, NeverFailing DEF OInv, RunAgrees, OnceThread, ThreadIs, TInv
<1>. QED
  BY <1>4, <1>5, <1>6, <1>7, <1>8 DEF OInv

LEMMA ClaimRecordAlone ==
    ASSUME NEW p, Instances = {p}, IInv, TInv, OInv(p), NEW w \in Workers, ClaimRecord(p, w)
    PROVE  OInv(p)'
<1>. DEFINE j == worker[p][w].job
<1>1. /\ worker[p][w].pc = "claimed" /\ j \in Jobs /\ inst[p] = "up"
      /\ ThreadIs(p, w, "begin", j, worker[p][w].snap)
      /\ UNCHANGED <<db, run, queue, inst, todo, request, applied, claims, faults>>
  BY ClaimRecordStep
<1>2. PICK r \in Record : MemIs(p, j, r)
                       /\ Fields(r, "running", mem[p][j].cancel, mem[p][j].retry, p, TRUE)
  BY ClaimRecordStep
<1>3. mem[p][j].status = "queued"
  BY <1>1 DEF TInv, Waiting, Waits
<1>4. Queued(p)' = Queued(p)
  BY <1>1 DEF Queued
<1>5. Whole(p)'
  BY <1>1, <1>2, <1>3, <1>4, NeverFailing DEF OInv, Whole, ThreadIs, MemIs, Fields
<1>6. Unpublished(p)'
  BY <1>1, <1>2, <1>3, <1>4, NeverFailing
     DEF OInv, Unpublished, Before, Waits, Handing, ThreadIs, MemIs
<1>7. CancelledOnce(p)'
  BY <1>1, <1>2, <1>3, <1>4, NeverFailing DEF OInv, CancelledOnce, ThreadIs, MemIs, Fields
<1>8. Agree(p)'
  BY <1>1, <1>2, <1>3, <1>4, BusyTypes, NeverFailing
     DEF OInv, Agree, OnceThread, ThreadIs, MemIs, Fields, TInv
<1>9. RunAgrees(p)'
  BY <1>1, <1>2, <1>3, <1>4, NeverFailing DEF OInv, RunAgrees, ThreadIs, MemIs, Fields
<1>. QED
  BY <1>5, <1>6, <1>7, <1>8, <1>9 DEF OInv

LEMMA CheckPassesAlone ==
    ASSUME NEW p, Instances = {p}, IInv, TInv, OInv(p), NEW w \in Workers, CheckPasses(p, w)
    PROVE  OInv(p)'
<1>. DEFINE j == worker[p][w].job
<1>1. /\ j \in Jobs /\ worker[p][w].pc \in {"begin", "work", "applied"}
      /\ UNCHANGED <<db, run, mem, queue, inst, todo, request, applied, claims>>
  BY CheckPassesStep
<1>2. PICK pc \in {"entered", "commit", "rechecked"} :
         /\ ThreadIs(p, w, pc, j, worker[p][w].snap)
         /\ pc # "rechecked" => worker[p][w].pc \in {"begin", "work"}
  BY CheckPassesStep
<1>3. Queued(p)' = Queued(p)
  BY <1>1 DEF Queued
<1>4. Whole(p)'
  BY <1>1, <1>3 DEF OInv, Whole
<1>5. Unpublished(p)'
  BY <1>1, <1>2, <1>3, NeverFailing DEF OInv, Unpublished, Before, Waits, Handing, ThreadIs
<1>6. CancelledOnce(p)'
  BY <1>1, <1>2, <1>3, NeverFailing DEF OInv, CancelledOnce, ThreadIs
<1>7. Agree(p)'
  BY <1>1, <1>2, <1>3, NeverFailing DEF OInv, Agree, ThreadIs
<1>8. RunAgrees(p)'
  BY <1>1, <1>2, <1>3, NeverFailing DEF OInv, RunAgrees, ThreadIs
<1>. QED
  BY <1>4, <1>5, <1>6, <1>7, <1>8 DEF OInv

LEMMA ApplyAlone ==
    ASSUME NEW p, Instances = {p}, IInv, TInv, OInv(p), NEW w \in Workers, Apply(p, w)
    PROVE  OInv(p)'
<1>. DEFINE j == worker[p][w].job
<1>1. /\ worker[p][w].pc = "commit" /\ j \in Jobs
      /\ ThreadIs(p, w, "applied", j, worker[p][w].snap)
      /\ UNCHANGED <<db, run, mem, queue, inst, todo, request, claims, faults>>
      /\ \A l \in Jobs : l # j => applied'[l] = applied[l]
  BY ApplyStep
<1>2. mem[p][j].status = "running" /\ inst[p] = "up" /\ db[j].status # "absent" /\ ~Waits(p, j)
  BY <1>1 DEF TInv, Lives, Held, RunsOn, Running, RecordOf, Known, HasRow, Waiting
<1>3. Queued(p)' = Queued(p)
  BY <1>1 DEF Queued
<1>4. Whole(p)'
  BY <1>1, <1>3 DEF OInv, Whole
<1>5. Unpublished(p)'
  BY <1>1, <1>2, <1>3, NeverFailing
     DEF OInv, Unpublished, Before, Waits, Handing, OnceThread, ThreadIs, TInv, Once
<1>6. CancelledOnce(p)'
  BY <1>1, <1>2, <1>3, NeverFailing DEF OInv, CancelledOnce, ThreadIs
<1>7. Agree(p)'
  BY <1>1, <1>2, <1>3, NeverFailing DEF OInv, Agree, ThreadIs
<1>8. RunAgrees(p)'
  BY <1>1, <1>2, <1>3, NeverFailing DEF OInv, RunAgrees, ThreadIs
<1>. QED
  BY <1>4, <1>5, <1>6, <1>7, <1>8 DEF OInv

LEMMA SnapshotAlone ==
    ASSUME NEW p, Instances = {p}, IInv, TInv, OInv(p), 
           NEW w \in Workers, NEW j \in Jobs, NEW r \in Record, NEW pc \in {"persist", "persistResult"},
           inst[p] = "up", worker[p][w].pc # "idle", worker[p][w].job = j,
           MemIs(p, j, r), ThreadIs(p, w, pc, j, r),
           r.status # "absent", r.cancel \/ ~mem[p][j].cancel,
           r.status = "running" => applied[j] = 0 \/ pc = "persistResult" \/ Repeatable(j),
           r.status = "cancelled" => \/ applied[j] = 0 \/ Rechecks(j)
                                     \/ mem[p][j].status = "cancelled",
           mem[p][j].status = "cancelled" => r.status = "cancelled" \/ Rechecks(j),
           pc = "persistResult" => worker[p][w].pc = "attach" /\ r.status = mem[p][j].status, UNCHANGED <<db, run, queue, inst, todo, request, applied, claims>>
    PROVE  OInv(p)'
<1>1. UNCHANGED <<db, run, queue, inst, todo, request, applied, claims>> /\ inst[p] = "up"
      /\ worker[p][w].pc # "idle" /\ worker[p][w].job = j
  OBVIOUS
<1>2. \A l \in Jobs : mem'[p][l] = IF l = j THEN r ELSE mem[p][l]
  BY DEF MemIs
<1>3. \A v \in Workers :
         v # w => /\ worker'[p][v].pc = worker[p][v].pc
                  /\ worker'[p][v].job = worker[p][v].job
                  /\ worker'[p][v].snap = worker[p][v].snap
  BY DEF ThreadIs
<1>4. worker'[p][w].pc = pc /\ worker'[p][w].job = j /\ worker'[p][w].snap = r
  BY DEF ThreadIs
<1>5. Queued(p)' = Queued(p)
  BY <1>1 DEF Queued
<1>6. Whole(p)'
  BY <1>1, <1>2, <1>3, <1>4, <1>5, NeverFailing DEF OInv, Whole
<1>7. Unpublished(p)'
  BY <1>1, <1>2, <1>3, <1>4, <1>5, NeverFailing DEF OInv, Unpublished, Before, Waits, Handing
<1>8. CancelledOnce(p)'
  BY <1>1, <1>2, <1>3, <1>4, <1>5, NeverFailing DEF OInv, CancelledOnce, OnceThread, TInv
<1>9. Agree(p)'
  BY <1>1, <1>2, <1>3, <1>4, <1>5, BusyTypes, NeverFailing DEF OInv, Agree, OnceThread, TInv
<1>10. RunAgrees(p)'
  BY <1>1, <1>2, <1>3, <1>4, <1>5, NeverFailing DEF OInv, RunAgrees
<1>. QED
  BY <1>6, <1>7, <1>8, <1>9, <1>10 DEF OInv

LEMMA ReportAlone ==
    ASSUME NEW p, Instances = {p}, IInv, TInv, OInv(p), NEW w \in Workers, Report(p, w)
    PROVE  OInv(p)'
<1>. DEFINE j == worker[p][w].job
<1>1. /\ worker[p][w].pc = "entered"
      /\ inst[p] = "up" /\ worker[p][w].pc # "idle" /\ j \in Jobs
      /\ UNCHANGED <<db, run, queue, inst, todo, request, applied, claims>>
  BY ReportStep DEF Updates
<1>2. PICK r \in Record :
         /\ MemIs(p, j, r) /\ ThreadIs(p, w, "persist", j, r)
         /\ Fields(r, "running", mem[p][j].cancel, mem[p][j].retry, mem[p][j].owner, mem[p][j].fresh)
  BY ReportStep DEF Updates, RecordOf
<1>3. mem[p][j].status \in {"queued", "running"} /\ (applied[j] = 0 \/ Repeatable(j))
  BY <1>1 DEF TInv, Held, RunsOn, Running, RecordOf, Waiting, Waits, OInv, Unpublished, Before
<1>. QED
  BY <1>1, <1>2, <1>3, SnapshotAlone DEF Fields

LEMMA StopAlone ==
    ASSUME NEW p, Instances = {p}, IInv, TInv, OInv(p), NEW w \in Workers, Stop(p, w)
    PROVE  OInv(p)'
<1>. DEFINE j == worker[p][w].job
<1>1. /\ worker[p][w].pc \in {"begin", "work"} \/ Rechecks(j)
      /\ worker[p][w].pc \in {"begin", "work", "applied"}
      /\ inst[p] = "up" /\ worker[p][w].pc # "idle" /\ j \in Jobs
      /\ UNCHANGED <<db, run, queue, inst, todo, request, applied, claims>>
  BY StopStep DEF Updates
<1>2. PICK r \in Record :
         /\ MemIs(p, j, r) /\ ThreadIs(p, w, "persist", j, r)
         /\ Fields(r, "cancelled", TRUE, mem[p][j].retry, mem[p][j].owner, mem[p][j].fresh)
  BY StopStep DEF Updates
<1>3. mem[p][j].status \in {"queued", "running"} /\ (applied[j] = 0 \/ Rechecks(j))
  BY <1>1
     DEF TInv, Held, RunsOn, Running, RecordOf, Waiting, Waits, OInv, Unpublished, Before,
         Repeatable, Rechecks
<1>. QED
  BY <1>1, <1>2, <1>3, SnapshotAlone DEF Fields

LEMMA FailAlone ==
    ASSUME NEW p, Instances = {p}, IInv, TInv, OInv(p), NEW w \in Workers, Fail(p, w)
    PROVE  OInv(p)'
<1>. DEFINE j == worker[p][w].job
<1>1. /\ worker[p][w].pc \in {"entered", "work", "commit", "applied", "taken"}
      /\ inst[p] = "up" /\ worker[p][w].pc # "idle" /\ j \in Jobs
      /\ UNCHANGED <<db, run, queue, inst, todo, request, applied, claims>>
  BY FailStep DEF Updates
<1>2. PICK r \in Record :
         /\ MemIs(p, j, r) /\ ThreadIs(p, w, "persist", j, r)
         /\ Fields(r, "failed", mem[p][j].cancel, mem[p][j].retry, mem[p][j].owner, mem[p][j].fresh)
  BY FailStep DEF Updates, RecordOf
<1>3. mem[p][j].status \in {"queued", "running"}
  BY <1>1 DEF TInv, Held, RunsOn, Running, RecordOf, Waiting, Waits
<1>. QED
  BY <1>1, <1>2, <1>3, SnapshotAlone DEF Fields

LEMMA CompleteAlone ==
    ASSUME NEW p, Instances = {p}, IInv, TInv, OInv(p), NEW w \in Workers, Complete(p, w)
    PROVE  OInv(p)'
<1>. DEFINE j == worker[p][w].job
<1>1. /\ worker[p][w].pc \in {"applied", "rechecked"}
      /\ inst[p] = "up" /\ worker[p][w].pc # "idle" /\ j \in Jobs
      /\ UNCHANGED <<db, run, queue, inst, todo, request, applied, claims>>
  BY CompleteStep DEF Updates
<1>2. PICK r \in Record :
         /\ MemIs(p, j, r) /\ ThreadIs(p, w, "persist", j, r)
         /\ Fields(r, "completed", mem[p][j].cancel, mem[p][j].retry, mem[p][j].owner, mem[p][j].fresh)
  BY CompleteStep DEF Updates, RecordOf
<1>3. mem[p][j].status \in {"queued", "running"}
  BY <1>1 DEF TInv, Held, RunsOn, Running, RecordOf, Waiting, Waits
<1>. QED
  BY <1>1, <1>2, <1>3, SnapshotAlone DEF Fields

LEMMA AttachAlone ==
    ASSUME NEW p, Instances = {p}, IInv, TInv, OInv(p), NEW w \in Workers, Attach(p, w)
    PROVE  OInv(p)'
<1>. DEFINE j == worker[p][w].job
<1>1. /\ worker[p][w].pc = "attach"
      /\ inst[p] = "up" /\ worker[p][w].pc # "idle" /\ j \in Jobs
      /\ UNCHANGED <<db, run, queue, inst, todo, request, applied, claims>>
  BY AttachStep DEF Updates
<1>2. PICK r \in Record :
         /\ MemIs(p, j, r) /\ ThreadIs(p, w, "persistResult", j, r)
         /\ Fields(r, mem[p][j].status, mem[p][j].cancel, mem[p][j].retry, mem[p][j].owner, mem[p][j].fresh)
  BY AttachStep DEF Updates, RecordOf
<1>3. mem[p][j].status # "absent"
  BY <1>1 DEF TInv, Known, KnownThread, RecordOf
<1>. QED
  BY <1>1, <1>2, <1>3, SnapshotAlone DEF Fields

LEMMA PersistRecordAlone ==
    ASSUME NEW p, Instances = {p}, IInv, TInv, OInv(p), NEW w \in Workers, PersistRecord(p, w)
    PROVE  OInv(p)'
<1>. DEFINE j == worker[p][w].job
            s == worker[p][w].snap
<1>1. /\ worker[p][w].pc \in {"persist", "persistResult"} /\ j \in Jobs /\ s \in Record
      /\ UNCHANGED <<run, mem, queue, inst, todo, request, applied, claims>>
  BY PersistRecordStep
<1>2. \/ Failing /\ UNCHANGED db
      \/ \A l \in Jobs : db'[l].status = IF l = j THEN s.status ELSE db[l].status
  BY PersistRecordStep DEF Persisted, RowIs, IsStored
<1>3. \/ /\ worker[p][w].pc = "persistResult" \/ s.status = "cancelled"
         /\ ThreadIs(p, w, "idle", None, Blank("absent"))
      \/ worker[p][w].pc = "persist" /\ ThreadIs(p, w, "sync", j, s)
      \/ /\ worker[p][w].pc = "persist" /\ s.status = "running"
         /\ ThreadIs(p, w, "work", j, Blank("absent"))
  BY PersistRecordStep
<1>4. /\ s.status # "absent" /\ inst[p] = "up" /\ mem[p][j].status # "absent"
      /\ ~Repeatable(j) => mem[p][j].status = s.status
  BY <1>1 DEF TInv, Known, KnownSnap, KnownThread, Lives, Ended, RecordOf
<1>5. Blank("absent").status = "absent"
  BY DEF Blank
<1>6. Queued(p)' = Queued(p)
  BY <1>1 DEF Queued
<1>7. Whole(p)'
  BY <1>1, <1>2, <1>3, <1>4, <1>5, <1>6, NeverFailing DEF OInv, Whole, ThreadIs
<1>8. Unpublished(p)'
  BY <1>1, <1>2, <1>3, <1>4, <1>5, <1>6, NeverFailing
     DEF OInv, Unpublished, Before, Waits, Handing, ThreadIs
<1>9. CancelledOnce(p)'
  BY <1>1, <1>2, <1>3, <1>4, <1>5, <1>6, NeverFailing DEF OInv, CancelledOnce, ThreadIs
<1>10. Agree(p)'
  BY <1>1, <1>2, <1>3, <1>4, <1>5, <1>6, NeverFailing
     DEF OInv, Agree, OnceThread, Repeatable, ThreadIs, TInv, Once
<1>11. RunAgrees(p)'
  BY <1>1, <1>2, <1>3, <1>4, <1>5, <1>6, NeverFailing, RunTypes
     DEF OInv, RunAgrees, OnceThread, Repeatable, ThreadIs, TInv
<1>. QED
  BY <1>7, <1>8, <1>9, <1>10, <1>11 DEF OInv

LEMMA SyncRunAlone ==
    ASSUME NEW p, Instances = {p}, IInv, TInv, OInv(p), NEW w \in Workers, SyncRun(p, w)
    PROVE  OInv(p)'
<1>. DEFINE j == worker[p][w].job
            s == worker[p][w].snap
<1>1. /\ worker[p][w].pc = "sync" /\ j \in Jobs
      /\ UNCHANGED <<db, mem, queue, inst, todo, request, applied, claims>>
  BY SyncRunStep
<1>2. \/ ThreadIs(p, w, "idle", None, Blank("absent"))
      \/ s.status = "running" /\ ThreadIs(p, w, "work", j, Blank("absent"))
      \/ s.status = "completed" /\ ThreadIs(p, w, "attach", j, Blank("absent"))
  BY SyncRunStep
<1>3. \/ Failing /\ UNCHANGED run
      \/ \A r \in Runs : /\ run'[r].job = run[r].job
                         /\ run[r].job # j => run'[r].status = run[r].status
                         /\ run[r].job = j => run'[r].status = s.status
  <2>1. \A u \in Run : /\ [u EXCEPT !.status = s.status].job = u.job
                        /\ [u EXCEPT !.status = s.status].status = s.status
    BY DEF Run
  <2>2. \/ Failing /\ UNCHANGED run
        \/ \A r \in Runs : run'[r] = IF run[r].job = j THEN [run[r] EXCEPT !.status = s.status]
                                   ELSE run[r]
    BY SyncRunStep
  <2>. HIDE DEF j, s
  <2>. QED
    BY <2>1, <2>2, RunTypes
<1>4. ~Repeatable(j) => mem[p][j].status = s.status
  BY <1>1 DEF TInv, Ended
<1>5. Blank("absent").status = "absent" /\ RunOf[j] \in Runs /\ \A l \in Jobs : RunOf[l] \in Runs
  BY <1>1, RunTypes DEF Blank
<1>6. Queued(p)' = Queued(p)
  BY <1>1 DEF Queued
<1>7. Whole(p)'
  BY <1>1, <1>6 DEF OInv, Whole
<1>8. Unpublished(p)'
  BY <1>1, <1>2, <1>3, <1>4, <1>5, <1>6, NeverFailing
     DEF OInv, Unpublished, Before, Waits, Handing, ThreadIs
<1>9. CancelledOnce(p)'
  BY <1>1, <1>2, <1>3, <1>4, <1>5, <1>6, NeverFailing DEF OInv, CancelledOnce, ThreadIs
<1>10. Agree(p)'
  BY <1>1, <1>2, <1>3, <1>4, <1>5, <1>6, NeverFailing DEF OInv, Agree, OnceThread, ThreadIs, TInv
<1>11. RunAgrees(p)'
  BY <1>1, <1>2, <1>3, <1>4, <1>5, <1>6, NeverFailing
     DEF OInv, RunAgrees, OnceThread, Repeatable, ThreadIs, TInv
<1>. QED
  BY <1>7, <1>8, <1>9, <1>10, <1>11 DEF OInv

LEMMA StartAlone ==
    ASSUME NEW p, Instances = {p}, IInv, TInv, OInv(p), Start(p)
    PROVE  OInv(p)'
<1>1. /\ inst[p] = "new" /\ inst'[p] = "restoring"
      /\ UNCHANGED <<db, run, mem, queue, worker, request, applied, claims>>
  BY StartStep
<1>2. todo'[p] = {}
  <2>1. Selected = {} /\ todo[p] = {}
    BY <1>1 DEF Selected, Restorable, Active, OInv, Whole
  <2>. QED
    BY <2>1, StartStep
<1>3. Queued(p)' = Queued(p)
  BY <1>1 DEF Queued
<1>4. Unpublished(p)' /\ RunAgrees(p)'
  BY <1>1, <1>3 DEF OInv, Unpublished, Before, Waits, Handing, RunAgrees
<1>5. Whole(p)'
  BY <1>1, <1>2, <1>3, NeverFailing DEF OInv, Whole
<1>6. CancelledOnce(p)'
  BY <1>1, <1>2, <1>3, NeverFailing DEF OInv, CancelledOnce
<1>7. Agree(p)'
  BY <1>1, <1>2, <1>3, NeverFailing DEF OInv, Agree
<1>. QED
  BY <1>4, <1>5, <1>6, <1>7 DEF OInv

LEMMA ServeAlone ==
    ASSUME NEW p, Instances = {p}, IInv, TInv, OInv(p), Serve(p)
    PROVE  OInv(p)'
<1>1. /\ inst[p] = "restoring" /\ inst'[p] = "up"
      /\ UNCHANGED <<db, run, mem, queue, todo, worker, request, applied, claims, faults>>
  BY ServeStep
<1>2. Queued(p)' = Queued(p)
  BY <1>1 DEF Queued
<1>3. Unpublished(p)' /\ RunAgrees(p)'
  BY <1>1, <1>2 DEF OInv, Unpublished, Before, Waits, Handing, RunAgrees
<1>4. Whole(p)'
  BY <1>1, <1>2, NeverFailing DEF OInv, Whole
<1>5. CancelledOnce(p)'
  BY <1>1, <1>2, NeverFailing DEF OInv, CancelledOnce, Whole, TInv
<1>6. Agree(p)'
  BY <1>1, <1>2, NeverFailing DEF OInv, Agree, Whole, HasRow, TInv, Known
<1>. QED
  BY <1>3, <1>4, <1>5, <1>6 DEF OInv

LEMMA CrashAlone ==
    ASSUME NEW p, Instances = {p}, IInv, TInv, OInv(p), Crash(p)
    PROVE  OInv(p)'
<1>1. UNCHANGED <<db, run, applied, claims, faults>>
  BY CrashStep
<1>2. /\ inst'[p] = "down" /\ Queued(p)' = {}
      /\ \A l \in Jobs : mem'[p][l].status = "absent"
      /\ \A v \in Workers : /\ worker'[p][v].pc = "idle" /\ worker'[p][v].job = None
                            /\ worker'[p][v].snap.status = "absent"
      /\ \A d \in Clients : request'[d].pc = "idle" /\ request'[d].at = None /\ request'[d].job = None
  BY CrashStep, BusyTypes DEF DeadIs, Blank, TInv, Idle
<1>3. Whole(p)'
  BY <1>1, <1>2 DEF OInv, Whole
<1>4. Unpublished(p)'
  BY <1>1, <1>2 DEF OInv, Unpublished, Before, Waits, Handing
<1>5. CancelledOnce(p)'
  BY <1>1, <1>2, NoNone DEF OInv, CancelledOnce
<1>6. Agree(p)'
  BY <1>1, <1>2 DEF OInv, Agree
<1>7. RunAgrees(p)'
  BY <1>1, <1>2 DEF OInv, RunAgrees
<1>. QED
  BY <1>3, <1>4, <1>5, <1>6, <1>7 DEF OInv

LEMMA LeaseExpiresAlone ==
    ASSUME NEW p, Instances = {p}, IInv, TInv, OInv(p), NEW j \in Jobs, LeaseExpires(j)
    PROVE  OInv(p)'
<1>1. UNCHANGED <<run, queue, inst, todo, worker, request, applied, claims, faults>>
  BY LeaseExpiresStep
<1>2. /\ \A l \in Jobs : db'[l].status = db[l].status
      /\ \A l \in Jobs : mem'[p][l].status = mem[p][l].status /\ mem'[p][l].cancel = mem[p][l].cancel
  BY LeaseExpiresStep DEF Fields
<1>3. Queued(p)' = Queued(p)
  BY <1>1 DEF Queued
<1>4. Whole(p)'
  BY <1>1, <1>2, <1>3, NeverFailing DEF OInv, Whole
<1>5. Unpublished(p)'
  BY <1>1, <1>2, <1>3, NeverFailing DEF OInv, Unpublished, Before, Waits, Handing
<1>6. CancelledOnce(p)'
  BY <1>1, <1>2, <1>3, NeverFailing DEF OInv, CancelledOnce
<1>7. Agree(p)'
  BY <1>1, <1>2, <1>3, BusyTypes, NeverFailing DEF OInv, Agree
<1>8. RunAgrees(p)'
  BY <1>1, <1>2, <1>3, NeverFailing DEF OInv, RunAgrees
<1>. QED
  BY <1>4, <1>5, <1>6, <1>7, <1>8 DEF OInv

LEMMA SupersedeAlone ==
    ASSUME NEW p, Instances = {p}, IInv, TInv, OInv(p), NEW r \in Runs, Supersede(r)
    PROVE  OInv(p)'
<1>1. UNCHANGED <<mem, queue, inst, todo, worker, request, applied, claims, faults>>
  BY SupersedeStep
<1>2. \A l \in Jobs : db'[l].status = db[l].status /\ RunOf[l] \in Runs
  BY SupersedeStep, RunTypes DEF Fields
<1>3. \A q \in Runs : run'[q].job = run[q].job /\ run'[q].status \in {run[q].status, "superseded"}
  BY SupersedeStep
<1>4. Queued(p)' = Queued(p)
  BY <1>1 DEF Queued
<1>5. Whole(p)'
  BY <1>1, <1>2, <1>3, <1>4, NeverFailing DEF OInv, Whole
<1>6. Unpublished(p)'
  BY <1>1, <1>2, <1>3, <1>4, NeverFailing DEF OInv, Unpublished, Before, Waits, Handing
<1>7. CancelledOnce(p)'
  BY <1>1, <1>2, <1>3, <1>4, NeverFailing DEF OInv, CancelledOnce
<1>8. Agree(p)'
  BY <1>1, <1>2, <1>3, <1>4, NeverFailing DEF OInv, Agree
<1>9. RunAgrees(p)'
  BY <1>1, <1>2, <1>3, <1>4, NeverFailing DEF OInv, RunAgrees
<1>. QED
  BY <1>5, <1>6, <1>7, <1>8, <1>9 DEF OInv
LEMMA OInit ==
    ASSUME NEW p, Instances = {p}, Init PROVE OInv(p)
<1>1. /\ \A j \in Jobs : db[j].status = "absent" /\ mem[p][j].status = "absent" /\ applied[j] = 0
      /\ inst[p] = "new" /\ todo[p] = {}
  BY DEF Init, Blank
<1>2. /\ \A w \in Workers : worker[p][w].pc = "idle" /\ worker[p][w].job = None
      /\ \A c \in Clients : request[c].pc = "idle" /\ request[c].job = None
      /\ \A r \in Runs : run[r].job = None
  BY IdleFields DEF Init
<1>3. Whole(p) /\ Unpublished(p) /\ CancelledOnce(p)
  BY <1>1, <1>2, NoNone DEF Whole, Unpublished, Before, CancelledOnce
<1>4. Agree(p)
  BY <1>1, <1>2 DEF Agree
<1>5. RunAgrees(p)
  BY <1>1, <1>2, JobManagerAssumption DEF RunAgrees
<1>. QED
  BY <1>3, <1>4, <1>5 DEF OInv

LEMMA OStutters ==
    ASSUME NEW p, OInv(p), UNCHANGED vars PROVE OInv(p)'
<1>1. UNCHANGED <<db, run, mem, queue, inst, todo, worker, request, applied>>
  BY DEF vars
<1>2. Queued(p)' = Queued(p)
  BY <1>1 DEF Queued
<1>. QED
  BY <1>1, <1>2
     DEF OInv, Whole, Unpublished, Before, Waits, Handing, CancelledOnce, Agree, RunAgrees

LEMMA NothingToRestore ==
    ASSUME NEW p, Instances = {p}, TInv, OInv(p) PROVE todo[p] = {}
BY DEF TInv, Lives, OInv, Whole

LEMMA OStep ==
    ASSUME NEW p, Instances = {p}, IInv, TInv, OInv(p), [Next]_vars PROVE OInv(p)'
<1>1. ASSUME NEW c \in Clients, ClientStep(c) PROVE OInv(p)'
  BY <1>1, SubmitAlone, SubmitUnsavedAlone, CancelAlone, CancelTerminalAlone, AttachRunAlone,
     AttachFailsAlone, EnqueueAlone, SnapCancelAlone, PersistCancelAlone DEF ClientStep
<1>2. ASSUME NEW j \in Jobs, GetJob(p, j) \/ ReuseRow(p, j) PROVE OInv(p)'
  BY <1>2, ReadRowAlone
<1>3. ASSUME NEW w \in Workers, WorkerStep(p, w) PROVE OInv(p)'
  BY <1>3, TakeAlone, ClaimAlone, ClaimLostAlone, ClaimRecordAlone, CheckPassesAlone, ReportAlone,
     StopAlone, ApplyAlone, FailAlone, CompleteAlone, PersistRecordAlone, SyncRunAlone, AttachAlone
     DEF WorkerStep
<1>4. ASSUME Start(p) \/ RestoreStep(p) \/ Crash(p) PROVE OInv(p)'
  BY <1>4, StartAlone, NothingToRestore, ServeAlone, CrashAlone DEF RestoreStep
<1>5. ASSUME NEW j \in Jobs, LeaseExpires(j) PROVE OInv(p)'
  BY <1>5, LeaseExpiresAlone
<1>6. ASSUME NEW r \in Runs, Supersede(r) PROVE OInv(p)'
  BY <1>6, SupersedeAlone
<1>7. ASSUME NEW i \in Instances, NEW e \in todo[i], CrashInRestore(i, e) PROVE FALSE
  BY <1>7, NothingToRestore
<1>8. CASE Next
  BY <1>1, <1>2, <1>3, <1>4, <1>5, <1>6, <1>7, <1>8 DEF Next
<1>. QED
  BY <1>8, OStutters

LEMMA OInvariance ==
    ASSUME NEW p, Instances = {p} PROVE Spec => [](IInv /\ TInv /\ OInv(p))
<1>1. Init => IInv /\ TInv /\ OInv(p)
  BY InitHolds, TInit, OInit
<1>2. (IInv /\ TInv /\ OInv(p)) /\ [Next]_vars => (IInv /\ TInv /\ OInv(p))'
  BY StepKeeps, TStep, OStep
<1>. QED
  BY <1>1, <1>2, PTL DEF Spec

(* In a process of its own a job that ended as cancelled has published     *)
(* nothing, except for the audio of a preview.                             *)
THEOREM CancelledStaysUnpublished ==
    ASSUME NEW p, Instances = {p} PROVE Spec => []CancelledIsUnpublished
<1>1. ASSUME IInv, TInv, OInv(p), NEW j \in Jobs, NEW r \in Copies(j),
             r.status = "cancelled", applied[j] > 0
      PROVE  Kind[j] = "preview_audio"
  <2>. SUFFICES ASSUME ~Rechecks(j) PROVE FALSE
    BY DEF Rechecks
  <2>1. mem[p][j].status # "cancelled" /\ db[j].status # "cancelled"
    BY <1>1 DEF OInv, CancelledOnce
  <2>2. \/ r \in {db[j], mem[p][j]}
        \/ \E w \in Workers : worker[p][w].job = j /\ r = worker[p][w].snap
        \/ \E c \in Clients : request[c].job = j /\ r = request[c].snap
    BY NothingToRestore, <1>1 DEF Copies
  <2>. QED
    BY <1>1, <2>1, <2>2 DEF OInv, CancelledOnce
<1>2. IInv /\ TInv /\ OInv(p) => CancelledIsUnpublished
  BY <1>1 DEF CancelledIsUnpublished
<1>. QED
  BY <1>2, OInvariance, PTL

(* In a process of its own, while the database works, the row of a job     *)
(* that nobody cancelled and nobody deals with says what its record says.  *)
THEOREM RowsAgree ==
    ASSUME NEW p, Instances = {p}, MaxFaults = 0, RepeatPreviews = FALSE
    PROVE  Spec => []UncancelledRowAgrees
<1>1. OInv(p) => UncancelledRowAgrees
  BY DEF OInv, Agree, UncancelledRowAgrees, Quiet, Handles
<1>. QED
  BY <1>1, OInvariance, PTL

(* ... and the generation run of such a job has ended as the job has,      *)
(* unless it was superseded.                                               *)
THEOREM RunsFollow ==
    ASSUME NEW p, Instances = {p}, MaxFaults = 0
    PROVE  Spec => []RunFollowsJob
<1>1. OInv(p) => RunFollowsJob
  BY DEF OInv, RunAgrees, RunFollowsJob, Quiet, Handles
<1>. QED
  BY <1>1, OInvariance, PTL

-----------------------------------------------------------------------------
(* What the clients of such a process see of a job: JobLifecycle.          *)

(* What a step does to the status of the records: nothing, or it moves one *)
(* job on, or it publishes the result of one that runs.                    *)
Moves(p, j, from, to) ==
    /\ mem[p][j].status \in from
    /\ \A l \in Jobs : mem'[p][l].status = IF l = j THEN to ELSE mem[p][l].status
    /\ UNCHANGED applied
Same(p) ==
    /\ \A l \in Jobs : mem'[p][l].status = mem[p][l].status
    /\ UNCHANGED applied
Publishes(p, j) ==
    /\ mem[p][j].status = "running" /\ applied[j] = 0
    /\ \A l \in Jobs : mem'[p][l].status = mem[p][l].status
    /\ applied' = [applied EXCEPT ![j] = 1]
LifeStep(p) ==
    \/ Same(p)
    \/ \E j \in Jobs :
          \/ Moves(p, j, {"absent"}, "queued")
          \/ Moves(p, j, {"queued"}, "running")
          \/ Moves(p, j, {"queued", "running"}, "failed")
          \/ (applied[j] > 0 => Rechecks(j)) /\ Moves(p, j, {"running"}, "cancelled")
          \/ applied[j] > 0 /\ Moves(p, j, {"running"}, "completed")
          \/ Publishes(p, j)

LEMMA OneInstance ==
    ASSUME NEW p, Instances = {p} PROVE TheInstance = p
BY DEF TheInstance

LEMMA LifeRefines ==
    ASSUME NEW p, Instances = {p}, LifeStep(p) PROVE [Life!Next]_(Life!lifeVars)
<1>. DEFINE s == [j \in Jobs |-> mem[p][j].status]
<1>1. /\ [j \in Jobs |-> mem[TheInstance][j].status] = s
      /\ [j \in Jobs |-> mem'[TheInstance][j].status] = s'
  BY OneInstance
<1>2. CASE Same(p)
  <2>1. s' = s /\ UNCHANGED applied
    BY <1>2 DEF Same
  <2>. QED
    BY <1>1, <2>1 DEF Life!lifeVars
<1>3. ASSUME NEW j \in Jobs, NEW from, NEW to, Moves(p, j, from, to)
      PROVE  s[j] \in from /\ s' = [s EXCEPT ![j] = to] /\ UNCHANGED applied
  BY <1>3 DEF Moves
<1>4. ASSUME NEW j \in Jobs, Publishes(p, j)
      PROVE  s[j] = "running" /\ s' = s /\ applied[j] = 0 /\ applied' = [applied EXCEPT ![j] = 1]
  BY <1>4 DEF Publishes
<1>. DEFINE Cancels(j) == (applied[j] > 0 => Rechecks(j)) /\ Moves(p, j, {"running"}, "cancelled")
            Ends(j) == applied[j] > 0 /\ Moves(p, j, {"running"}, "completed")
<1>5. ASSUME NEW j \in Jobs, Moves(p, j, {"absent"}, "queued") PROVE Life!Next
  <2>1. Life!Submit(j)
    BY <1>1, <1>3, <1>5 DEF Life!Submit, Life!Enter
  <2>. QED
    BY <2>1 DEF Life!Next
<1>6. ASSUME NEW j \in Jobs, Moves(p, j, {"queued"}, "running") PROVE Life!Next
  <2>1. Life!Begin(j)
    BY <1>1, <1>3, <1>6 DEF Life!Begin, Life!Enter
  <2>. QED
    BY <2>1 DEF Life!Next, Life!Progress
<1>7. ASSUME NEW j \in Jobs, Moves(p, j, {"queued", "running"}, "failed") PROVE Life!Next
  <2>1. Life!Fail(j)
    BY <1>1, <1>3, <1>7 DEF Life!Fail, Life!Enter
  <2>. QED
    BY <2>1 DEF Life!Next, Life!Progress
<1>8. ASSUME NEW j \in Jobs, Cancels(j) PROVE Life!Next
  <2>1. Life!Cancel(j)
    BY <1>1, <1>3, <1>8 DEF Life!Cancel, Life!Enter
  <2>. QED
    BY <2>1 DEF Life!Next, Life!Progress
<1>9. ASSUME NEW j \in Jobs, Ends(j) PROVE Life!Next
  <2>1. Life!Complete(j)
    BY <1>1, <1>3, <1>9 DEF Life!Complete, Life!Enter
  <2>. QED
    BY <2>1 DEF Life!Next, Life!Progress
<1>10. ASSUME NEW j \in Jobs, Publishes(p, j) PROVE Life!Next
  <2>1. Life!Publish(j)
    BY <1>1, <1>4, <1>10 DEF Life!Publish
  <2>. QED
    BY <2>1 DEF Life!Next, Life!Progress
<1>. QED
  BY <1>2, <1>5, <1>6, <1>7, <1>8, <1>9, <1>10 DEF LifeStep

LEMMA NobodyDies ==
    ASSUME NEW p, Instances = {p}, MaxCrashes = 0 PROVE ~MayCrash
<1>1. {i \in Instances : inst[i] = "down"} \in {{}, {p}}
  OBVIOUS
<1>2. Cardinality({}) = 0 /\ Cardinality({p}) = 1
  BY FS_EmptySet, FS_Singleton
<1>. QED
  BY <1>1, <1>2 DEF MayCrash

LEMMA ClientLives ==
    ASSUME NEW p, Instances = {p}, IInv, TInv, OInv(p), NEW c \in Clients, ClientStep(c)
    PROVE  LifeStep(p)
<1>1. ASSUME NEW j \in Jobs, Submit(c, p, j) PROVE LifeStep(p)
  <2>1. PICK r \in Record : MemIs(p, j, r) /\ Fields(r, "queued", FALSE, 0, None, FALSE)
    BY <1>1, SubmitStep
  <2>2. mem[p][j].status = "absent" /\ UNCHANGED applied
    BY <1>1, SubmitStep
  <2>3. Moves(p, j, {"absent"}, "queued")
    BY <2>1, <2>2 DEF Moves, MemIs, Fields
  <2>. QED
    BY <2>3 DEF LifeStep
<1>2. ASSUME NEW j \in Jobs, Cancel(c, p, j) PROVE LifeStep(p)
  <2>1. inst[p] = "up" /\ KnownRecord(p, j).status \in Active /\ UNCHANGED applied
    BY <1>2, CancelStep
  <2>2. KnownRecord(p, j) = mem[p][j]
    BY <2>1 DEF KnownRecord, OInv, Whole, Active
  <2>3. PICK r \in Record :
           /\ MemIs(p, j, r)
           /\ Fields(r, mem[p][j].status, TRUE, mem[p][j].retry, mem[p][j].owner, mem[p][j].fresh)
    BY <1>2, <2>2, CancelStep
  <2>4. Same(p)
    BY <2>1, <2>3 DEF Same, MemIs, Fields
  <2>. QED
    BY <2>4 DEF LifeStep
<1>3. ASSUME NEW j \in Jobs, CancelTerminal(c, p, j) PROVE LifeStep(p)
  <2>1. KnownRecord(p, j) = mem[p][j]
    BY <1>3, CancelTerminalStep DEF KnownRecord, OInv, Whole, Terminal
  <2>2. Same(p)
    BY <1>3, <2>1, CancelTerminalStep DEF Same, MemIs
  <2>. QED
    BY <2>2 DEF LifeStep
<1>4. ASSUME AttachFails(c) PROVE LifeStep(p)
  <2>. DEFINE j == request[c].job
  <2>1. /\ request[c].pc = "accepted" /\ j \in Jobs /\ request[c].at = p /\ UNCHANGED applied
    BY <1>4, AttachFailsStep
  <2>2. PICK r \in Record :
           /\ MemIs(p, j, r)
           /\ Fields(r, "failed", mem[p][j].cancel, mem[p][j].retry, mem[p][j].owner, mem[p][j].fresh)
    BY <1>4, <2>1, AttachFailsStep
  <2>3. mem[p][j].status = "queued"
    BY <2>1 DEF TInv, Waiting, Waits, Handing
  <2>4. Moves(p, j, {"queued", "running"}, "failed")
    BY <2>1, <2>2, <2>3 DEF Moves, MemIs, Fields
  <2>. QED
    BY <2>1, <2>4 DEF LifeStep
<1>5. CASE UNCHANGED <<mem, applied>>
  BY <1>5 DEF LifeStep, Same
<1>6. \/ \E j \in Jobs : Submit(c, p, j) \/ Cancel(c, p, j) \/ CancelTerminal(c, p, j)
      \/ AttachFails(c)
      \/ UNCHANGED <<mem, applied>>
  BY DEF ClientStep, SubmitUnsaved, AttachRun, Enqueue, SnapCancel, PersistCancel
<1>. QED
  BY <1>1, <1>2, <1>3, <1>4, <1>5, <1>6

LEMMA WorkerLives ==
    ASSUME RepeatPreviews = FALSE, NEW p, Instances = {p}, IInv, TInv, OInv(p),
           NEW w \in Workers, WorkerStep(p, w)
    PROVE  LifeStep(p)
<1>. DEFINE j == worker[p][w].job
<1>1. ~Repeatable(j)
  BY DEF Repeatable
<1>2. worker[p][w].pc \in Running => mem[p][j].status = "running" /\ j \in Jobs
  BY BusyTypes DEF TInv, Held, RunsOn, RecordOf, Running
<1>3. worker[p][w].pc \in {"taken", "claimed"} => mem[p][j].status = "queued" /\ j \in Jobs
  BY BusyTypes DEF TInv, Waiting, Waits
<1>4. ASSUME NEW to, UNCHANGED applied, NEW r \in Record, MemIs(p, j, r), r.status = to, j \in Jobs
      PROVE  /\ mem[p][j].status = to => Same(p)
             /\ \A from : mem[p][j].status \in from => Moves(p, j, from, to)
  BY <1>4 DEF Moves, Same, MemIs
<1>5. CASE ClaimRecord(p, w)
  <2>1. worker[p][w].pc = "claimed" /\ j \in Jobs /\ UNCHANGED applied
    BY <1>5, ClaimRecordStep
  <2>2. PICK r \in Record :
           MemIs(p, j, r) /\ Fields(r, "running", mem[p][j].cancel, mem[p][j].retry, p, TRUE)
    BY <1>5, ClaimRecordStep
  <2>3. Moves(p, j, {"queued"}, "running")
    BY <1>3, <1>4, <2>1, <2>2 DEF Fields
  <2>. QED
    BY <2>1, <2>3 DEF LifeStep
<1>6. ASSUME NEW to, NEW cancel, NEW pc, Updates(p, w, to, cancel, pc)
      PROVE  /\ j \in Jobs /\ UNCHANGED applied
             /\ mem[p][j].status = to => Same(p)
             /\ \A from : mem[p][j].status \in from => Moves(p, j, from, to)
  <2>1. j \in Jobs /\ UNCHANGED applied
    BY <1>6 DEF Updates
  <2>2. PICK r \in Record :
           /\ MemIs(p, j, r) /\ ThreadIs(p, w, pc, j, r)
           /\ Fields(r, to, cancel, mem[p][j].retry, mem[p][j].owner, mem[p][j].fresh)
    BY <1>6 DEF Updates
  <2>. QED
    BY <1>4, <2>1, <2>2 DEF Fields
<1>7. CASE Report(p, w)
  <2>1. Same(p)
    BY <1>2, <1>6, <1>7, ReportStep DEF Running
  <2>. QED
    BY <2>1 DEF LifeStep
<1>8. CASE Attach(p, w)
  <2>1. Same(p)
    BY <1>6, <1>8, AttachStep DEF RecordOf
  <2>. QED
    BY <2>1 DEF LifeStep
<1>9. CASE Stop(p, w)
  <2>1. \/ worker[p][w].pc \in {"begin", "work"}
        \/ worker[p][w].pc = "applied" /\ Rechecks(j)
    BY <1>9, StopStep
  <2>2. j \in Jobs /\ Moves(p, j, {"running"}, "cancelled")
    BY <1>2, <1>6, <1>9, <2>1, StopStep DEF Running
  <2>3. applied[j] > 0 => Rechecks(j)
    BY <1>1, <2>1, <2>2 DEF OInv, Unpublished, Before
  <2>. QED
    BY <2>2, <2>3 DEF LifeStep
<1>10. CASE Fail(p, w)
  <2>1. worker[p][w].pc \in Running \cup {"taken"}
    BY <1>10, FailStep DEF Running
  <2>2. j \in Jobs /\ Moves(p, j, {"queued", "running"}, "failed")
    BY <1>2, <1>3, <1>6, <1>10, <2>1, FailStep
  <2>. QED
    BY <2>2 DEF LifeStep
<1>11. CASE Complete(p, w)
  <2>1. worker[p][w].pc \in {"applied", "rechecked"}
    BY <1>11, CompleteStep
  <2>2. j \in Jobs /\ Moves(p, j, {"running"}, "completed")
    BY <1>2, <1>6, <1>11, <2>1, CompleteStep DEF Running
  <2>3. applied[j] > 0
    BY <2>1 DEF IInv, Published, PubThread
  <2>. QED
    BY <2>2, <2>3 DEF LifeStep
<1>12. CASE Apply(p, w)
  <2>1. worker[p][w].pc = "commit" /\ j \in Jobs /\ UNCHANGED mem
    BY <1>12, ApplyStep
  <2>2. mem[p][j].status = "running" /\ applied[j] = 0
    BY <1>1, <1>2, <2>1 DEF OInv, Unpublished, Before, Running
  <2>3. applied' = [applied EXCEPT ![j] = 1]
    BY <1>12, <2>2 DEF Apply
  <2>4. Publishes(p, j)
    BY <2>1, <2>2, <2>3 DEF Publishes
  <2>. QED
    BY <2>1, <2>4 DEF LifeStep
<1>13. CASE UNCHANGED <<mem, applied>>
  BY <1>13 DEF LifeStep, Same
<1>14. \/ ClaimRecord(p, w) \/ Report(p, w) \/ Attach(p, w) \/ Stop(p, w) \/ Fail(p, w)
       \/ Complete(p, w) \/ Apply(p, w) \/ UNCHANGED <<mem, applied>>
  BY DEF WorkerStep, Take, Claim, ClaimLost, CheckPasses, PersistRecord, SyncRun
<1>. QED
  BY <1>5, <1>7, <1>8, <1>9, <1>10, <1>11, <1>12, <1>13, <1>14

LEMMA NextLives ==
    ASSUME MaxCrashes = 0, RepeatPreviews = FALSE, NEW p, Instances = {p},
           IInv, TInv, OInv(p), [Next]_vars
    PROVE  LifeStep(p)
<1>1. ASSUME NEW c \in Clients, ClientStep(c) PROVE LifeStep(p)
  BY <1>1, ClientLives
<1>2. ASSUME NEW j \in Jobs, GetJob(p, j) \/ ReuseRow(p, j) PROVE FALSE
  <2>1. ~Repeatable(j)
    BY DEF Repeatable
  <2>. QED
    BY <1>2, <2>1, ReadRowStep DEF OInv, Whole
<1>3. ASSUME NEW w \in Workers, WorkerStep(p, w) PROVE LifeStep(p)
  BY <1>3, WorkerLives
<1>4. ASSUME Crash(p) PROVE FALSE
  BY <1>4, NobodyDies DEF Crash
<1>5. ASSUME NEW j \in Jobs, LeaseExpires(j) PROVE LifeStep(p)
  <2>1. Same(p)
    BY <1>5, LeaseExpiresStep DEF Same, Fields
  <2>. QED
    BY <2>1 DEF LifeStep
<1>6. ASSUME NEW i \in Instances, NEW e \in todo[i] PROVE FALSE
  BY <1>6, NothingToRestore
<1>7. CASE UNCHANGED <<mem, applied>>
  BY <1>7 DEF LifeStep, Same
<1>8. ASSUME Start(p) \/ Serve(p) PROVE LifeStep(p)
  BY <1>7, <1>8 DEF Start, Serve
<1>9. ASSUME NEW r \in Runs, Supersede(r) PROVE LifeStep(p)
  BY <1>7, <1>9 DEF Supersede
<1>10. CASE Next
  BY <1>1, <1>2, <1>3, <1>4, <1>5, <1>6, <1>8, <1>9, <1>10 DEF Next, RestoreStep
<1>11. CASE UNCHANGED vars
  BY <1>7, <1>11 DEF vars
<1>. QED
  BY <1>10, <1>11

(* A process that does not die gives its clients what JobLifecycle says:   *)
(* a job starts absent, its status only moves along queued, running and    *)
(* one end, it completes after its result was published, it is cancelled   *)
(* before that, and the result is published once while it runs.            *)
THEOREM ProcessKeepsLifecycle ==
    ASSUME MaxCrashes = 0, RepeatPreviews = FALSE, NEW p, Instances = {p}
    PROVE  Spec => Life!Init /\ [][Life!Next]_(Life!lifeVars)
<1>1. Init => Life!Init
  <2>. SUFFICES ASSUME Init PROVE Life!Init
    OBVIOUS
  <2>1. (\A j \in Jobs : mem[p][j].status = "absent") /\ applied = [j \in Jobs |-> 0]
    BY DEF Init, Blank
  <2>2. [j \in Jobs |-> mem[TheInstance][j].status] = [j \in Jobs |-> "absent"]
    BY <2>1, OneInstance
  <2>. QED
    BY <2>1, <2>2 DEF Life!Init
<1>2. (IInv /\ TInv /\ OInv(p)) /\ [Next]_vars => [Life!Next]_(Life!lifeVars)
  BY NextLives, LifeRefines
<1>. QED
  BY <1>1, <1>2, OInvariance, PTL DEF Spec

-----------------------------------------------------------------------------
(* A job is executed once at a time.                                       *)

(* Nobody asks to cancel the job through cancel_job: no snapshot that a    *)
(* cancel request took can give the job back to the queue later.           *)
NotAsked(j) ==
    \A c \in Clients : request[c].job = j => request[c].pc \notin {"flagged", "snapped"}

(* A thread that has claimed the job, unless it is about to say it failed. *)
Working(i, w, j) ==
    /\ Executes(i, w, j)
    /\ ~(worker[i][w].pc \in {"persist", "sync"} /\ worker[i][w].snap.status = "failed")

(* Its instance holds the lease of the job, or the row says it is over;    *)
(* there is no other such thread; and what a thread is about to persist    *)
(* does not make the row one that somebody else may claim.                 *)
Owned(i, j) == db[j].status = "running" /\ db[j].owner = i /\ db[j].fresh
Leased(j) ==
    \A i \in Instances, w \in Workers :
        Working(i, w, j) => Owned(i, j) \/ db[j].status \in Terminal
Single(j) ==
    \A i, k \in Instances, v, w \in Workers :
        Working(i, v, j) /\ Working(k, w, j) => i = k /\ v = w
Saves ==
    \A i \in Instances, w \in Workers :
        /\ worker[i][w].pc = "persist" =>
              \/ worker[i][w].snap.status = "running" /\ worker[i][w].snap.owner = i
              \/ worker[i][w].snap.status \in Terminal
        /\ worker[i][w].pc = "persistResult" => worker[i][w].snap.status \in Terminal
        /\ worker[i][w].pc \in {"attach", "persistResult"} =>
              \A j \in Jobs : worker[i][w].job = j => ~Repeatable(j)

LEMMA SavesStarts == Init => Saves
BY IdleFields DEF Init, Saves

(* Only the threads change, and only in ways Saves allows.                 *)
LEMMA SavesKept ==
    ASSUME Saves,
           \A i \in Instances, w \in Workers :
              \/ /\ worker'[i][w].pc = worker[i][w].pc
                 /\ worker'[i][w].job = worker[i][w].job
                 /\ worker'[i][w].snap = worker[i][w].snap
              \/ worker'[i][w].pc \notin {"persist", "attach", "persistResult"}
    PROVE  Saves'
BY DEF Saves

LEMMA SavesUpdated ==
    ASSUME IInv, TInv, Saves, NEW i \in Instances, NEW w \in Workers, NEW to, NEW cancel, NEW pc,
           Updates(i, w, to, cancel, pc),
           \/ pc = "persist" /\ to \in Terminal
           \/ pc = "persist" /\ to = "running" /\ RecordOf(i, w).owner = i
           \/ pc = "persistResult" /\ to \in Terminal /\ worker[i][w].pc = "attach"
    PROVE  Saves'
<1>. DEFINE j == worker[i][w].job
<1>1. PICK r \in Record :
         /\ MemIs(i, j, r) /\ ThreadIs(i, w, pc, j, r)
         /\ Fields(r, to, cancel, mem[i][j].retry, mem[i][j].owner, mem[i][j].fresh)
  BY DEF Updates
<1>2. r.status = to /\ r.owner = mem[i][j].owner
  BY <1>1 DEF Fields
<1>3. /\ worker'[i][w].pc = pc /\ worker'[i][w].job = j /\ worker'[i][w].snap = r
      /\ \A k \in Instances, v \in Workers : k # i \/ v # w =>
            /\ worker'[k][v].pc = worker[k][v].pc
            /\ worker'[k][v].job = worker[k][v].job
            /\ worker'[k][v].snap = worker[k][v].snap
  BY <1>1 DEF ThreadIs
<1>. QED
  BY <1>2, <1>3 DEF Saves, RecordOf

LEMMA SavesStep == IInv /\ TInv /\ Saves /\ [Next]_vars => Saves'
<1>. SUFFICES ASSUME IInv, TInv, Saves, [Next]_vars PROVE Saves'
  OBVIOUS
<1>1. CASE UNCHANGED worker
  BY <1>1, SavesKept
<1>2. ASSUME NEW i \in Instances, NEW w \in Workers, NEW pc, NEW j, NEW s, ThreadIs(i, w, pc, j, s),
             pc \notin {"persist", "attach", "persistResult"}
      PROVE  Saves'
  BY <1>2, SavesKept DEF ThreadIs
<1>3. ASSUME NEW i \in Instances, DeadIs(i) PROVE Saves'
  BY <1>3, SavesKept DEF DeadIs
<1>4. ASSUME NEW i \in Instances, NEW w \in Workers, WorkerStep(i, w) PROVE Saves'
  <2>1. CASE Take(i, w)
    BY <2>1, <1>2, TakeStep DEF TInv, Once, OnceQueue
  <2>2. CASE Claim(i, w)
    <3>1. ThreadIs(i, w, "claimed", worker[i][w].job, worker[i][w].snap)
      BY <2>2, ClaimStep
    <3>. QED
      BY <1>2, <3>1
  <2>9. CASE ClaimLost(i, w)
    BY <2>9, <1>2, ClaimLostStep
  <2>10. CASE ClaimRecord(i, w)
    <3>1. ThreadIs(i, w, "begin", worker[i][w].job, worker[i][w].snap)
      BY <2>10, ClaimRecordStep
    <3>. QED
      BY <1>2, <3>1
  <2>3. CASE CheckPasses(i, w) \/ Apply(i, w)
    BY <2>3, <1>2, CheckPassesStep, ApplyStep
  <2>4. CASE Report(i, w)
    <3>1. RecordOf(i, w).owner = i
      BY <2>4, ReportStep DEF TInv, Held, RunsOn, Running
    <3>. QED
      BY <2>4, <3>1, SavesUpdated, ReportStep
  <2>5. CASE Stop(i, w)
    BY <2>5, SavesUpdated, StopStep DEF Terminal
  <2>11. CASE Fail(i, w)
    BY <2>11, SavesUpdated, FailStep DEF Terminal
  <2>12. CASE Complete(i, w)
    BY <2>12, SavesUpdated, CompleteStep DEF Terminal
  <2>6. CASE Attach(i, w)
    <3>1. worker[i][w].pc = "attach" /\ worker[i][w].job \in Jobs
      BY <2>6, AttachStep, BusyTypes
    <3>2. RecordOf(i, w).status = "completed"
      BY <3>1 DEF Saves, TInv, Ended, RecordOf
    <3>. QED
      BY <2>6, <3>1, <3>2, SavesUpdated, AttachStep DEF Terminal
  <2>7. CASE PersistRecord(i, w)
    BY <2>7, <1>2, PersistRecordStep
  <2>8. CASE SyncRun(i, w)
    <3>1. PICK j \in Jobs : j = worker[i][w].job
      BY <2>8, SyncRunStep
    <3>2. \/ \E pc \in {"work", "idle"} : \E l, s : ThreadIs(i, w, pc, l, s)
          \/ Kind[j] # "preview_audio" /\ ThreadIs(i, w, "attach", j, Blank("absent"))
      BY <2>8, <3>1, SyncRunStep
    <3>3. CASE Kind[j] # "preview_audio" /\ ThreadIs(i, w, "attach", j, Blank("absent"))
      BY <3>3 DEF ThreadIs, Saves, Repeatable
    <3>. QED
      BY <1>2, <3>2, <3>3
  <2>. QED
    BY <1>4, <2>1, <2>2, <2>3, <2>4, <2>5, <2>6, <2>7, <2>8, <2>9, <2>10, <2>11, <2>12
       DEF WorkerStep
<1>5. ASSUME NEW i \in Instances, Start(i) \/ RestoreStep(i) \/ Crash(i) PROVE Saves'
  BY <1>1, <1>3, <1>5, CrashStep DEF Start, RestoreStep, RestoreJob, RestoreLost, Serve
<1>6. ASSUME NEW i \in Instances, NEW e \in todo[i], CrashInRestore(i, e) PROVE Saves'
  BY <1>3, <1>6, CrashInRestoreStep
<1>7. ASSUME NEW c \in Clients, ClientStep(c) PROVE UNCHANGED worker
  BY <1>7 DEF ClientStep, Submit, SubmitUnsaved, Cancel, CancelTerminal, AttachRun, AttachFails,
              Enqueue, SnapCancel, PersistCancel
<1>8. ASSUME NEW i \in Instances, NEW j \in Jobs, GetJob(i, j) \/ ReuseRow(i, j) PROVE UNCHANGED worker
  BY <1>8 DEF GetJob, ReuseRow
<1>9. ASSUME NEW j \in Jobs, LeaseExpires(j) PROVE UNCHANGED worker
  BY <1>9 DEF LeaseExpires
<1>10. ASSUME NEW r \in Runs, Supersede(r) PROVE UNCHANGED worker
  BY <1>10 DEF Supersede
<1>. QED
  BY <1>1, <1>4, <1>5, <1>6, <1>7, <1>8, <1>9, <1>10 DEF Next, vars

(* A step that makes no thread work on the job and leaves its row leased   *)
(* as it is, or makes it one that is over.                                 *)
Leaves(j) ==
    /\ \A i \in Instances, w \in Workers : Working(i, w, j)' => Working(i, w, j)
    /\ \/ db'[j].status \in Terminal
       \/ db'[j].status = db[j].status /\ db'[j].owner = db[j].owner /\ db'[j].fresh = db[j].fresh

LEMMA LeftAlone ==
    ASSUME NEW j \in Jobs, Leased(j), Single(j), Leaves(j)
    PROVE  Leased(j)' /\ Single(j)'
BY DEF Leaves, Leased, Single, Owned

LEMMA NobodyWorks ==
    ASSUME NEW j \in Jobs, Leased(j), db[j].status # "running" \/ ~db[j].fresh,
           db[j].status \notin Terminal
    PROVE  \A i \in Instances, w \in Workers : ~Working(i, w, j)
BY DEF Leased, Owned

LEMMA FirstClaim ==
    ASSUME IInv, NEW i \in Instances, NEW w \in Workers, Claim(i, w),
           NEW j \in Jobs, Leased(j), Single(j)
    PROVE  Leased(j)' /\ Single(j)'
<1>1. PICK l \in Jobs : l = worker[i][w].job
  BY ClaimStep
<1>2. PICK r \in Record :
         RowIs(l, r) /\ Fields(r, "running", db[l].cancel, db[l].retry, i, TRUE)
  BY <1>1, ClaimStep
<1>3. ThreadIs(i, w, "claimed", l, worker[i][w].snap) /\ db[l].status = "queued"
  BY <1>1, ClaimStep DEF Claimable
<1>4. CASE l = j
  <2>1. \A k \in Instances, v \in Workers : ~Working(k, v, j)
    BY <1>3, <1>4, NobodyWorks DEF Terminal
  <2>2. \A k \in Instances, v \in Workers : Working(k, v, j)' => k = i /\ v = w
    BY <1>3, <2>1 DEF ThreadIs, Working, Executes
  <2>3. db'[j].status = "running" /\ db'[j].owner = i /\ db'[j].fresh
    BY <1>2, <1>4 DEF RowIs, Fields
  <2>. QED
    BY <2>2, <2>3 DEF Leased, Single, Owned
<1>5. CASE l # j
  <2>1. Leaves(j)
    BY <1>2, <1>3, <1>5 DEF Leaves, RowIs, ThreadIs, Working, Executes
  <2>. QED
    BY <2>1, LeftAlone
<1>. QED
  BY <1>4, <1>5

LEMMA WorkerOnce ==
    ASSUME IInv, TInv, Saves, NEW i \in Instances, NEW w \in Workers, WorkerStep(i, w),
           NEW j \in Jobs, Leased(j), Single(j)
    PROVE  Leased(j)' /\ Single(j)'
<1>1. CASE Claim(i, w)
  BY <1>1, FirstClaim
<1>2. ASSUME NEW pc, NEW l, NEW s, ThreadIs(i, w, pc, l, s),
             \/ pc \in {"idle", "taken"}
             \/ pc \in {"persist", "sync"} /\ s.status = "failed"
             \/ l = worker[i][w].job /\ Working(i, w, l)
      PROVE  \A k \in Instances, v \in Workers : Working(k, v, j)' => Working(k, v, j)
  BY <1>2 DEF ThreadIs, Working, Executes
<1>3. worker[i][w].pc \notin {"idle", "taken", "persist", "sync"} =>
         Working(i, w, worker[i][w].job)
  BY DEF Working, Executes
<1>4. ASSUME UNCHANGED db,
             \A k \in Instances, v \in Workers : Working(k, v, j)' => Working(k, v, j)
      PROVE  Leaves(j)
  BY <1>4 DEF Leaves
<1>5. CASE Take(i, w)
  <2>1. Leaves(j)
    BY <1>2, <1>4, <1>5, TakeStep DEF TInv, Once, OnceQueue
  <2>. QED
    BY <2>1, LeftAlone
<1>6. CASE ClaimLost(i, w)
  <2>1. Leaves(j)
    BY <1>2, <1>4, <1>6, ClaimLostStep
  <2>. QED
    BY <2>1, LeftAlone
<1>7. CASE ClaimRecord(i, w)
  <2>1. Leaves(j)
    BY <1>2, <1>3, <1>4, <1>7, ClaimRecordStep
  <2>. QED
    BY <2>1, LeftAlone
<1>8. CASE CheckPasses(i, w)
  <2>1. Leaves(j)
    BY <1>2, <1>3, <1>4, <1>8, CheckPassesStep
  <2>. QED
    BY <2>1, LeftAlone
<1>9. CASE Apply(i, w)
  <2>1. Leaves(j)
    BY <1>2, <1>3, <1>4, <1>9, ApplyStep
  <2>. QED
    BY <2>1, LeftAlone
<1>10. ASSUME NEW to, NEW cancel, NEW pc, Updates(i, w, to, cancel, pc),
              \/ pc = "persist" /\ to = "failed"
              \/ worker[i][w].pc \notin {"idle", "taken", "persist", "sync"}
       PROVE  Leaves(j)
  <2>. DEFINE l == worker[i][w].job
  <2>1. UNCHANGED db
    BY <1>10 DEF Updates
  <2>2. PICK r \in Record :
           /\ MemIs(i, l, r) /\ ThreadIs(i, w, pc, l, r)
           /\ Fields(r, to, cancel, mem[i][l].retry, mem[i][l].owner, mem[i][l].fresh)
    BY <1>10 DEF Updates
  <2>3. r.status = to
    BY <2>2 DEF Fields
  <2>. QED
    BY <1>2, <1>3, <1>4, <1>10, <2>1, <2>2, <2>3
<1>11. CASE Report(i, w) \/ Stop(i, w) \/ Complete(i, w) \/ Attach(i, w)
  <2>1. CASE Report(i, w)
    BY <1>10, <2>1, ReportStep, LeftAlone
  <2>2. CASE Stop(i, w)
    BY <1>10, <2>2, StopStep, LeftAlone
  <2>3. CASE Complete(i, w)
    BY <1>10, <2>3, CompleteStep, LeftAlone
  <2>4. CASE Attach(i, w)
    BY <1>10, <2>4, AttachStep, LeftAlone
  <2>. QED
    BY <1>11, <2>1, <2>2, <2>3, <2>4
<1>12. CASE Fail(i, w)
  <2>1. Leaves(j)
    BY <1>10, <1>12, FailStep
  <2>. QED
    BY <2>1, LeftAlone
<1>13. CASE PersistRecord(i, w)
  <2>. DEFINE l == worker[i][w].job
              s == worker[i][w].snap
  <2>1. /\ worker[i][w].pc \in {"persist", "persistResult"} /\ l \in Jobs /\ s \in Record
        /\ \/ ThreadIs(i, w, "idle", None, Blank("absent"))
           \/ worker[i][w].pc = "persist" /\ ThreadIs(i, w, "sync", l, s)
           \/ /\ worker[i][w].pc = "persist" /\ s.status = "running"
              /\ ThreadIs(i, w, "work", l, Blank("absent"))
    BY <1>13, PersistRecordStep
  <2>2. \/ UNCHANGED db
        \/ \E r \in Record : RowIs(l, r) /\ IsStored(i, s, r)
    BY <1>13, PersistRecordStep DEF Persisted
  <2>3. \A k \in Instances, v \in Workers : Working(k, v, j)' => Working(k, v, j)
    <3>1. worker[i][w].pc = "persist" /\ s.status # "failed" => Working(i, w, l)
      BY DEF Working, Executes
    <3>. QED
      BY <1>2, <2>1, <3>1
  <2>4. CASE UNCHANGED db
    BY <1>4, <2>3, <2>4, LeftAlone
  <2>5. ASSUME NEW r \in Record, RowIs(l, r), IsStored(i, s, r)
        PROVE  Leased(j)' /\ Single(j)'
    <3>1. CASE l # j \/ s.status \in Terminal
      <4>1. Leaves(j)
        BY <2>3, <2>5, <3>1 DEF Leaves, RowIs, IsStored
      <4>. QED
        BY <4>1, LeftAlone
    <3>2. CASE l = j /\ s.status \notin Terminal
      <4>1. s.status = "running" /\ s.owner = i /\ worker[i][w].pc = "persist"
        BY <2>1, <3>2 DEF Saves
      <4>2. db'[j].status = "running" /\ db'[j].owner = i /\ db'[j].fresh
        BY <2>5, <3>2, <4>1 DEF RowIs, IsStored
      <4>3. Working(i, w, j)
        BY <3>2, <4>1 DEF Working, Executes
      <4>4. \A k \in Instances, v \in Workers : Working(k, v, j)' => k = i /\ v = w
        BY <2>3, <4>3 DEF Single
      <4>. QED
        BY <4>2, <4>4 DEF Leased, Single, Owned
    <3>. QED
      BY <3>1, <3>2
  <2>. QED
    BY <2>2, <2>4, <2>5
<1>14. CASE SyncRun(i, w)
  <2>1. worker[i][w].pc = "sync" /\ worker[i][w].job \in Jobs /\ UNCHANGED db
    BY <1>14, SyncRunStep
  <2>2. worker[i][w].snap.status # "failed" => Working(i, w, worker[i][w].job)
    BY <2>1 DEF Working, Executes
  <2>3. \/ ThreadIs(i, w, "idle", None, Blank("absent"))
        \/ /\ worker[i][w].snap.status # "failed"
           /\ \E pc : ThreadIs(i, w, pc, worker[i][w].job, Blank("absent"))
    BY <1>14, SyncRunStep
  <2>4. \A k \in Instances, v \in Workers : Working(k, v, j)' => Working(k, v, j)
    BY <1>2, <2>2, <2>3
  <2>5. Leaves(j)
    BY <1>4, <2>1, <2>4
  <2>. QED
    BY <2>5, LeftAlone
<1>. QED
  BY <1>1, <1>5, <1>6, <1>7, <1>8, <1>9, <1>11, <1>12, <1>13, <1>14 DEF WorkerStep

LEMMA ClientOnce ==
    ASSUME IInv, TInv, NEW c \in Clients, ClientStep(c),
           NEW j \in Jobs, NotAsked(j), Leased(j), Single(j)
    PROVE  Leased(j)' /\ Single(j)'
<1>1. \A k \in Instances, v \in Workers : Working(k, v, j)' => Working(k, v, j)
  <2>1. UNCHANGED worker
    BY DEF ClientStep, Submit, SubmitUnsaved, Cancel, CancelTerminal, AttachRun, AttachFails,
           Enqueue, SnapCancel, PersistCancel
  <2>. QED
    BY <2>1 DEF Working, Executes
<1>2. CASE UNCHANGED db
  BY <1>1, <1>2, LeftAlone DEF Leaves
<1>3. ASSUME NEW i \in Instances, NEW l \in Jobs, Submit(c, i, l)
      PROVE  Leased(j)' /\ Single(j)'
  <2>1. PICK s \in Record : RowIs(l, s) /\ db[l].status = "absent"
    BY <1>3, SubmitStep
  <2>2. CASE l # j
    BY <1>1, <2>1, <2>2, LeftAlone DEF Leaves, RowIs
  <2>3. CASE l = j
    <3>1. \A k \in Instances, v \in Workers : ~Working(k, v, j)
      BY <2>1, <2>3, NobodyWorks DEF Terminal
    <3>. QED
      BY <1>1, <3>1 DEF Leased, Single
  <2>. QED
    BY <2>2, <2>3
<1>4. CASE AttachFails(c)
  <2>1. PICK l \in Jobs : l = request[c].job
    BY <1>4, AttachFailsStep
  <2>2. \E s \in Record : RowIs(l, s) /\ (s.status = "failed" \/ s = db[l])
    <3>1. PICK i \in Instances : i = request[c].at
      BY <1>4, AttachFailsStep
    <3>2. PICK r \in Record, s \in Record :
             /\ MemIs(i, l, r)
             /\ Fields(r, "failed", mem[i][l].cancel, mem[i][l].retry, mem[i][l].owner, mem[i][l].fresh)
             /\ RowIs(l, s) /\ (IsStored(i, r, s) \/ s = db[l])
      BY <1>4, <2>1, <3>1, AttachFailsStep
    <3>. QED
      BY <3>2 DEF Fields, IsStored
  <2>3. Leaves(j)
    BY <1>1, <2>2 DEF Leaves, RowIs, Terminal
  <2>. QED
    BY <2>3, LeftAlone
<1>5. CASE PersistCancel(c)
  <2>1. PICK l \in Jobs : l = request[c].job /\ l # j
    BY <1>5, PersistCancelStep DEF NotAsked
  <2>2. UNCHANGED db \/ \E r \in Record : RowIs(l, r)
    BY <1>5, <2>1, PersistCancelStep
  <2>3. Leaves(j)
    BY <1>1, <2>1, <2>2 DEF Leaves, RowIs
  <2>. QED
    BY <2>3, LeftAlone
<1>6. \/ \E i \in Instances, l \in Jobs : Submit(c, i, l)
      \/ AttachFails(c) \/ PersistCancel(c) \/ UNCHANGED db
  BY DEF ClientStep, SubmitUnsaved, Cancel, CancelTerminal, AttachRun, Enqueue, SnapCancel
<1>. QED
  BY <1>2, <1>3, <1>4, <1>5, <1>6

LEMMA TakeOverOnce ==
    ASSUME NEW j \in Jobs, Leased(j), Single(j), NEW l \in Jobs, Restorable(db[l]),
           NEW s \in Record, RowIs(l, s),
           \A k \in Instances, v \in Workers : Working(k, v, j)' => Working(k, v, j)
    PROVE  Leased(j)' /\ Single(j)'
<1>1. CASE l # j
  BY <1>1, LeftAlone DEF Leaves, RowIs
<1>2. CASE l = j
  <2>1. \A k \in Instances, v \in Workers : ~Working(k, v, j)
    BY <1>2, NobodyWorks DEF Restorable, Active, Terminal
  <2>. QED
    BY <2>1 DEF Leased, Single
<1>. QED
  BY <1>1, <1>2

LEMMA OnceStep ==
    ASSUME LeaseCoversRun, IInv, TInv, Saves, NEW j \in Jobs, NotAsked(j), Leased(j), Single(j),
           [Next]_vars
    PROVE  Leased(j)' /\ Single(j)'
<1>1. CASE UNCHANGED <<worker, db>>
  BY <1>1, LeftAlone DEF Leaves, Working, Executes
<1>2. ASSUME NEW c \in Clients, ClientStep(c) PROVE Leased(j)' /\ Single(j)'
  BY <1>2, ClientOnce
<1>3. ASSUME NEW i \in Instances, NEW w \in Workers, WorkerStep(i, w) PROVE Leased(j)' /\ Single(j)'
  BY <1>3, WorkerOnce
<1>4. ASSUME NEW i \in Instances, NEW e \in todo[i], RestoreJob(i, e) PROVE Leased(j)' /\ Single(j)'
  <2>1. PICK l \in Jobs : l = e[1]
    BY <1>4, RestoreJobStep
  <2>2. PICK s \in Record : RowIs(l, s)
    BY <1>4, <2>1, RestoreJobStep
  <2>3. Restorable(db[l]) /\ UNCHANGED worker
    BY <1>4, <2>1, RestoreJobStep
  <2>4. \A k \in Instances, v \in Workers : Working(k, v, j)' => Working(k, v, j)
    BY <2>3 DEF Working, Executes
  <2>. QED
    BY <2>2, <2>3, <2>4, TakeOverOnce
<1>5. ASSUME NEW i \in Instances, DeadIs(i)
      PROVE  \A k \in Instances, v \in Workers : Working(k, v, j)' => Working(k, v, j)
  BY <1>5 DEF DeadIs, Working, Executes
<1>6. ASSUME NEW i \in Instances, Crash(i) PROVE Leased(j)' /\ Single(j)'
  BY <1>5, <1>6, CrashStep, LeftAlone DEF Leaves
<1>7. ASSUME NEW i \in Instances, NEW e \in todo[i], CrashInRestore(i, e)
      PROVE  Leased(j)' /\ Single(j)'
  <2>1. PICK l \in Jobs : l = e[1] /\ Restorable(db[l]) /\ DeadIs(i)
    BY <1>7, CrashInRestoreStep
  <2>2. PICK s \in Record : RowIs(l, s)
    BY <1>7, <2>1, CrashInRestoreStep
  <2>. QED
    BY <1>5, <2>1, <2>2, TakeOverOnce
<1>8. ASSUME NEW l \in Jobs, LeaseExpires(l) PROVE Leased(j)' /\ Single(j)'
  <2>1. \A k \in Instances, v \in Workers : Working(k, v, j)' => Working(k, v, j)
    BY <1>8 DEF LeaseExpires, Working, Executes
  <2>2. CASE l # j
    BY <1>8, <2>1, <2>2, LeaseExpiresStep, LeftAlone DEF Leaves
  <2>3. CASE l = j
    BY <1>8, <2>1, <2>3, LeaseExpiresStep DEF Leased, Single, Working
  <2>. QED
    BY <2>2, <2>3
<1>9. ASSUME NEW r \in Runs, Supersede(r) PROVE Leased(j)' /\ Single(j)'
  <2>1. \A k \in Instances, v \in Workers : Working(k, v, j)' => Working(k, v, j)
    BY <1>9 DEF Supersede, Working, Executes
  <2>2. db'[j].status = db[j].status /\ db'[j].owner = db[j].owner /\ db'[j].fresh = db[j].fresh
    BY <1>9, SupersedeStep DEF Fields
  <2>. QED
    BY <2>1, <2>2, LeftAlone DEF Leaves
<1>10. ASSUME NEW i \in Instances, Start(i) \/ RestoreStep(i) \/ Crash(i)
       PROVE  Leased(j)' /\ Single(j)'
  BY <1>1, <1>4, <1>6, <1>10 DEF Start, RestoreStep, RestoreLost, Serve
<1>11. ASSUME NEW i \in Instances, NEW l \in Jobs, GetJob(i, l) \/ ReuseRow(i, l)
       PROVE  Leased(j)' /\ Single(j)'
  BY <1>1, <1>11 DEF GetJob, ReuseRow
<1>. QED
  BY <1>1, <1>2, <1>3, <1>7, <1>8, <1>9, <1>10, <1>11 DEF Next, vars

(* As long as nobody asks to cancel the job, and while a lease outlives    *)
(* the execution it was taken for, no two threads execute the job, in any  *)
(* number of processes, whatever fails, dies or is restored: only one      *)
(* claim wins, and only a row whose lease is over is taken over.           *)
THEOREM ExecutedOnceAtATime ==
    ASSUME LeaseCoversRun, NEW j \in Jobs
    PROVE  Spec /\ []NotAsked(j) =>
              [](\A x, y \in Instances \X Workers :
                    WorksOn(x[1], x[2], j) /\ WorksOn(y[1], y[2], j) => x = y)
<1>. DEFINE Once1 == \A x, y \in Instances \X Workers :
                        WorksOn(x[1], x[2], j) /\ WorksOn(y[1], y[2], j) => x = y
<1>1. Init => Leased(j) /\ Single(j)
  BY IdleFields DEF Init, Leased, Single, Working, Executes
<1>2. (IInv /\ TInv /\ Saves /\ Leased(j) /\ Single(j)) /\ NotAsked(j) /\ [Next]_vars =>
         (IInv /\ TInv /\ Saves /\ Leased(j) /\ Single(j))'
  BY StepKeeps, TStep, SavesStep, OnceStep
<1>3. Init => IInv /\ TInv /\ Saves
  BY InitHolds, TInit, SavesStarts
<1>4. Single(j) => Once1
  <2>1. \A i \in Instances, w \in Workers : WorksOn(i, w, j) => Working(i, w, j)
    BY DEF WorksOn, Working, Terminal
  <2>. QED
    BY <2>1 DEF Single
<1>. QED
  BY <1>1, <1>2, <1>3, <1>4, PTL DEF Spec

(* A cancel request that has reached the job: some record still says so.   *)
CancelKept(j) == \E i \in Instances : inst[i] = "up" /\ mem[i][j].status # "absent" /\ mem[i][j].cancel
OnceOrAsked(j) == CancelKept(j) \/ (NotAsked(j) /\ Leased(j) /\ Single(j))

LEMMA NobodyDiesOfMany == ASSUME IsFiniteSet(Instances), MaxCrashes = 0 PROVE ~MayCrash
<1>1. IsFiniteSet({i \in Instances : inst[i] = "down"})
  BY FS_Subset
<1>2. Cardinality({i \in Instances : inst[i] = "down"}) \in Nat
  BY <1>1, FS_CardinalityType
<1>. QED
  BY <1>2 DEF MayCrash

(* A record that says so goes on saying so. *)
LEMMA CancelKeptByClient ==
    ASSUME IInv, NEW c \in Clients, ClientStep(c), NEW i \in Instances, NEW j \in Jobs,
           mem[i][j].status # "absent", mem[i][j].cancel
    PROVE  mem'[i][j].status # "absent" /\ mem'[i][j].cancel
<1>1. ASSUME NEW k \in Instances, NEW l \in Jobs, Submit(c, k, l)
      PROVE  mem'[i][j].status # "absent" /\ mem'[i][j].cancel
  <2>1. (\E r \in Record : MemIs(k, l, r)) /\ mem[i][l].status = "absent"
    BY <1>1, SubmitStep
  <2>. QED
    BY <2>1 DEF MemIs
<1>2. ASSUME NEW k \in Instances, NEW l \in Jobs, Cancel(c, k, l)
      PROVE  mem'[i][j].status # "absent" /\ mem'[i][j].cancel
  <2>1. PICK r \in Record :
           /\ MemIs(k, l, r)
           /\ Fields(r, KnownRecord(k, l).status, TRUE, KnownRecord(k, l).retry,
                        KnownRecord(k, l).owner, KnownRecord(k, l).fresh)
    BY <1>2, CancelStep
  <2>2. KnownRecord(k, l).status \in Active
    BY <1>2, CancelStep
  <2>. QED
    BY <2>1, <2>2 DEF MemIs, Active, Fields
<1>3. ASSUME NEW k \in Instances, NEW l \in Jobs, CancelTerminal(c, k, l)
      PROVE  mem'[i][j].status # "absent" /\ mem'[i][j].cancel
  BY <1>3, CancelTerminalStep DEF MemIs, KnownRecord
<1>4. CASE AttachFails(c)
  BY <1>4, AttachFailsStep DEF MemIs, Fields
<1>5. CASE UNCHANGED mem
  BY <1>5
<1>6. \/ \E k \in Instances, l \in Jobs : Submit(c, k, l) \/ Cancel(c, k, l) \/ CancelTerminal(c, k, l)
      \/ AttachFails(c)
      \/ UNCHANGED mem
  BY DEF ClientStep, SubmitUnsaved, AttachRun, Enqueue, SnapCancel, PersistCancel
<1>. QED
  BY <1>1, <1>2, <1>3, <1>4, <1>5, <1>6

LEMMA CancelKeptByWorker ==
    ASSUME IInv, NEW k \in Instances, NEW w \in Workers, WorkerStep(k, w),
           NEW i \in Instances, NEW j \in Jobs, mem[i][j].status # "absent", mem[i][j].cancel
    PROVE  mem'[i][j].status # "absent" /\ mem'[i][j].cancel
<1>. DEFINE l == worker[k][w].job
<1>1. ASSUME NEW to \in Status \ {"absent"}, NEW cancel, NEW pc, Updates(k, w, to, cancel, pc),
             mem[k][l].cancel => cancel
      PROVE  mem'[i][j].status # "absent" /\ mem'[i][j].cancel
  BY <1>1 DEF Updates, MemIs, Fields
<1>2. CASE ClaimRecord(k, w)
  <2>1. PICK r \in Record : MemIs(k, l, r) /\ Fields(r, "running", mem[k][l].cancel, mem[k][l].retry, k, TRUE)
    BY <1>2, ClaimRecordStep
  <2>. QED
    BY <2>1 DEF MemIs, Fields
<1>3. CASE Report(k, w)
  BY <1>1, <1>3, ReportStep DEF RecordOf, Status, Active
<1>4. CASE Stop(k, w)
  BY <1>1, <1>4, StopStep DEF Status, Terminal
<1>5. CASE Fail(k, w)
  BY <1>1, <1>5, FailStep DEF RecordOf, Status, Terminal
<1>6. CASE Complete(k, w)
  BY <1>1, <1>6, CompleteStep DEF RecordOf, Status, Terminal
<1>7. CASE Attach(k, w)
  BY <1>7, AttachStep DEF Updates, MemIs, Fields, RecordOf
<1>8. CASE UNCHANGED mem
  BY <1>8
<1>9. \/ ClaimRecord(k, w) \/ Report(k, w) \/ Stop(k, w) \/ Fail(k, w) \/ Complete(k, w)
      \/ Attach(k, w) \/ UNCHANGED mem
  BY DEF WorkerStep, Take, Claim, ClaimLost, CheckPasses, Apply, PersistRecord, SyncRun
<1>. QED
  BY <1>2, <1>3, <1>4, <1>5, <1>6, <1>7, <1>8, <1>9

LEMMA CancelStaysKept ==
    ASSUME RepeatPreviews = FALSE, ~MayCrash, IInv, [Next]_vars, NEW j \in Jobs, CancelKept(j)
    PROVE  CancelKept(j)'
<1>1. PICK i \in Instances : inst[i] = "up" /\ mem[i][j].status # "absent" /\ mem[i][j].cancel
  BY DEF CancelKept
<1>2. SUFFICES inst'[i] = "up" /\ mem'[i][j].status # "absent" /\ mem'[i][j].cancel
  BY DEF CancelKept
<1>3. CASE UNCHANGED <<inst, mem>>
  BY <1>1, <1>3
<1>4. ASSUME NEW c \in Clients, ClientStep(c)
      PROVE  inst'[i] = "up" /\ mem'[i][j].status # "absent" /\ mem'[i][j].cancel
  <2>1. UNCHANGED inst
    BY <1>4 DEF ClientStep, Submit, SubmitUnsaved, Cancel, CancelTerminal, AttachRun, AttachFails,
                Enqueue, SnapCancel, PersistCancel
  <2>. QED
    BY <1>1, <1>4, <2>1, CancelKeptByClient
<1>5. ASSUME NEW k \in Instances, NEW w \in Workers, WorkerStep(k, w)
      PROVE  inst'[i] = "up" /\ mem'[i][j].status # "absent" /\ mem'[i][j].cancel
  <2>1. UNCHANGED inst
    BY <1>5
       DEF WorkerStep, Take, Claim, ClaimLost, ClaimRecord, CheckPasses, Report, Stop, Apply,
           Fail,
                Complete, PersistRecord, SyncRun, Attach, Update
  <2>. QED
    BY <1>1, <1>5, <2>1, CancelKeptByWorker
<1>6. ASSUME NEW k \in Instances, NEW l \in Jobs, GetJob(k, l) \/ ReuseRow(k, l)
      PROVE  inst'[i] = "up" /\ mem'[i][j].status # "absent" /\ mem'[i][j].cancel
  <2>1. ~Repeatable(l)
    BY DEF Repeatable
  <2>. QED
    BY <1>1, <1>6, <2>1, ReadRowStep DEF MemIs
<1>7. ASSUME NEW k \in Instances, NEW e \in todo[k], RestoreJob(k, e)
      PROVE  inst'[i] = "up" /\ mem'[i][j].status # "absent" /\ mem'[i][j].cancel
  <2>1. k # i /\ UNCHANGED inst
    BY <1>1, <1>7 DEF RestoreJob
  <2>2. \E r \in Record : MemIs(k, e[1], r)
    BY <1>7, RestoreJobStep
  <2>. QED
    BY <1>1, <2>1, <2>2 DEF MemIs
<1>8. ASSUME NEW k \in Instances, Start(k)
      PROVE  inst'[i] = "up" /\ mem'[i][j].status # "absent" /\ mem'[i][j].cancel
  BY <1>1, <1>8, AllTypes DEF Start
<1>9. ASSUME NEW k \in Instances, RestoreStep(k)
      PROVE  inst'[i] = "up" /\ mem'[i][j].status # "absent" /\ mem'[i][j].cancel
  BY <1>1, <1>3, <1>7, <1>9, AllTypes DEF RestoreStep, RestoreLost, Serve
<1>10. ASSUME NEW l \in Jobs, LeaseExpires(l)
       PROVE  inst'[i] = "up" /\ mem'[i][j].status # "absent" /\ mem'[i][j].cancel
  BY <1>1, <1>10, LeaseExpiresStep DEF Fields
<1>11. ASSUME NEW k \in Instances, Crash(k) \/ \E e \in todo[k] : CrashInRestore(k, e)
       PROVE  FALSE
  BY <1>11 DEF Crash, CrashInRestore
<1>12. ASSUME NEW r \in Runs, Supersede(r)
       PROVE  UNCHANGED <<inst, mem>>
  BY <1>12 DEF Supersede
<1>. QED
  BY <1>3, <1>4, <1>5, <1>6, <1>8, <1>9, <1>10, <1>11, <1>12 DEF Next, vars

LEMMA SubmittedRequest ==
    ASSUME IInv, NEW c \in Clients, NEW i \in Instances, NEW j \in Jobs, Submit(c, i, j)
    PROVE  \E pc \in {"accepted", "attached"} : RequestIs(c, pc, i, j, Blank("absent"))
<1>1. PICK pc \in {"accepted", "attached"} :
         /\ RequestIs(c, pc, i, j, Blank("absent"))
         /\ pc = "accepted" <=> Kind[j] = "project_run"
  BY SubmitStep
<1>. QED
  BY <1>1

(* Only a cancel request asks, and it leaves a record that says so. *)
LEMMA OnlyCancelAsks ==
    ASSUME IInv, [Next]_vars, NEW j \in Jobs, NotAsked(j), ~CancelKept(j)'
    PROVE  NotAsked(j)'
<1>. SUFFICES ASSUME NEW d \in Clients, request'[d].job = j PROVE request'[d].pc \notin {"flagged", "snapped"}
  BY DEF NotAsked
<1>1. CASE UNCHANGED request
  BY <1>1 DEF NotAsked
<1>2. ASSUME NEW c \in Clients, NEW pc \in RequestPC, NEW i, NEW l, NEW s, RequestIs(c, pc, i, l, s),
             d = c => pc \notin {"flagged", "snapped"}
      PROVE  request'[d].pc \notin {"flagged", "snapped"}
  BY <1>2 DEF RequestIs, NotAsked
<1>3. ASSUME NEW c \in Clients, ClientStep(c)
      PROVE  request'[d].pc \notin {"flagged", "snapped"}
  <2>1. ASSUME NEW i \in Instances, NEW l \in Jobs, Submit(c, i, l)
        PROVE  request'[d].pc \notin {"flagged", "snapped"}
    <3>1. PICK pc \in {"accepted", "attached"} : RequestIs(c, pc, i, l, Blank("absent"))
      BY <2>1, SubmittedRequest
    <3>. QED
      BY <1>2, <3>1 DEF RequestPC
  <2>2. ASSUME NEW i \in Instances, NEW l \in Jobs, Cancel(c, i, l)
        PROVE  request'[d].pc \notin {"flagged", "snapped"}
    <3>1. inst[i] = "up" /\ UNCHANGED inst /\ RequestIs(c, "flagged", i, l, Blank("absent"))
      BY <2>2, CancelStep DEF Cancel
    <3>2. mem'[i][l].status # "absent" /\ mem'[i][l].cancel
      <4>1. PICK r \in Record :
               /\ MemIs(i, l, r)
               /\ Fields(r, KnownRecord(i, l).status, TRUE, KnownRecord(i, l).retry,
                            KnownRecord(i, l).owner, KnownRecord(i, l).fresh)
        BY <2>2, CancelStep
      <4>2. KnownRecord(i, l).status \in Active
        BY <2>2, CancelStep
      <4>. QED
        BY <4>1, <4>2 DEF MemIs, Fields, Active
    <3>3. l # j
      BY <3>1, <3>2 DEF CancelKept
    <3>. QED
      BY <3>1, <3>3 DEF RequestIs, NotAsked
  <2>3. ASSUME NEW i \in Instances, NEW l \in Jobs, CancelTerminal(c, i, l)
        PROVE  request'[d].pc \notin {"flagged", "snapped"}
    BY <1>2, <2>3, CancelTerminalStep DEF RequestPC
  <2>4. CASE AttachRun(c)
    BY <1>2, <2>4, AttachRunStep DEF RequestPC
  <2>5. CASE AttachFails(c)
    BY <1>2, <2>5, AttachFailsStep DEF RequestPC
  <2>6. CASE Enqueue(c)
    BY <1>2, <2>6, EnqueueStep DEF RequestPC
  <2>7. CASE SnapCancel(c)
    BY <2>7, SnapCancelStep DEF RequestIs, NotAsked
  <2>8. CASE PersistCancel(c)
    BY <1>2, <2>8, PersistCancelStep DEF RequestPC
  <2>. QED
    BY <1>1, <1>3, <2>1, <2>2, <2>3, <2>4, <2>5, <2>6, <2>7, <2>8 DEF ClientStep, SubmitUnsaved
<1>4. ASSUME NEW k \in Instances, DeadIs(k) PROVE request'[d].pc \notin {"flagged", "snapped"}
  BY <1>4 DEF DeadIs, NotAsked
<1>5. ASSUME NEW k \in Instances, Crash(k) PROVE request'[d].pc \notin {"flagged", "snapped"}
  BY <1>4, <1>5, CrashStep
<1>6. ASSUME NEW k \in Instances, NEW e \in todo[k], CrashInRestore(k, e)
      PROVE  request'[d].pc \notin {"flagged", "snapped"}
  BY <1>4, <1>6, CrashInRestoreStep
<1>7. ASSUME NEW k \in Instances, NEW w \in Workers, WorkerStep(k, w) PROVE UNCHANGED request
  BY <1>7
     DEF WorkerStep, Take, Claim, ClaimLost, ClaimRecord, CheckPasses, Report, Stop, Apply, Fail,
              Complete, PersistRecord, SyncRun, Attach, Update
<1>8. ASSUME NEW k \in Instances, RestoreStep(k) PROVE UNCHANGED request
  BY <1>8 DEF RestoreStep, RestoreJob, RestoreLost, Serve
<1>. QED
  BY <1>1, <1>3, <1>5, <1>6, <1>7, <1>8
     DEF Next, vars, GetJob, ReuseRow, Start, LeaseExpires, Supersede

LEMMA OnceOrAskedStep ==
    ASSUME LeaseCoversRun, RepeatPreviews = FALSE, ~MayCrash, IInv, TInv, Saves, [Next]_vars,
           NEW j \in Jobs, OnceOrAsked(j)
    PROVE  OnceOrAsked(j)'
<1>1. CASE CancelKept(j)
  BY <1>1, CancelStaysKept DEF OnceOrAsked
<1>2. CASE ~CancelKept(j) /\ ~CancelKept(j)'
  BY <1>2, OnlyCancelAsks, OnceStep DEF OnceOrAsked
<1>. QED
  BY <1>1, <1>2 DEF OnceOrAsked

(* While a lease outlives the execution it was taken for and no process    *)
(* dies, any number of processes execute a job once at a time, unless a    *)
(* record of it says that somebody asked to cancel it.                     *)
THEOREM CancelledOrOnce ==
    ASSUME LeaseCoversRun, RepeatPreviews = FALSE, IsFiniteSet(Instances), MaxCrashes = 0
    PROVE  Spec => []OneExecutionUnlessCancelled
<1>. DEFINE Each == \A j \in Jobs : OnceOrAsked(j)
<1>1. Init => IInv /\ TInv /\ Saves /\ Each
  <2>1. Init => Each
    BY IdleFields DEF Init, OnceOrAsked, NotAsked, Leased, Single, Working, Executes
  <2>. QED
    BY <2>1, InitHolds, TInit, SavesStarts
<1>2. (IInv /\ TInv /\ Saves /\ Each) /\ [Next]_vars => (IInv /\ TInv /\ Saves /\ Each)'
  BY StepKeeps, TStep, SavesStep, OnceOrAskedStep, NobodyDiesOfMany
<1>3. Each => OneExecutionUnlessCancelled
  <2>. SUFFICES ASSUME NEW j \in Jobs, OnceOrAsked(j), NEW x \in Instances \X Workers,
                       NEW y \in Instances \X Workers,
                       WorksOn(x[1], x[2], j), WorksOn(y[1], y[2], j), x # y
                PROVE  \E r \in Copies(j) : r.cancel
    BY DEF OneExecutionUnlessCancelled
  <2>1. Working(x[1], x[2], j) /\ Working(y[1], y[2], j)
    BY DEF WorksOn, Working, Terminal
  <2>2. CancelKept(j)
    BY <2>1 DEF OnceOrAsked, Single
  <2>3. PICK i \in Instances : mem[i][j].cancel
    BY <2>2 DEF CancelKept
  <2>4. mem[i][j] \in Copies(j)
    BY DEF Copies
  <2>. QED
    BY <2>3, <2>4
<1>. QED
  BY <1>1, <1>2, <1>3, PTL DEF Spec

-----------------------------------------------------------------------------
(* The retry limit, for processes that come one after the other and do not *)
(* die while they restore, over a database that works.                     *)

Alone ==
    \A i, k \in Instances :
        inst[i] \in {"restoring", "up"} /\ inst[k] \in {"restoring", "up"} => i = k

(* A copy that could be claimed has a retry left for the next execution.   *)
Spare(j, r) == r.status = "queued" /\ ~r.cancel => claims[j] <= r.retry
Unclaimed(i, j) ==
    \/ j \in Queued(i)
    \/ \E w \in Workers : worker[i][w].job = j /\ worker[i][w].pc = "taken"
    \/ \E c \in Clients : Handing(c, i, j)

Counted ==
    \A j \in Jobs :
        /\ claims[j] <= db[j].retry + 1 /\ claims[j] <= MaxRetries + 1
        /\ db[j].status = "absent" => claims[j] = 0
        /\ Spare(j, db[j])
CountedWaits ==
    \A i \in Instances, j \in Jobs :
        Unclaimed(i, j) => claims[j] <= db[j].retry /\ db[j].retry <= MaxRetries

(* All copies of a job have counted the same retries.                      *)
CountedRecord ==
    \A i \in Instances, j \in Jobs :
        mem[i][j].status # "absent" =>
            /\ mem[i][j].retry = db[j].retry
            /\ \/ Spare(j, mem[i][j])
               \/ \E w \in Workers : worker[i][w].job = j /\ worker[i][w].pc = "claimed"
CountedThread ==
    \A i \in Instances, w \in Workers, j \in Jobs :
        worker[i][w].job = j /\ worker[i][w].pc \in {"persist", "persistResult"} =>
            worker[i][w].snap.retry = db[j].retry
CountedTodo ==
    \A i \in Instances : \A e \in todo[i] :
        e[2].retry = db[e[1]].retry /\ Spare(e[1], e[2])

(* The snapshot of a cancel request either says so, or nothing waits that  *)
(* it could make claimable a second time.                                  *)
CountedRequest ==
    \A c \in Clients, i \in Instances, j \in Jobs :
        request[c].at = i /\ request[c].job = j =>
            /\ request[c].pc = "flagged" => mem[i][j].cancel \/ ~Waits(i, j)
            /\ request[c].pc = "snapped" =>
                  /\ request[c].snap.retry = db[j].retry
                  /\ Spare(j, request[c].snap)
                  /\ request[c].snap.status = "queued" /\ ~request[c].snap.cancel => ~Waits(i, j)

CInv ==
    /\ Alone /\ Counted /\ CountedWaits /\ CountedRecord /\ CountedThread /\ CountedTodo
    /\ CountedRequest

LEMMA CountTypes ==
    ASSUME IInv
    PROVE  /\ \A j \in Jobs : claims[j] \in Nat /\ db[j] \in Record /\ db[j].retry \in Nat
           /\ \A i \in Instances, j \in Jobs : mem[i][j] \in Record /\ mem[i][j].retry \in Nat
           /\ MaxRetries \in Nat
BY AllTypes, JobManagerAssumption DEF Memories, Record

LEMMA TodoRetry ==
    ASSUME IInv
    PROVE  \A i \in Instances : \A e \in todo[i] : e[1] \in Jobs /\ e[2].retry \in Nat
BY TodoTypes DEF Record

(* A living instance is the only one that deals with jobs.                 *)
LEMMA OnlyHere ==
    ASSUME IInv, TInv, Alone, NEW i \in Instances, inst[i] \in {"restoring", "up"}
    PROVE  \A k \in Instances : k # i =>
              /\ inst[k] \in {"new", "down"} /\ todo[k] = {} /\ Queued(k) = {}
              /\ \A j \in Jobs : mem[k][j].status = "absent"
              /\ \A w \in Workers : worker[k][w].pc = "idle" /\ worker[k][w].job = None
              /\ \A c \in Clients : request[c].at # k
<1>. SUFFICES ASSUME NEW k \in Instances, k # i
              PROVE  /\ inst[k] \in {"new", "down"} /\ todo[k] = {} /\ Queued(k) = {}
                     /\ \A j \in Jobs : mem[k][j].status = "absent"
                     /\ \A w \in Workers : worker[k][w].pc = "idle" /\ worker[k][w].job = None
                     /\ \A c \in Clients : request[c].at # k
  OBVIOUS
<1>1. inst[k] \in {"new", "restoring", "up", "down"}
  BY AllTypes
<1>2. inst[k] \in {"new", "down"}
  BY <1>1 DEF Alone
<1>. QED
  BY <1>2 DEF TInv, Lives, Idle

LEMMA NotWhileRestoring ==
    ASSUME IInv, TInv, Alone, NEW i \in Instances, inst[i] = "up"
    PROVE  \A k \in Instances : todo[k] = {}
BY OnlyHere DEF TInv, Lives

LEMMA SubmitCounts ==
    ASSUME IInv, TInv, Saves, CInv, NEW c \in Clients, NEW i \in Instances, NEW j \in Jobs, Submit(c, i, j)
    PROVE  CInv'
<1>1. /\ inst[i] = "up" /\ request[c].pc = "idle"
      /\ db[j].status = "absent" /\ \A k \in Instances : mem[k][j].status = "absent"
      /\ UNCHANGED <<run, queue, inst, todo, worker, applied, claims, faults>>
  BY SubmitStep
<1>2. PICK r \in Record, s \in Record, pc \in {"accepted", "attached"} :
         /\ MemIs(i, j, r) /\ Fields(r, "queued", FALSE, 0, None, FALSE)
         /\ RowIs(j, s) /\ Fields(s, "queued", FALSE, 0, None, FALSE)
         /\ RequestIs(c, pc, i, j, Blank("absent"))
  BY SubmitStep
<1>3. claims[j] = 0
  BY <1>1 DEF CInv, Counted
<1>4. \A k \in Instances : Queued(k)' = Queued(k)
  BY <1>1 DEF Queued
<1>5. \A k \in Instances : todo[k] = {}
  BY <1>1, NotWhileRestoring DEF CInv
<1>6. Alone'
  BY <1>1, <1>4 DEF CInv, Alone
<1>7. Counted'
  BY <1>1, <1>2, <1>3, <1>4, <1>5 DEF CInv, Counted, MemIs, RowIs, RequestIs, Fields, Spare
<1>8. CountedWaits'
  BY <1>1, <1>2, <1>3, <1>4, <1>5, CountTypes
     DEF CInv, CountedWaits, Unclaimed, Handing, KnownQueue, MemIs, RowIs, RequestIs, Fields, TInv
<1>9. CountedRecord'
  BY <1>1, <1>2, <1>3, <1>4, <1>5 DEF CInv, CountedRecord, MemIs, RowIs, RequestIs, Fields, Spare
<1>10. CountedThread'
  BY <1>1, <1>2, <1>3, <1>4, <1>5
     DEF CInv, CountedThread, KnownThread, RecordOf, MemIs, RowIs, RequestIs, TInv, Known
<1>11. CountedTodo'
  BY <1>1, <1>2, <1>3, <1>4, <1>5, TodoRetry DEF CInv, CountedTodo, MemIs, RowIs, RequestIs
<1>12. CountedRequest'
  BY <1>1, <1>2, <1>3, <1>4, <1>5
     DEF CInv, CountedRequest, Waits, Handing, KnownRequest, MemIs, RowIs, RequestIs, TInv, Known,
         Spare
<1>. QED
  BY <1>6, <1>7, <1>8, <1>9, <1>10, <1>11, <1>12 DEF CInv

LEMMA AttachRunCounts ==
    ASSUME IInv, TInv, Saves, CInv, NEW c \in Clients, AttachRun(c)
    PROVE  CInv'
<1>1. /\ request[c].pc = "accepted"
      /\ RequestIs(c, "attached", request[c].at, request[c].job, request[c].snap)
      /\ UNCHANGED <<db, mem, queue, inst, todo, worker, applied, claims, faults>>
  BY AttachRunStep
<1>2. \A k \in Instances : Queued(k)' = Queued(k)
  BY <1>1 DEF Queued
<1>3. Alone' /\ Counted' /\ CountedRecord' /\ CountedThread' /\ CountedTodo'
  BY <1>1, <1>2 DEF CInv, Alone, Counted, CountedRecord, CountedThread, CountedTodo, Spare
<1>4. CountedWaits'
  BY <1>1, <1>2 DEF CInv, CountedWaits, Unclaimed, Handing, RequestIs
<1>5. CountedRequest'
  BY <1>1, <1>2 DEF CInv, CountedRequest, Waits, Handing, RequestIs, Spare
<1>. QED
  BY <1>3, <1>4, <1>5 DEF CInv

LEMMA EnqueueCounts ==
    ASSUME IInv, TInv, Saves, CInv, NEW c \in Clients, Enqueue(c)
    PROVE  CInv'
<1>. DEFINE i == request[c].at
            j == request[c].job
<1>1. /\ request[c].pc = "attached" /\ i \in Instances /\ j \in Jobs
      /\ RequestIs(c, "idle", None, None, Blank("absent"))
      /\ UNCHANGED <<db, run, mem, inst, todo, worker, applied, claims, faults>>
  BY EnqueueStep
<1>2. \A k \in Instances : Queued(k)' = IF k = i THEN Queued(i) \cup {j} ELSE Queued(k)
  BY EnqueueStep
<1>3. Alone' /\ Counted' /\ CountedRecord' /\ CountedThread' /\ CountedTodo'
  BY <1>1 DEF CInv, Alone, Counted, CountedRecord, CountedThread, CountedTodo, Spare
<1>4. CountedWaits'
  BY <1>1, <1>2 DEF CInv, CountedWaits, Unclaimed, Handing, RequestIs
<1>5. CountedRequest'
  BY <1>1, <1>2 DEF CInv, CountedRequest, Waits, Handing, RequestIs, Spare
<1>. QED
  BY <1>3, <1>4, <1>5 DEF CInv

LEMMA CancelCounts ==
    ASSUME IInv, TInv, Saves, CInv, NEW c \in Clients, NEW i \in Instances, NEW j \in Jobs, Cancel(c, i, j)
    PROVE  CInv'
<1>1. /\ inst[i] = "up" /\ request[c].pc = "idle" /\ KnownRecord(i, j).status \in Active
      /\ RequestIs(c, "flagged", i, j, Blank("absent"))
      /\ UNCHANGED <<db, run, queue, inst, todo, worker, applied, claims, faults>>
  BY CancelStep
<1>2. PICK r \in Record :
         /\ MemIs(i, j, r)
         /\ Fields(r, KnownRecord(i, j).status, TRUE, KnownRecord(i, j).retry,
                      KnownRecord(i, j).owner, KnownRecord(i, j).fresh)
  BY CancelStep
<1>3. KnownRecord(i, j).retry = db[j].retry
  BY DEF KnownRecord, CInv, CountedRecord
<1>4. \A k \in Instances : Queued(k)' = Queued(k)
  BY <1>1 DEF Queued
<1>5. Alone' /\ Counted' /\ CountedThread' /\ CountedTodo'
  BY <1>1, <1>4 DEF CInv, Alone, Counted, CountedThread, CountedTodo, Spare
<1>6. CountedWaits'
  BY <1>1, <1>2, <1>3, <1>4 DEF CInv, CountedWaits, Unclaimed, Handing, MemIs, RequestIs
<1>7. CountedRecord'
  BY <1>1, <1>2, <1>3, <1>4 DEF CInv, CountedRecord, MemIs, RequestIs, Fields, Spare
<1>8. CountedRequest'
  BY <1>1, <1>2, <1>3, <1>4 DEF CInv, CountedRequest, Waits, Handing, MemIs, RequestIs, Fields,
         Spare
<1>. QED
  BY <1>5, <1>6, <1>7, <1>8 DEF CInv

LEMMA CancelTerminalCounts ==
    ASSUME IInv, TInv, Saves, CInv, NEW c \in Clients, NEW i \in Instances, NEW j \in Jobs, CancelTerminal(c, i, j)
    PROVE  CInv'
<1>1. /\ inst[i] = "up" /\ request[c].pc = "idle" /\ KnownRecord(i, j).status \in Terminal
      /\ MemIs(i, j, KnownRecord(i, j))
      /\ RequestIs(c, "blocked", i, j, Blank("absent"))
      /\ UNCHANGED <<db, run, queue, inst, todo, worker, applied, claims, faults>>
  BY CancelTerminalStep
<1>2. KnownRecord(i, j).status \in {"completed", "failed", "cancelled"}
  BY <1>1 DEF Terminal
<1>3. KnownRecord(i, j).retry = db[j].retry
  BY DEF KnownRecord, CInv, CountedRecord
<1>4. mem[i][j].status = "absent" \/ KnownRecord(i, j) = mem[i][j]
  BY DEF KnownRecord
<1>5. \A k \in Instances : Queued(k)' = Queued(k)
  BY <1>1 DEF Queued
<1>6. Alone' /\ Counted' /\ CountedThread' /\ CountedTodo'
  BY <1>1, <1>5 DEF CInv, Alone, Counted, CountedThread, CountedTodo, Spare
<1>7. CountedWaits'
  BY <1>1, <1>2, <1>3, <1>4, <1>5 DEF CInv, CountedWaits, Unclaimed, Handing, MemIs, RequestIs
<1>8. CountedRecord'
  BY <1>1, <1>2, <1>3, <1>4, <1>5 DEF CInv, CountedRecord, MemIs, RequestIs, Spare
<1>9. CountedRequest'
  BY <1>1, <1>2, <1>3, <1>4, <1>5
     DEF CInv, CountedRequest, Waits, Handing, KnownRequest, MemIs, RequestIs, TInv, Known, Spare
<1>. QED
  BY <1>6, <1>7, <1>8, <1>9 DEF CInv

LEMMA SnapCancelCounts ==
    ASSUME IInv, TInv, Saves, CInv, NEW c \in Clients, SnapCancel(c)
    PROVE  CInv'
<1>1. /\ request[c].pc = "flagged" /\ request[c].job \in Jobs /\ request[c].at \in Instances
      /\ RequestIs(c, "snapped", request[c].at, request[c].job, mem[request[c].at][request[c].job])
      /\ UNCHANGED <<db, run, mem, queue, inst, todo, worker, applied, claims, faults>>
  BY SnapCancelStep
<1>2. mem[request[c].at][request[c].job].status # "absent"
  BY <1>1 DEF TInv, Known, KnownRequest
<1>3. \A k \in Instances : Queued(k)' = Queued(k)
  BY <1>1 DEF Queued
<1>4. Alone' /\ Counted' /\ CountedRecord' /\ CountedThread' /\ CountedTodo'
  BY <1>1, <1>3 DEF CInv, Alone, Counted, CountedRecord, CountedThread, CountedTodo, Spare
<1>5. CountedWaits'
  BY <1>1, <1>2, <1>3 DEF CInv, CountedWaits, Unclaimed, Handing, RequestIs
<1>6. CountedRequest'
  BY <1>1, <1>2, <1>3, NoNone, CountTypes
     DEF CInv, CountedRequest, Waits, Handing, CountedRecord, RequestIs, TInv, Known, Spare
<1>. QED
  BY <1>4, <1>5, <1>6 DEF CInv

LEMMA PersistCancelCounts ==
    ASSUME MaxFaults = 0, IInv, TInv, Saves, CInv, NEW c \in Clients, PersistCancel(c)
    PROVE  CInv'
<1>. DEFINE i == request[c].at
            j == request[c].job
            s == request[c].snap
<1>1. /\ request[c].pc = "snapped" /\ j \in Jobs /\ i \in Instances /\ s \in Record
      /\ RequestIs(c, "idle", None, None, Blank("absent"))
      /\ UNCHANGED <<run, mem, queue, inst, todo, worker, applied, claims>>
      /\ inst[i] = "up"
  BY PersistCancelStep DEF TInv, Lives
<1>2. PICK r \in Record : RowIs(j, r) /\ IsStored(i, s, r)
  BY PersistCancelStep, NeverFailing
<1>3. /\ r.status = s.status /\ r.cancel = s.cancel /\ r.retry = s.retry /\ s.retry = db[j].retry
      /\ s.status # "absent" /\ Spare(j, s)
  BY <1>1, <1>2 DEF IsStored, CInv, CountedRequest, TInv, Known, KnownSnap
<1>4. \A l \in Jobs : db'[l].retry = db[l].retry
  BY <1>2, <1>3 DEF RowIs
<1>5. \A k \in Instances : Queued(k)' = Queued(k)
  BY <1>1 DEF Queued
<1>6. \A k \in Instances : todo[k] = {}
  BY <1>1, NotWhileRestoring DEF CInv
<1>. HIDE DEF i, j, s
<1>7. Alone'
  BY <1>1, <1>5 DEF CInv, Alone
<1>8. Counted'
  BY <1>1, <1>2, <1>3, <1>4, <1>5, <1>6 DEF CInv, Counted, RequestIs, RowIs, Spare
<1>9. CountedWaits'
  BY <1>1, <1>2, <1>3, <1>4, <1>5, <1>6
     DEF CInv, CountedWaits, Unclaimed, Handing, RequestIs, RowIs
<1>10. CountedRecord'
  BY <1>1, <1>2, <1>3, <1>4, <1>5, <1>6 DEF CInv, CountedRecord, RequestIs, RowIs, Spare
<1>11. CountedThread'
  BY <1>1, <1>2, <1>3, <1>4, <1>5, <1>6 DEF CInv, CountedThread, RequestIs, RowIs
<1>12. CountedTodo'
  BY <1>1, <1>2, <1>3, <1>4, <1>5, <1>6, TodoRetry DEF CInv, CountedTodo, RequestIs, RowIs
<1>13. CountedRequest'
  BY <1>1, <1>2, <1>3, <1>4, <1>5, <1>6 DEF CInv, CountedRequest, Waits, Handing, RequestIs, RowIs,
         Spare
<1>. QED
  BY <1>7, <1>8, <1>9, <1>10, <1>11, <1>12, <1>13 DEF CInv

LEMMA ReadRowCounts ==
    ASSUME IInv, TInv, Saves, CInv, NEW i \in Instances, NEW j \in Jobs, GetJob(i, j) \/ ReuseRow(i, j)
    PROVE  CInv'
<1>1. /\ inst[i] = "up" /\ MemIs(i, j, db[j]) /\ db[j].status # "absent"
      /\ mem[i][j].status \in {"absent", "failed", "cancelled"}
      /\ UNCHANGED <<db, run, queue, inst, todo, worker, request, applied, claims, faults>>
  BY ReadRowStep
<1>2. ~Waits(i, j)
  BY <1>1 DEF TInv, Waiting
<1>3. \A k \in Instances : Queued(k)' = Queued(k)
  BY <1>1 DEF Queued
<1>4. Alone' /\ Counted' /\ CountedWaits' /\ CountedThread' /\ CountedTodo'
  BY <1>1, <1>3
     DEF CInv, Alone, Counted, CountedWaits, Unclaimed, Handing, CountedThread, CountedTodo, Spare
<1>5. CountedRecord'
  BY <1>1, <1>2, <1>3 DEF CInv, CountedRecord, Counted, MemIs, TInv, Spare
<1>6. CountedRequest'
  BY <1>1, <1>2, <1>3 DEF CInv, CountedRequest, Waits, Handing, MemIs, TInv, Spare
<1>. QED
  BY <1>4, <1>5, <1>6 DEF CInv

LEMMA TakeCounts ==
    ASSUME IInv, TInv, Saves, CInv, NEW i \in Instances, NEW w \in Workers, Take(i, w)
    PROVE  CInv'
<1>. DEFINE j == Head(queue[i])
<1>1. /\ inst[i] = "up" /\ worker[i][w].pc = "idle" /\ j \in Queued(i) /\ j \in Jobs
      /\ ThreadIs(i, w, "taken", j, Blank("absent"))
      /\ UNCHANGED <<db, run, mem, inst, todo, request, applied, claims, faults>>
      /\ \A k \in Instances : Queued(k)' = IF k = i THEN Queued(i) \ {j} ELSE Queued(k)
  BY TakeStep DEF TInv, Once, OnceQueue
<1>. HIDE DEF j
<1>2. Alone' /\ Counted' /\ CountedTodo'
  BY <1>1 DEF CInv, Alone, Counted, CountedTodo, Spare
<1>3. CountedWaits'
  BY <1>1 DEF CInv, CountedWaits, Unclaimed, Handing, ThreadIs
<1>4. CountedRecord'
  BY <1>1 DEF CInv, CountedRecord, ThreadIs, Spare
<1>5. CountedThread'
  BY <1>1 DEF CInv, CountedThread, ThreadIs
<1>6. CountedRequest'
  BY <1>1 DEF CInv, CountedRequest, Waits, Handing, ThreadIs, Spare
<1>. QED
  BY <1>2, <1>3, <1>4, <1>5, <1>6 DEF CInv

LEMMA ClaimCounts ==
    ASSUME IInv, TInv, Saves, CInv, NEW i \in Instances, NEW w \in Workers, Claim(i, w)
    PROVE  CInv'
<1>. DEFINE j == worker[i][w].job
<1>1. /\ worker[i][w].pc = "taken" /\ j \in Jobs /\ inst[i] = "up"
      /\ ThreadIs(i, w, "claimed", j, worker[i][w].snap)
      /\ \A l \in Jobs : claims'[l] = IF l = j THEN claims[j] + 1 ELSE claims[l]
      /\ UNCHANGED <<run, mem, queue, inst, todo, request, applied, faults>>
  BY ClaimStep DEF TInv, Lives
<1>2. PICK r \in Record : RowIs(j, r) /\ Fields(r, "running", db[j].cancel, db[j].retry, i, TRUE)
  BY ClaimStep
<1>3. claims[j] <= db[j].retry /\ db[j].retry <= MaxRetries
  BY <1>1 DEF CInv, CountedWaits, Unclaimed
<1>4. /\ \A l \in Jobs : db'[l].retry = db[l].retry
      /\ \A l \in Jobs : l # j => claims'[l] = claims[l]
  BY <1>1, <1>2 DEF RowIs, Fields
<1>5. Waits(i, j)
  BY <1>1 DEF Waits
<1>6. \A k \in Instances : Queued(k)' = Queued(k)
  BY <1>1 DEF Queued
<1>7. \A k \in Instances : k # i =>
         /\ inst[k] \in {"new", "down"} /\ todo[k] = {} /\ Queued(k) = {}
         /\ \A l \in Jobs : mem[k][l].status = "absent"
         /\ \A v \in Workers : worker[k][v].pc = "idle" /\ worker[k][v].job = None
         /\ \A d \in Clients : request[d].at # k
  BY <1>1, OnlyHere DEF CInv
<1>8. \A k \in Instances : todo[k] = {}
  BY <1>1, NotWhileRestoring DEF CInv
<1>. HIDE DEF j
<1>9. Alone'
  BY <1>1, <1>6 DEF CInv, Alone
<1>10. Counted'
  BY <1>1, <1>2, <1>3, <1>4, <1>5, <1>6, <1>7, <1>8, CountTypes
     DEF CInv, Counted, ThreadIs, RowIs, Fields, Spare
<1>11. CountedWaits'
  <2>. SUFFICES ASSUME NEW k \in Instances, NEW l \in Jobs, Unclaimed(k, l)'
                PROVE  claims'[l] <= db'[l].retry /\ db'[l].retry <= MaxRetries
    BY DEF CountedWaits
  <2>1. Unclaimed(k, l)
    BY <1>1, <1>6 DEF Unclaimed, Handing, ThreadIs
  <2>2. j \notin Queued(i) /\ \A c \in Clients : ~Handing(c, i, j)
    BY <1>1 DEF TInv, Once, OnceThread, OnceRequest, j
  <2>3. \A v \in Workers : worker[i][v].job = j => v = w
    BY <1>1 DEF TInv, Once, OnceThread, j
  <2>4. k = i => l # j
    BY <1>1, <1>6, <2>2, <2>3 DEF Unclaimed, Handing, ThreadIs
  <2>5. k # i => FALSE
    BY <1>7, <2>1 DEF Unclaimed, Handing
  <2>. QED
    BY <1>4, <2>1, <2>4, <2>5 DEF CInv, CountedWaits
<1>12. CountedRecord'
  BY <1>1, <1>2, <1>3, <1>4, <1>5, <1>6, <1>7, <1>8 DEF CInv, CountedRecord, ThreadIs, RowIs, Spare
<1>13. CountedThread'
  BY <1>1, <1>2, <1>3, <1>4, <1>5, <1>6, <1>7, <1>8 DEF CInv, CountedThread, ThreadIs, RowIs
<1>14. CountedTodo'
  BY <1>1, <1>2, <1>3, <1>4, <1>5, <1>6, <1>7, <1>8, TodoRetry
     DEF CInv, CountedTodo, ThreadIs, RowIs
<1>15. CountedRequest'
  BY <1>1, <1>2, <1>3, <1>4, <1>5, <1>6, <1>7, <1>8
     DEF CInv, CountedRequest, Waits, Handing, ThreadIs, RowIs, Spare
<1>. QED
  BY <1>9, <1>10, <1>11, <1>12, <1>13, <1>14, <1>15 DEF CInv

LEMMA ClaimLostCounts ==
    ASSUME IInv, TInv, Saves, CInv, NEW i \in Instances, NEW w \in Workers, ClaimLost(i, w)
    PROVE  CInv'
<1>1. /\ worker[i][w].pc = "taken"
      /\ ThreadIs(i, w, "idle", None, Blank("absent"))
      /\ UNCHANGED <<db, run, mem, queue, inst, todo, request, applied, claims, faults>>
  BY ClaimLostStep
<1>2. \A k \in Instances : Queued(k)' = Queued(k)
  BY <1>1 DEF Queued
<1>3. Alone' /\ Counted' /\ CountedTodo'
  BY <1>1, <1>2 DEF CInv, Alone, Counted, CountedTodo, Spare
<1>4. CountedWaits'
  BY <1>1, <1>2 DEF CInv, CountedWaits, Unclaimed, Handing, ThreadIs
<1>5. CountedRecord'
  BY <1>1, <1>2 DEF CInv, CountedRecord, ThreadIs, Spare
<1>6. CountedThread'
  BY <1>1, <1>2 DEF CInv, CountedThread, ThreadIs
<1>7. CountedRequest'
  BY <1>1, <1>2 DEF CInv, CountedRequest, Waits, Handing, ThreadIs, Spare
<1>. QED
  BY <1>3, <1>4, <1>5, <1>6, <1>7 DEF CInv

LEMMA ClaimRecordCounts ==
    ASSUME IInv, TInv, Saves, CInv, NEW i \in Instances, NEW w \in Workers, ClaimRecord(i, w)
    PROVE  CInv'
<1>. DEFINE j == worker[i][w].job
<1>1. /\ worker[i][w].pc = "claimed" /\ j \in Jobs /\ inst[i] = "up"
      /\ ThreadIs(i, w, "begin", j, worker[i][w].snap)
      /\ UNCHANGED <<db, run, queue, inst, todo, request, applied, claims, faults>>
  BY ClaimRecordStep
<1>2. PICK r \in Record : MemIs(i, j, r)
                       /\ Fields(r, "running", mem[i][j].cancel, mem[i][j].retry, i, TRUE)
  BY ClaimRecordStep
<1>3. mem[i][j].status # "absent"
  BY <1>1 DEF TInv, Known, KnownThread, RecordOf
<1>4. \A k \in Instances : Queued(k)' = Queued(k)
  BY <1>1 DEF Queued
<1>5. Alone' /\ Counted' /\ CountedTodo'
  BY <1>1, <1>4 DEF CInv, Alone, Counted, CountedTodo, Spare
<1>6. CountedWaits'
  BY <1>1, <1>2, <1>3, <1>4 DEF CInv, CountedWaits, Unclaimed, Handing, ThreadIs, MemIs
<1>7. CountedRecord'
  BY <1>1, <1>2, <1>3, <1>4 DEF CInv, CountedRecord, ThreadIs, MemIs, Fields, Spare
<1>8. CountedThread'
  BY <1>1, <1>2, <1>3, <1>4 DEF CInv, CountedThread, ThreadIs, MemIs
<1>9. CountedRequest'
  BY <1>1, <1>2, <1>3, <1>4, NoNone
     DEF CInv, CountedRequest, Waits, Handing, ThreadIs, MemIs, Fields, Spare
<1>. QED
  BY <1>5, <1>6, <1>7, <1>8, <1>9 DEF CInv

LEMMA CheckPassesCounts ==
    ASSUME IInv, TInv, Saves, CInv, NEW i \in Instances, NEW w \in Workers, CheckPasses(i, w)
    PROVE  CInv'
<1>1. /\ worker[i][w].job \in Jobs /\ worker[i][w].pc \in {"begin", "work", "applied"}
      /\ UNCHANGED <<db, run, mem, queue, inst, todo, request, applied, claims>>
  BY CheckPassesStep
<1>2. PICK pc \in {"entered", "commit", "rechecked"} :
         ThreadIs(i, w, pc, worker[i][w].job, worker[i][w].snap)
  BY CheckPassesStep
<1>3. \A k \in Instances : Queued(k)' = Queued(k)
  BY <1>1 DEF Queued
<1>4. Alone' /\ Counted' /\ CountedTodo'
  BY <1>1, <1>3 DEF CInv, Alone, Counted, CountedTodo, Spare
<1>5. CountedWaits'
  BY <1>1, <1>2, <1>3 DEF CInv, CountedWaits, Unclaimed, Handing, ThreadIs
<1>6. CountedRecord'
  BY <1>1, <1>2, <1>3 DEF CInv, CountedRecord, ThreadIs, Spare
<1>7. CountedThread'
  BY <1>1, <1>2, <1>3 DEF CInv, CountedThread, ThreadIs
<1>8. CountedRequest'
  BY <1>1, <1>2, <1>3 DEF CInv, CountedRequest, Waits, Handing, ThreadIs, Spare
<1>. QED
  BY <1>4, <1>5, <1>6, <1>7, <1>8 DEF CInv

LEMMA ApplyCounts ==
    ASSUME IInv, TInv, Saves, CInv, NEW i \in Instances, NEW w \in Workers, Apply(i, w)
    PROVE  CInv'
<1>1. /\ worker[i][w].pc = "commit" /\ worker[i][w].job \in Jobs
      /\ ThreadIs(i, w, "applied", worker[i][w].job, worker[i][w].snap)
      /\ UNCHANGED <<db, run, mem, queue, inst, todo, request, claims, faults>>
  BY ApplyStep
<1>2. \A k \in Instances : Queued(k)' = Queued(k)
  BY <1>1 DEF Queued
<1>3. Alone' /\ Counted' /\ CountedTodo'
  BY <1>1, <1>2 DEF CInv, Alone, Counted, CountedTodo, Spare
<1>4. CountedWaits'
  BY <1>1, <1>2 DEF CInv, CountedWaits, Unclaimed, Handing, ThreadIs
<1>5. CountedRecord'
  BY <1>1, <1>2 DEF CInv, CountedRecord, ThreadIs, Spare
<1>6. CountedThread'
  BY <1>1, <1>2 DEF CInv, CountedThread, ThreadIs
<1>7. CountedRequest'
  BY <1>1, <1>2 DEF CInv, CountedRequest, Waits, Handing, ThreadIs, Spare
<1>. QED
  BY <1>3, <1>4, <1>5, <1>6, <1>7 DEF CInv

LEMMA SnapshotCounts ==
    ASSUME IInv, TInv, Saves, CInv, NEW i \in Instances, NEW w \in Workers, NEW to, NEW cancel,
           NEW pc \in {"persist", "persistResult"}, Updates(i, w, to, cancel, pc), to # "queued",
           worker[i][w].pc # "claimed", cancel \/ ~RecordOf(i, w).cancel
    PROVE  CInv'
<1>. DEFINE j == worker[i][w].job
<1>1. /\ inst[i] = "up" /\ worker[i][w].pc # "idle" /\ j \in Jobs
      /\ UNCHANGED <<db, run, queue, inst, todo, request, applied, claims>>
  BY DEF Updates
<1>2. PICK r \in Record :
         /\ MemIs(i, j, r) /\ ThreadIs(i, w, pc, j, r)
         /\ Fields(r, to, cancel, mem[i][j].retry, mem[i][j].owner, mem[i][j].fresh)
  BY DEF Updates
<1>3. mem[i][j].status # "absent" /\ (mem[i][j].cancel => cancel)
  BY <1>1 DEF TInv, Known, KnownThread, RecordOf
<1>4. \A k \in Instances : Queued(k)' = Queued(k)
  BY <1>1 DEF Queued
<1>. HIDE DEF j
<1>5. Alone' /\ Counted' /\ CountedTodo'
  BY <1>1, <1>4 DEF CInv, Alone, Counted, CountedTodo, Spare
<1>6. CountedWaits'
  BY <1>1, <1>2, <1>3, <1>4 DEF CInv, CountedWaits, Unclaimed, Handing, ThreadIs, MemIs
<1>7. CountedRecord'
  BY <1>1, <1>2, <1>3, <1>4 DEF CInv, CountedRecord, ThreadIs, MemIs, Fields, Spare
<1>8. CountedThread'
  BY <1>1, <1>2, <1>3, <1>4 DEF CInv, CountedThread, CountedRecord, ThreadIs, MemIs, Fields, TInv
<1>9. CountedRequest'
  BY <1>1, <1>2, <1>3, <1>4 DEF CInv, CountedRequest, Waits, Handing, ThreadIs, MemIs, Fields, Spare
<1>. QED
  BY <1>5, <1>6, <1>7, <1>8, <1>9 DEF CInv

LEMMA PersistRecordCounts ==
    ASSUME MaxFaults = 0, IInv, TInv, Saves, CInv, NEW i \in Instances, NEW w \in Workers, PersistRecord(i, w)
    PROVE  CInv'
<1>. DEFINE j == worker[i][w].job
            s == worker[i][w].snap
<1>1. /\ worker[i][w].pc \in {"persist", "persistResult"} /\ j \in Jobs /\ s \in Record
      /\ UNCHANGED <<run, mem, queue, inst, todo, request, applied, claims>>
      /\ inst[i] = "up"
  BY PersistRecordStep DEF TInv, Lives
<1>2. PICK r \in Record : RowIs(j, r) /\ IsStored(i, s, r)
  BY PersistRecordStep, NeverFailing DEF Persisted
<1>3. r.status = s.status /\ r.retry = db[j].retry /\ s.status \notin {"queued", "absent"}
  BY <1>1, <1>2 DEF IsStored, CInv, CountedThread, TInv, KnownSnap, Saves, Terminal
<1>4. \A l \in Jobs : db'[l].retry = db[l].retry
  BY <1>2, <1>3 DEF RowIs
<1>5. \/ ThreadIs(i, w, "idle", None, Blank("absent"))
      \/ ThreadIs(i, w, "sync", j, s)
      \/ ThreadIs(i, w, "work", j, Blank("absent"))
  BY PersistRecordStep
<1>6. \A k \in Instances : Queued(k)' = Queued(k)
  BY <1>1 DEF Queued
<1>7. \A k \in Instances : todo[k] = {}
  BY <1>1, NotWhileRestoring DEF CInv
<1>. HIDE DEF j, s
<1>8. Alone'
  BY <1>1, <1>6 DEF CInv, Alone
<1>9. Counted'
  BY <1>1, <1>2, <1>3, <1>4, <1>5, <1>6, <1>7 DEF CInv, Counted, ThreadIs, RowIs, Spare
<1>10. CountedWaits'
  BY <1>1, <1>4, <1>5, <1>6 DEF CInv, CountedWaits, Unclaimed, Handing, ThreadIs, RowIs
<1>11. CountedRecord'
  BY <1>1, <1>2, <1>3, <1>4, <1>5, <1>6, <1>7 DEF CInv, CountedRecord, ThreadIs, RowIs, Spare
<1>12. CountedThread'
  BY <1>1, <1>4, <1>5 DEF CInv, CountedThread, ThreadIs, RowIs
<1>13. CountedTodo'
  BY <1>1, <1>2, <1>3, <1>4, <1>5, <1>6, <1>7, TodoRetry DEF CInv, CountedTodo, ThreadIs, RowIs
<1>14. CountedRequest'
  BY <1>1, <1>4, <1>5, <1>6 DEF CInv, CountedRequest, Waits, Handing, ThreadIs, RowIs, Spare
<1>. QED
  BY <1>8, <1>9, <1>10, <1>11, <1>12, <1>13, <1>14 DEF CInv

LEMMA SyncRunCounts ==
    ASSUME IInv, TInv, Saves, CInv, NEW i \in Instances, NEW w \in Workers, SyncRun(i, w)
    PROVE  CInv'
<1>. DEFINE j == worker[i][w].job
<1>1. /\ worker[i][w].pc = "sync" /\ j \in Jobs
      /\ UNCHANGED <<db, mem, queue, inst, todo, request, applied, claims>>
  BY SyncRunStep
<1>2. \/ ThreadIs(i, w, "idle", None, Blank("absent"))
      \/ ThreadIs(i, w, "work", j, Blank("absent"))
      \/ ThreadIs(i, w, "attach", j, Blank("absent"))
  BY SyncRunStep
<1>3. \A k \in Instances : Queued(k)' = Queued(k)
  BY <1>1 DEF Queued
<1>4. Alone' /\ Counted' /\ CountedTodo'
  BY <1>1, <1>3 DEF CInv, Alone, Counted, CountedTodo, Spare
<1>5. CountedWaits'
  BY <1>1, <1>2, <1>3 DEF CInv, CountedWaits, Unclaimed, Handing, ThreadIs
<1>6. CountedRecord'
  BY <1>1, <1>2, <1>3 DEF CInv, CountedRecord, ThreadIs, Spare
<1>7. CountedThread'
  BY <1>1, <1>2, <1>3 DEF CInv, CountedThread, ThreadIs
<1>8. CountedRequest'
  BY <1>1, <1>2, <1>3 DEF CInv, CountedRequest, Waits, Handing, ThreadIs, Spare
<1>. QED
  BY <1>4, <1>5, <1>6, <1>7, <1>8 DEF CInv

LEMMA StartCounts ==
    ASSUME MaxAlive = 1, IsFiniteSet(Instances), IInv, TInv, Saves, CInv, NEW i \in Instances, Start(i)
    PROVE  CInv'
<1>1. /\ inst[i] = "new" /\ UNCHANGED <<db, run, mem, queue, worker, request, applied, claims>>
      /\ \A k \in Instances : inst'[k] = IF k = i THEN "restoring" ELSE inst[k]
      /\ Cardinality(Alive) < MaxAlive
  BY StartStep
<1>2. \A k \in Instances : inst[k] \notin {"restoring", "up"}
  <2>1. IsFiniteSet(Alive)
    BY FS_Subset DEF Alive
  <2>2. Alive = {}
    BY <1>1, <2>1, FS_CardinalityType, FS_EmptySet
  <2>. QED
    BY <2>2 DEF Alive
<1>3. \A k \in Instances : \A e \in todo'[k] :
         \E l \in Jobs : e = <<l, db[l]>>
  <2>1. todo[i] = {} /\ \A k \in Instances : k # i => todo'[k] = todo[k] /\ todo[k] = {}
    BY <1>1, <1>2, StartStep DEF TInv, Lives
  <2>2. \A e \in Selected : \E l \in Jobs : e = <<l, db[l]>>
    BY DEF Selected
  <2>3. todo'[i] = Selected \/ todo'[i] = todo[i]
    BY StartStep
  <2>. QED
    BY <2>1, <2>2, <2>3
<1>4. \A k \in Instances : Queued(k)' = Queued(k)
  BY <1>1 DEF Queued
<1>5. Counted' /\ CountedWaits' /\ CountedRecord' /\ CountedThread' /\ CountedRequest'
  BY <1>1, <1>4
     DEF CInv, Counted, CountedWaits, Unclaimed, Handing, CountedRecord, CountedThread,
         CountedRequest, Waits, Spare
<1>6. Alone'
  BY <1>1, <1>2, <1>3, <1>4 DEF CInv, Alone
<1>7. CountedTodo'
  BY <1>1, <1>2, <1>3, <1>4, TodoRetry DEF CInv, CountedTodo, Counted, TInv, Spare
<1>. QED
  BY <1>5, <1>6, <1>7 DEF CInv

LEMMA RestoreJobCounts ==
    ASSUME MaxFaults = 0, IInv, TInv, Saves, CInv, NEW i \in Instances, NEW e \in todo[i], RestoreJob(i, e)
    PROVE  CInv'
<1>. DEFINE j == e[1]
<1>1. /\ inst[i] = "restoring" /\ j \in Jobs /\ e[2] \in Record
      /\ \A k \in Instances : todo'[k] = IF k = i THEN todo[i] \ {e} ELSE todo[k]
      /\ UNCHANGED <<run, inst, worker, request, applied, claims>>
  BY RestoreJobStep
<1>2. PICK r \in Record, s \in Record :
         /\ MemIs(i, j, r) /\ IsRestored(i, e[2], r) /\ RowIs(j, s) /\ IsStored(i, r, s)
         /\ \A k \in Instances :
               Queued(k)' = IF k = i /\ r.status = "queued" THEN Queued(i) \cup {j} ELSE Queued(k)
  BY RestoreJobStep, NeverFailing
<1>3. /\ e[2].status \in {"queued", "running"} /\ e[2].retry = db[j].retry /\ e[2].retry \in Nat
      /\ Spare(j, e[2]) /\ e[2].cancel \in BOOLEAN
      /\ \A x \in todo[i] : x[1] = j => x = e
  BY <1>1 DEF CInv, CountedTodo, TInv, Known, KnownTodo, Active, Once, OnceTodo, Record
<1>4. /\ r.retry \in Nat /\ s.retry = r.retry /\ s.status = r.status /\ s.cancel = r.cancel
      /\ r.status # "absent" /\ (r.status = "queued" => r.retry <= MaxRetries)
      /\ r.retry >= db[j].retry
      /\ r.status = "queued" => claims[j] <= r.retry
  <2>1. claims[j] <= e[2].retry + 1
    BY <1>1, <1>3 DEF CInv, Counted
  <2>. QED
    BY <1>1, <1>2, <1>3, <2>1, CountTypes DEF IsRestored, IsStored, Record, Spare
<1>5. /\ \A w \in Workers : worker[i][w].pc = "idle" /\ worker[i][w].job = None
      /\ \A c \in Clients : request[c].at # i
  BY <1>1 DEF TInv, Lives, Idle
<1>6. \A k \in Instances : k # i =>
         /\ inst[k] \in {"new", "down"} /\ todo[k] = {} /\ Queued(k) = {}
         /\ \A l \in Jobs : mem[k][l].status = "absent"
         /\ \A v \in Workers : worker[k][v].pc = "idle" /\ worker[k][v].job = None
         /\ \A d \in Clients : request[d].at # k
  BY <1>1, OnlyHere DEF CInv
<1>. HIDE DEF j
<1>7. Alone'
  BY <1>1 DEF CInv, Alone
<1>8. Counted'
  BY <1>1, <1>2, <1>4, CountTypes DEF CInv, Counted, MemIs, RowIs, Spare
<1>9. CountedWaits'
  <2>. SUFFICES ASSUME NEW k \in Instances, NEW l \in Jobs, Unclaimed(k, l)'
                PROVE  claims'[l] <= db'[l].retry /\ db'[l].retry <= MaxRetries
    BY DEF CountedWaits
  <2>1. l \in Queued(k)'
    BY <1>1, <1>5, <1>6 DEF Unclaimed, Handing
  <2>2. k = i /\ (l \in Queued(i) \/ (l = j /\ r.status = "queued"))
    BY <1>2, <1>6, <2>1
  <2>3. CASE l = j
    <3>1. r.status = "queued"
      BY <1>1, <2>2, <2>3 DEF TInv, Once, OnceTodo, j
    <3>. QED
      BY <1>1, <1>2, <1>4, <2>3, <3>1 DEF RowIs
  <2>4. CASE l # j
    BY <1>1, <1>2, <2>2, <2>4 DEF RowIs, CInv, CountedWaits, Unclaimed
  <2>. QED
    BY <2>3, <2>4
<1>10. CountedRecord'
  BY <1>1, <1>2, <1>4, <1>5, <1>6 DEF CInv, CountedRecord, MemIs, RowIs, Spare
<1>11. CountedThread'
  BY <1>1, <1>5, <1>6 DEF CInv, CountedThread, MemIs, RowIs
<1>12. CountedTodo'
  BY <1>1, <1>2, <1>3, <1>6, TodoRetry DEF CInv, CountedTodo, j, MemIs, RowIs, TInv, Spare
<1>13. CountedRequest'
  BY <1>1, <1>5, <1>6 DEF CInv, CountedRequest, Waits, MemIs, RowIs
<1>. QED
  BY <1>7, <1>8, <1>9, <1>10, <1>11, <1>12, <1>13 DEF CInv

LEMMA RestoreLostCounts ==
    ASSUME IInv, TInv, Saves, CInv, NEW i \in Instances, NEW e \in todo[i], RestoreLost(i, e)
    PROVE  CInv'
<1>1. /\ inst[i] = "restoring"
      /\ \A k \in Instances : todo'[k] = IF k = i THEN todo[i] \ {e} ELSE todo[k]
      /\ UNCHANGED <<db, run, mem, queue, inst, worker, request, applied, claims, faults>>
  BY RestoreLostStep
<1>2. \A k \in Instances : Queued(k)' = Queued(k)
  BY <1>1 DEF Queued
<1>3. Alone' /\ Counted' /\ CountedWaits' /\ CountedRecord' /\ CountedThread' /\ CountedRequest'
  BY <1>1, <1>2
     DEF CInv, Alone, Counted, CountedWaits, Unclaimed, Handing, CountedRecord, CountedThread,
         CountedRequest, Waits, Spare
<1>4. CountedTodo'
  BY <1>1, <1>2, TodoRetry DEF CInv, CountedTodo, Spare
<1>. QED
  BY <1>3, <1>4 DEF CInv

LEMMA ServeCounts ==
    ASSUME IInv, TInv, Saves, CInv, NEW i \in Instances, Serve(i)
    PROVE  CInv'
<1>1. /\ inst[i] = "restoring"
      /\ \A k \in Instances : inst'[k] = IF k = i THEN "up" ELSE inst[k]
      /\ UNCHANGED <<db, run, mem, queue, todo, worker, request, applied, claims, faults>>
  BY ServeStep
<1>2. \A k \in Instances : Queued(k)' = Queued(k)
  BY <1>1 DEF Queued
<1>3. Counted' /\ CountedWaits' /\ CountedRecord' /\ CountedThread' /\ CountedTodo'
      /\ CountedRequest'
  BY <1>1, <1>2
     DEF CInv, Counted, CountedWaits, Unclaimed, Handing, CountedRecord, CountedThread,
         CountedTodo, CountedRequest, Waits, Spare
<1>4. Alone'
  BY <1>1, <1>2 DEF CInv, Alone
<1>. QED
  BY <1>3, <1>4 DEF CInv

LEMMA CrashCounts ==
    ASSUME IInv, TInv, Saves, CInv, NEW i \in Instances, Crash(i)
    PROVE  CInv'
<1>1. DeadIs(i) /\ UNCHANGED <<db, run, applied, claims, faults>>
  BY CrashStep
<1>2. Blank("absent").status = "absent"
  BY DEF Blank
<1>3. Counted'
  BY <1>1 DEF CInv, Counted, Spare
<1>4. Alone'
  BY <1>1, <1>2 DEF CInv, Alone, DeadIs
<1>5. CountedWaits'
  BY <1>1, <1>2 DEF CInv, CountedWaits, Unclaimed, Handing, DeadIs
<1>6. CountedRecord'
  BY <1>1, <1>2 DEF CInv, CountedRecord, DeadIs, Spare
<1>7. CountedThread'
  BY <1>1, <1>2 DEF CInv, CountedThread, DeadIs
<1>8. CountedTodo'
  BY <1>1, <1>2, TodoRetry DEF CInv, CountedTodo, DeadIs, Spare
<1>9. CountedRequest'
  BY <1>1, <1>2 DEF CInv, CountedRequest, Waits, Handing, DeadIs, Spare
<1>. QED
  BY <1>3, <1>4, <1>5, <1>6, <1>7, <1>8, <1>9 DEF CInv

LEMMA LeaseExpiresCounts ==
    ASSUME IInv, TInv, Saves, CInv, NEW j \in Jobs, LeaseExpires(j)
    PROVE  CInv'
<1>1. UNCHANGED <<run, queue, inst, todo, worker, request, applied, claims, faults>>
  BY LeaseExpiresStep
<1>2. /\ \A l \in Jobs : /\ db'[l].status = db[l].status /\ db'[l].cancel = db[l].cancel
                         /\ db'[l].retry = db[l].retry
      /\ \A k \in Instances, l \in Jobs :
            /\ mem'[k][l].status = mem[k][l].status /\ mem'[k][l].cancel = mem[k][l].cancel
            /\ mem'[k][l].retry = mem[k][l].retry
  BY LeaseExpiresStep DEF Fields
<1>3. \A k \in Instances : Queued(k)' = Queued(k)
  BY <1>1 DEF Queued
<1>4. Alone'
  BY <1>1, <1>3 DEF CInv, Alone
<1>5. Counted'
  BY <1>1, <1>2, <1>3 DEF CInv, Counted, Spare
<1>6. CountedWaits'
  BY <1>1, <1>2, <1>3 DEF CInv, CountedWaits, Unclaimed, Handing
<1>7. CountedRecord'
  BY <1>1, <1>2, <1>3 DEF CInv, CountedRecord, Spare
<1>8. CountedThread'
  BY <1>1, <1>2, <1>3 DEF CInv, CountedThread
<1>9. CountedTodo'
  BY <1>1, <1>2, <1>3, TodoRetry DEF CInv, CountedTodo, Spare
<1>10. CountedRequest'
  BY <1>1, <1>2, <1>3 DEF CInv, CountedRequest, Waits, Handing, Spare
<1>. QED
  BY <1>4, <1>5, <1>6, <1>7, <1>8, <1>9, <1>10 DEF CInv

LEMMA SupersedeCounts ==
    ASSUME IInv, TInv, Saves, CInv, NEW r \in Runs, Supersede(r)
    PROVE  CInv'
<1>1. UNCHANGED <<mem, queue, inst, todo, worker, request, applied, claims, faults>>
  BY SupersedeStep
<1>2. \A l \in Jobs : /\ db'[l].status = db[l].status /\ db'[l].retry = db[l].retry
                      /\ db[l].cancel => db'[l].cancel
  <2>. SUFFICES ASSUME NEW l \in Jobs
                PROVE  /\ db'[l].status = db[l].status /\ db'[l].retry = db[l].retry
                       /\ db[l].cancel => db'[l].cancel
    OBVIOUS
  <2>1. PICK ca \in {db[l].cancel, TRUE} :
           /\ Fields(db'[l], db[l].status, ca, db[l].retry, db[l].owner, db[l].fresh)
           /\ db'[l].artifact = db[l].artifact
    BY SupersedeStep
  <2>. QED
    BY <2>1 DEF Fields
<1>3. \A k \in Instances : Queued(k)' = Queued(k)
  BY <1>1 DEF Queued
<1>4. Alone'
  BY <1>1, <1>3 DEF CInv, Alone
<1>5. Counted'
  BY <1>1, <1>2, <1>3 DEF CInv, Counted, Spare
<1>6. CountedWaits'
  BY <1>1, <1>2, <1>3 DEF CInv, CountedWaits, Unclaimed, Handing
<1>7. CountedRecord'
  BY <1>1, <1>2, <1>3 DEF CInv, CountedRecord, Spare
<1>8. CountedThread'
  BY <1>1, <1>2, <1>3 DEF CInv, CountedThread
<1>9. CountedTodo'
  BY <1>1, <1>2, <1>3, TodoRetry DEF CInv, CountedTodo, Spare
<1>10. CountedRequest'
  BY <1>1, <1>2, <1>3 DEF CInv, CountedRequest, Waits, Handing, Spare
<1>. QED
  BY <1>4, <1>5, <1>6, <1>7, <1>8, <1>9, <1>10 DEF CInv
LEMMA CInit == Init => CInv
<1>. SUFFICES ASSUME Init PROVE CInv
  OBVIOUS
<1>1. /\ \A j \in Jobs : db[j].status = "absent" /\ db[j].retry = 0 /\ claims[j] = 0
      /\ \A i \in Instances, j \in Jobs : mem[i][j].status = "absent"
  BY DEF Init, Blank
<1>2. \A i \in Instances : inst[i] = "new" /\ todo[i] = {} /\ Queued(i) = {}
  BY DEF Init, Queued
<1>3. \A i \in Instances, w \in Workers : worker[i][w].pc = "idle" /\ worker[i][w].job = None
  BY IdleFields DEF Init
<1>4. \A c \in Clients : request[c].pc = "idle" /\ request[c].at = None
  BY IdleFields DEF Init
<1>. QED
  BY <1>1, <1>2, <1>3, <1>4, NoNone, JobManagerAssumption
     DEF CInv, Alone, Counted, Spare, CountedWaits, Unclaimed, Handing, CountedRecord,
         CountedThread, CountedTodo, CountedRequest

LEMMA CStutters == CInv /\ UNCHANGED <<db, mem, queue, inst, todo, worker, request, claims>> => CInv'
<1>. SUFFICES ASSUME CInv, UNCHANGED <<db, mem, queue, inst, todo, worker, request, claims>>
              PROVE  CInv'
  OBVIOUS
<1>1. \A k \in Instances : Queued(k)' = Queued(k)
  BY DEF Queued
<1>. QED
  BY <1>1 DEF CInv, Alone, Counted, Spare, CountedWaits, Unclaimed, Waits, Handing, CountedRecord,
              CountedThread, CountedTodo, CountedRequest

LEMMA CWorker ==
    ASSUME MaxFaults = 0, IInv, TInv, Saves, CInv, NEW i \in Instances, NEW w \in Workers,
           WorkerStep(i, w)
    PROVE  CInv'
<1>1. CASE Report(i, w)
  BY <1>1, ReportStep, SnapshotCounts
<1>2. CASE Stop(i, w)
  BY <1>2, StopStep, SnapshotCounts
<1>3. CASE Fail(i, w)
  BY <1>3, FailStep, SnapshotCounts
<1>4. CASE Complete(i, w)
  BY <1>4, CompleteStep, SnapshotCounts
<1>5. CASE Attach(i, w)
  <2>1. worker[i][w].pc = "attach" /\ worker[i][w].job \in Jobs
    BY <1>5, AttachStep, BusyTypes
  <2>2. RecordOf(i, w).status = "completed"
    BY <2>1 DEF Saves, TInv, Ended, RecordOf
  <2>. QED
    BY <1>5, <2>1, <2>2, AttachStep, SnapshotCounts
<1>. QED
  BY <1>1, <1>2, <1>3, <1>4, <1>5, TakeCounts, ClaimCounts, ClaimLostCounts, ClaimRecordCounts,
     CheckPassesCounts, ApplyCounts, PersistRecordCounts, SyncRunCounts DEF WorkerStep

LEMMA CStep ==
    ASSUME MaxFaults = 0, MaxAlive = 1, CrashWhileRestoring = FALSE, IsFiniteSet(Instances),
           IInv, TInv, Saves, CInv, [Next]_vars
    PROVE  CInv'
<1>1. ASSUME NEW c \in Clients, ClientStep(c) PROVE CInv'
  <2>1. ~Failing
    BY NeverFailing
  <2>2. \A i \in Instances, j \in Jobs : ~SubmitUnsaved(c, i, j)
    BY <2>1 DEF SubmitUnsaved, Fault, Failing
  <2>3. ~AttachFails(c)
    BY <2>1 DEF AttachFails, Fault, Failing
  <2>. QED
    BY <1>1, <2>2, <2>3, SubmitCounts, CancelCounts, CancelTerminalCounts, AttachRunCounts,
       EnqueueCounts, SnapCancelCounts, PersistCancelCounts DEF ClientStep
<1>2. ASSUME NEW i \in Instances, NEW j \in Jobs, GetJob(i, j) \/ ReuseRow(i, j) PROVE CInv'
  BY <1>2, ReadRowCounts
<1>3. ASSUME NEW i \in Instances, NEW w \in Workers, WorkerStep(i, w) PROVE CInv'
  BY <1>3, CWorker
<1>4. ASSUME NEW i \in Instances, Start(i) \/ RestoreStep(i) \/ Crash(i) PROVE CInv'
  BY <1>4, StartCounts, RestoreJobCounts, RestoreLostCounts, ServeCounts, CrashCounts
     DEF RestoreStep
<1>5. ASSUME NEW i \in Instances, NEW e \in todo[i], CrashInRestore(i, e) PROVE CInv'
  BY <1>5 DEF CrashInRestore
<1>6. ASSUME NEW j \in Jobs, LeaseExpires(j) PROVE CInv'
  BY <1>6, LeaseExpiresCounts
<1>7. ASSUME NEW r \in Runs, Supersede(r) PROVE CInv'
  BY <1>7, SupersedeCounts
<1>8. CASE Next
  BY <1>1, <1>2, <1>3, <1>4, <1>5, <1>6, <1>7, <1>8 DEF Next
<1>9. CASE UNCHANGED vars
  BY <1>9, CStutters DEF vars
<1>. QED
  BY <1>8, <1>9

(* The retry limit: a job is executed once, and again at most MaxRetries   *)
(* times, over any number of processes that come one after the other.      *)
THEOREM RetryLimit ==
    ASSUME MaxFaults = 0, MaxAlive = 1, CrashWhileRestoring = FALSE, IsFiniteSet(Instances)
    PROVE  Spec => []ExecutionsBounded
<1>1. Init => IInv /\ TInv /\ Saves /\ CInv
  BY InitHolds, TInit, SavesStarts, CInit
<1>2. (IInv /\ TInv /\ Saves /\ CInv) /\ [Next]_vars => (IInv /\ TInv /\ Saves /\ CInv)'
  BY StepKeeps, TStep, SavesStep, CStep
<1>3. CInv => ExecutionsBounded
  BY DEF CInv, Counted, ExecutionsBounded
<1>. QED
  BY <1>1, <1>2, <1>3, PTL DEF Spec

-----------------------------------------------------------------------------
(* A living instance works on the jobs whose lease it holds.               *)

(* Once cancel_job has flagged a record, the flag stays in it until the    *)
(* request has taken its snapshot, which therefore carries it into the row *)
(* - unless the request for the preview is repeated (ReuseRow).            *)
Asked ==
    \A c \in Clients, i \in Instances, j \in Jobs :
        request[c].at = i /\ request[c].job = j /\ ~Repeatable(j) =>
            /\ request[c].pc = "flagged" => mem[i][j].cancel
            /\ request[c].pc = "snapped" => request[c].snap.cancel

(* Only a row that is not over has an owner.                               *)
RowOwned == \A j \in Jobs : db[j].owner # None => db[j].status \in Active

(* The lease of an uncancelled job is held by an instance that has started *)
(* and that, while it lives, has the job in its queue or with a thread.    *)
HeldBy(i, j) == db[j].owner = i /\ db[j].fresh /\ ~db[j].cancel
Serves(i, w, j) ==
    /\ worker[i][w].job = j
    /\ \/ worker[i][w].pc \in {"claimed", "begin", "entered", "work", "commit",
                               "applied", "rechecked", "persist"}
       \/ worker[i][w].pc = "sync" /\ worker[i][w].snap.status = "running"
Served ==
    \A i \in Instances, j \in Jobs :
        HeldBy(i, j) /\ ~Repeatable(j) =>
            /\ inst[i] # "new"
            /\ inst[i] # "down" /\ db[j].status = "queued" =>
                  \/ j \in Queued(i)
                  \/ \E w \in Workers : worker[i][w].job = j /\ worker[i][w].pc = "taken"
            /\ inst[i] # "down" /\ db[j].status = "running" =>
                  \E w \in Workers : Serves(i, w, j)

DInv == Asked /\ RowOwned /\ Served

(* A step of one thread: what matters is the job it has.                   *)
LEMMA ServedByThread ==
    ASSUME Served, NEW i \in Instances, NEW w \in Workers, NEW j, j = worker[i][w].job,
           UNCHANGED inst, \A k \in Instances : Queued(k)' = Queued(k),
           \A l \in Jobs : l # j => db'[l] = db[l],
           \A k \in Instances, v \in Workers : k # i \/ v # w =>
               /\ worker'[k][v].pc = worker[k][v].pc
               /\ worker'[k][v].job = worker[k][v].job
               /\ worker'[k][v].snap = worker[k][v].snap,
           worker[i][w].pc # "taken",
           Serves(i, w, j) => Serves(i, w, j)',
           j \in Jobs =>
               \/ db'[j] = db[j]
               \/ db'[j].owner = None
               \/ db'[j].status = "running" /\ db'[j].owner = i /\ Serves(i, w, j)' /\ inst[i] # "new"
    PROVE  Served'
<1>. SUFFICES ASSUME NEW k \in Instances, NEW l \in Jobs, HeldBy(k, l)', ~Repeatable(l)
              PROVE  /\ inst[k] # "new"
                     /\ inst[k] # "down" /\ db'[l].status = "queued" =>
                           \/ l \in Queued(k)
                           \/ \E v \in Workers : worker'[k][v].job = l /\ worker'[k][v].pc = "taken"
                     /\ inst[k] # "down" /\ db'[l].status = "running" =>
                           \E v \in Workers : Serves(k, v, l)'
  BY DEF Served
<1>1. CASE db'[l] = db[l]
  <2>1. HeldBy(k, l)
    BY <1>1 DEF HeldBy
  <2>2. \A v \in Workers : worker[k][v].job = l /\ worker[k][v].pc = "taken" =>
                           worker'[k][v].job = l /\ worker'[k][v].pc = "taken"
    OBVIOUS
  <2>3. \A v \in Workers : Serves(k, v, l) => Serves(k, v, l)'
    <3>. SUFFICES ASSUME NEW v \in Workers, Serves(k, v, l) PROVE Serves(k, v, l)'
      OBVIOUS
    <3>1. CASE k = i /\ v = w
      <4>1. l = j
        BY <3>1 DEF Serves
      <4>. QED
        BY <3>1, <4>1
    <3>2. CASE k # i \/ v # w
      BY <3>2 DEF Serves
    <3>. QED
      BY <3>1, <3>2
  <2>. QED
    BY <1>1, <2>1, <2>2, <2>3 DEF Served
<1>2. CASE db'[l] # db[l]
  <2>1. l = j /\ db'[j].owner = k
    BY <1>2 DEF HeldBy
  <2>. QED
    BY <1>2, <2>1, NoNone
<1>. QED
  BY <1>1, <1>2

LEMMA SubmitServes ==
    ASSUME IInv, TInv, Saves, DInv, NEW c \in Clients, NEW i \in Instances, NEW j \in Jobs, Submit(c, i, j)
    PROVE  DInv'
<1>1. /\ request[c].pc = "idle" /\ \A k \in Instances : mem[k][j].status = "absent"
      /\ UNCHANGED <<run, queue, inst, todo, worker, applied, claims, faults>>
  BY SubmitStep
<1>2. PICK r \in Record, s \in Record, pc \in {"accepted", "attached"} :
         /\ MemIs(i, j, r) /\ Fields(r, "queued", FALSE, 0, None, FALSE)
         /\ RowIs(j, s) /\ Fields(s, "queued", FALSE, 0, None, FALSE)
         /\ RequestIs(c, pc, i, j, Blank("absent"))
  BY SubmitStep
<1>3. \A k \in Instances : Queued(k)' = Queued(k)
  BY <1>1 DEF Queued
<1>4. Asked'
  BY <1>1, <1>2, <1>3 DEF DInv, Asked, KnownRequest, MemIs, RowIs, RequestIs, TInv, Known
<1>5. RowOwned'
  BY <1>1, <1>2, <1>3 DEF DInv, RowOwned, MemIs, RowIs, RequestIs, Fields
<1>6. Served'
  BY <1>1, <1>2, <1>3 DEF DInv, Served, HeldBy, Serves, MemIs, RowIs, RequestIs, Fields
<1>. QED
  BY <1>4, <1>5, <1>6 DEF DInv

LEMMA AttachRunServes ==
    ASSUME IInv, TInv, Saves, DInv, NEW c \in Clients, AttachRun(c)
    PROVE  DInv'
<1>1. /\ request[c].pc = "accepted"
      /\ RequestIs(c, "attached", request[c].at, request[c].job, request[c].snap)
      /\ UNCHANGED <<db, mem, queue, inst, todo, worker, applied, claims, faults>>
  BY AttachRunStep
<1>2. \A k \in Instances : Queued(k)' = Queued(k)
  BY <1>1 DEF Queued
<1>3. RowOwned' /\ Served'
  BY <1>1, <1>2 DEF DInv, RowOwned, Served, HeldBy, Serves
<1>4. Asked'
  BY <1>1, <1>2 DEF DInv, Asked, RequestIs
<1>. QED
  BY <1>3, <1>4 DEF DInv

LEMMA EnqueueServes ==
    ASSUME IInv, TInv, Saves, DInv, NEW c \in Clients, Enqueue(c)
    PROVE  DInv'
<1>. DEFINE i == request[c].at
            j == request[c].job
<1>1. /\ RequestIs(c, "idle", None, None, Blank("absent"))
      /\ UNCHANGED <<db, run, mem, inst, todo, worker, applied, claims, faults>>
  BY EnqueueStep
<1>2. \A k \in Instances : Queued(k) \subseteq Queued(k)'
  BY EnqueueStep
<1>3. RowOwned'
  BY <1>1 DEF DInv, RowOwned
<1>4. Asked'
  BY <1>1, <1>2 DEF DInv, Asked, RequestIs
<1>5. Served'
  BY <1>1, <1>2 DEF DInv, Served, HeldBy, Serves, RequestIs
<1>. QED
  BY <1>3, <1>4, <1>5 DEF DInv

LEMMA CancelServes ==
    ASSUME IInv, TInv, Saves, DInv, NEW c \in Clients, NEW i \in Instances, NEW j \in Jobs, Cancel(c, i, j)
    PROVE  DInv'
<1>1. /\ request[c].pc = "idle"
      /\ RequestIs(c, "flagged", i, j, Blank("absent"))
      /\ UNCHANGED <<db, run, queue, inst, todo, worker, applied, claims, faults>>
  BY CancelStep
<1>2. PICK r \in Record :
         /\ MemIs(i, j, r)
         /\ Fields(r, KnownRecord(i, j).status, TRUE, KnownRecord(i, j).retry,
                      KnownRecord(i, j).owner, KnownRecord(i, j).fresh)
  BY CancelStep
<1>3. \A k \in Instances : Queued(k)' = Queued(k)
  BY <1>1 DEF Queued
<1>4. RowOwned' /\ Served'
  BY <1>1, <1>3 DEF DInv, RowOwned, Served, HeldBy, Serves
<1>5. Asked'
  BY <1>1, <1>2, <1>3 DEF DInv, Asked, MemIs, RequestIs, Fields
<1>. QED
  BY <1>4, <1>5 DEF DInv

LEMMA CancelTerminalServes ==
    ASSUME IInv, TInv, Saves, DInv, NEW c \in Clients, NEW i \in Instances, NEW j \in Jobs, CancelTerminal(c, i, j)
    PROVE  DInv'
<1>1. /\ request[c].pc = "idle" /\ MemIs(i, j, KnownRecord(i, j))
      /\ RequestIs(c, "blocked", i, j, Blank("absent"))
      /\ UNCHANGED <<db, run, queue, inst, todo, worker, applied, claims, faults>>
  BY CancelTerminalStep
<1>2. mem[i][j].status = "absent" \/ KnownRecord(i, j) = mem[i][j]
  BY DEF KnownRecord
<1>3. \A k \in Instances : Queued(k)' = Queued(k)
  BY <1>1 DEF Queued
<1>4. RowOwned' /\ Served'
  BY <1>1, <1>3 DEF DInv, RowOwned, Served, HeldBy, Serves
<1>5. Asked'
  BY <1>1, <1>2, <1>3 DEF DInv, Asked, KnownRequest, MemIs, RequestIs, TInv, Known
<1>. QED
  BY <1>4, <1>5 DEF DInv

LEMMA SnapCancelServes ==
    ASSUME IInv, TInv, Saves, DInv, NEW c \in Clients, SnapCancel(c)
    PROVE  DInv'
<1>1. /\ request[c].pc = "flagged" /\ request[c].job \in Jobs /\ request[c].at \in Instances
      /\ RequestIs(c, "snapped", request[c].at, request[c].job, mem[request[c].at][request[c].job])
      /\ UNCHANGED <<db, run, mem, queue, inst, todo, worker, applied, claims, faults>>
  BY SnapCancelStep
<1>2. \A k \in Instances : Queued(k)' = Queued(k)
  BY <1>1 DEF Queued
<1>3. RowOwned' /\ Served'
  BY <1>1, <1>2 DEF DInv, RowOwned, Served, HeldBy, Serves
<1>4. Asked'
  BY <1>1, <1>2 DEF DInv, Asked, RequestIs
<1>. QED
  BY <1>3, <1>4 DEF DInv

LEMMA PersistCancelServes ==
    ASSUME MaxFaults = 0, IInv, TInv, Saves, DInv, NEW c \in Clients, PersistCancel(c)
    PROVE  DInv'
<1>. DEFINE i == request[c].at
            j == request[c].job
            s == request[c].snap
<1>1. /\ request[c].pc = "snapped" /\ j \in Jobs /\ i \in Instances /\ s \in Record
      /\ RequestIs(c, "idle", None, None, Blank("absent"))
      /\ UNCHANGED <<run, mem, queue, inst, todo, worker, applied, claims>>
  BY PersistCancelStep
<1>2. PICK r \in Record : RowIs(j, r) /\ IsStored(i, s, r)
  BY PersistCancelStep, NeverFailing
<1>3. r.cancel = s.cancel /\ (~Repeatable(j) => s.cancel)
  BY <1>1, <1>2 DEF IsStored, DInv, Asked
<1>4. r.owner # None => r.status \in Active
  BY <1>2 DEF IsStored
<1>5. \A k \in Instances : Queued(k)' = Queued(k)
  BY <1>1 DEF Queued
<1>. HIDE DEF i, j, s
<1>6. Asked'
  BY <1>1, <1>2, <1>3, <1>4, <1>5 DEF DInv, Asked, RequestIs, RowIs
<1>7. RowOwned'
  BY <1>1, <1>2, <1>3, <1>4, <1>5 DEF DInv, RowOwned, RequestIs, RowIs
<1>8. Served'
  BY <1>1, <1>2, <1>3, <1>4, <1>5 DEF DInv, Served, HeldBy, Serves, RequestIs, RowIs
<1>. QED
  BY <1>6, <1>7, <1>8 DEF DInv

LEMMA ReadRowServes ==
    ASSUME IInv, TInv, Saves, DInv, NEW i \in Instances, NEW j \in Jobs, GetJob(i, j) \/ ReuseRow(i, j)
    PROVE  DInv'
<1>1. /\ MemIs(i, j, db[j])
      /\ UNCHANGED <<db, run, queue, inst, todo, worker, request, applied, claims, faults>>
  BY ReadRowStep
<1>2. mem[i][j].status = "absent" \/ Repeatable(j)
  BY DEF GetJob, ReuseRow
<1>3. \A k \in Instances : Queued(k)' = Queued(k)
  BY <1>1 DEF Queued
<1>4. RowOwned' /\ Served'
  BY <1>1, <1>3 DEF DInv, RowOwned, Served, HeldBy, Serves
<1>5. Asked'
  BY <1>1, <1>2, <1>3 DEF DInv, Asked, KnownRequest, MemIs, TInv, Known
<1>. QED
  BY <1>4, <1>5 DEF DInv

LEMMA TakeServes ==
    ASSUME IInv, TInv, Saves, DInv, NEW i \in Instances, NEW w \in Workers, Take(i, w)
    PROVE  DInv'
<1>. DEFINE j == Head(queue[i])
<1>1. /\ worker[i][w].pc = "idle" /\ j \in Queued(i) /\ j \in Jobs
      /\ ThreadIs(i, w, "taken", j, Blank("absent"))
      /\ UNCHANGED <<db, run, mem, inst, todo, request, applied, claims, faults>>
      /\ \A k \in Instances : Queued(k)' = IF k = i THEN Queued(i) \ {j} ELSE Queued(k)
  BY TakeStep DEF TInv, Once, OnceQueue
<1>. HIDE DEF j
<1>2. Asked' /\ RowOwned'
  BY <1>1 DEF DInv, Asked, RowOwned
<1>3. Served'
  BY <1>1 DEF DInv, Served, HeldBy, Serves, ThreadIs
<1>. QED
  BY <1>2, <1>3 DEF DInv

LEMMA ClaimServes ==
    ASSUME IInv, TInv, Saves, DInv, NEW i \in Instances, NEW w \in Workers, Claim(i, w)
    PROVE  DInv'
<1>. DEFINE j == worker[i][w].job
<1>1. /\ worker[i][w].pc = "taken" /\ j \in Jobs /\ inst[i] = "up"
      /\ ThreadIs(i, w, "claimed", j, worker[i][w].snap)
      /\ UNCHANGED <<run, mem, queue, inst, todo, request, applied, faults>>
  BY ClaimStep DEF TInv, Lives
<1>2. PICK r \in Record : RowIs(j, r) /\ Fields(r, "running", db[j].cancel, db[j].retry, i, TRUE)
  BY ClaimStep
<1>3. \A k \in Instances : Queued(k)' = Queued(k)
  BY <1>1 DEF Queued
<1>. HIDE DEF j
<1>4. Asked'
  BY <1>1, <1>3 DEF DInv, Asked
<1>5. RowOwned'
  BY <1>1, <1>2, <1>3 DEF DInv, RowOwned, Active, ThreadIs, RowIs, Fields
<1>6. Served'
  <2>. SUFFICES ASSUME NEW k \in Instances, NEW l \in Jobs, HeldBy(k, l)', ~Repeatable(l)
                PROVE  /\ inst[k] # "new"
                       /\ inst[k] # "down" /\ db'[l].status = "queued" =>
                             \/ l \in Queued(k)
                             \/ \E v \in Workers : worker'[k][v].job = l /\ worker'[k][v].pc = "taken"
                       /\ inst[k] # "down" /\ db'[l].status = "running" =>
                             \E v \in Workers : Serves(k, v, l)'
    BY <1>1, <1>3 DEF Served
  <2>1. CASE l = j
    BY <1>1, <1>2, <2>1 DEF RowIs, Fields, HeldBy, ThreadIs, Serves
  <2>2. CASE l # j
    <3>1. db'[l] = db[l] /\ HeldBy(k, l)
      BY <1>2, <2>2 DEF RowIs, HeldBy
    <3>2. \A v \in Workers : worker[k][v].job = l =>
             /\ worker'[k][v].job = l /\ worker'[k][v].pc = worker[k][v].pc
             /\ worker'[k][v].snap = worker[k][v].snap
      BY <1>1, <2>2 DEF ThreadIs, j
    <3>. QED
      BY <3>1, <3>2 DEF DInv, Served, Serves
  <2>. QED
    BY <2>1, <2>2
<1>. QED
  BY <1>4, <1>5, <1>6 DEF DInv

LEMMA ClaimLostServes ==
    ASSUME IInv, TInv, Saves, DInv, NEW i \in Instances, NEW w \in Workers, ClaimLost(i, w)
    PROVE  DInv'
<1>1. /\ worker[i][w].pc = "taken" /\ worker[i][w].job \in Jobs
      /\ ThreadIs(i, w, "idle", None, Blank("absent"))
      /\ UNCHANGED <<db, run, mem, queue, inst, todo, request, applied, claims, faults>>
  BY ClaimLostStep
<1>2. ~Claimable(i, db[worker[i][w].job])
  BY DEF ClaimLost
<1>3. \A k \in Instances : Queued(k)' = Queued(k)
  BY <1>1 DEF Queued
<1>4. Asked' /\ RowOwned'
  BY <1>1, <1>3 DEF DInv, Asked, RowOwned
<1>5. Served'
  BY <1>1, <1>2, <1>3 DEF DInv, Served, HeldBy, Serves, Claimable, ThreadIs, TInv
<1>. QED
  BY <1>4, <1>5 DEF DInv

LEMMA ClaimRecordServes ==
    ASSUME IInv, TInv, Saves, DInv, NEW i \in Instances, NEW w \in Workers, ClaimRecord(i, w)
    PROVE  DInv'
<1>. DEFINE j == worker[i][w].job
<1>1. /\ worker[i][w].pc = "claimed" /\ j \in Jobs
      /\ ThreadIs(i, w, "begin", j, worker[i][w].snap)
      /\ UNCHANGED <<db, run, queue, inst, todo, request, applied, claims, faults>>
  BY ClaimRecordStep
<1>2. PICK r \in Record : MemIs(i, j, r)
                       /\ Fields(r, "running", mem[i][j].cancel, mem[i][j].retry, i, TRUE)
  BY ClaimRecordStep
<1>3. \A k \in Instances : Queued(k)' = Queued(k)
  BY <1>1 DEF Queued
<1>. HIDE DEF j
<1>4. RowOwned'
  BY <1>1, <1>3 DEF DInv, RowOwned
<1>5. Asked'
  BY <1>1, <1>2, <1>3 DEF DInv, Asked, ThreadIs, MemIs, Fields
<1>6. Served'
  BY <1>1, <1>3, ServedByThread DEF DInv, Serves, ThreadIs, j
<1>. QED
  BY <1>4, <1>5, <1>6 DEF DInv

LEMMA CheckPassesServes ==
    ASSUME IInv, TInv, Saves, DInv, NEW i \in Instances, NEW w \in Workers, CheckPasses(i, w)
    PROVE  DInv'
<1>1. /\ worker[i][w].job \in Jobs /\ worker[i][w].pc \in {"begin", "work", "applied"}
      /\ UNCHANGED <<db, run, mem, queue, inst, todo, request, applied, claims>>
  BY CheckPassesStep
<1>2. PICK pc \in {"entered", "commit", "rechecked"} :
         ThreadIs(i, w, pc, worker[i][w].job, worker[i][w].snap)
  BY CheckPassesStep
<1>3. \A k \in Instances : Queued(k)' = Queued(k)
  BY <1>1 DEF Queued
<1>4. Asked' /\ RowOwned'
  BY <1>1, <1>3 DEF DInv, Asked, RowOwned
<1>5. Served'
  BY <1>1, <1>2, <1>3 DEF DInv, Served, HeldBy, Serves, ThreadIs
<1>. QED
  BY <1>4, <1>5 DEF DInv

LEMMA ApplyServes ==
    ASSUME IInv, TInv, Saves, DInv, NEW i \in Instances, NEW w \in Workers, Apply(i, w)
    PROVE  DInv'
<1>1. /\ worker[i][w].pc = "commit" /\ worker[i][w].job \in Jobs
      /\ ThreadIs(i, w, "applied", worker[i][w].job, worker[i][w].snap)
      /\ UNCHANGED <<db, run, mem, queue, inst, todo, request, claims, faults>>
  BY ApplyStep
<1>2. \A k \in Instances : Queued(k)' = Queued(k)
  BY <1>1 DEF Queued
<1>3. Asked' /\ RowOwned'
  BY <1>1, <1>2 DEF DInv, Asked, RowOwned
<1>4. Served'
  BY <1>1, <1>2 DEF DInv, Served, HeldBy, Serves, ThreadIs
<1>. QED
  BY <1>3, <1>4 DEF DInv

LEMMA SnapshotServes ==
    ASSUME IInv, TInv, Saves, DInv, NEW i \in Instances, NEW w \in Workers, NEW to, NEW cancel,
           NEW pc \in {"persist", "persistResult"}, Updates(i, w, to, cancel, pc),
           pc = "persist" \/ worker[i][w].pc = "attach", worker[i][w].pc # "taken", cancel \/ ~RecordOf(i, w).cancel
    PROVE  DInv'
<1>. DEFINE j == worker[i][w].job
<1>1. /\ worker[i][w].pc # "idle" /\ j \in Jobs
      /\ UNCHANGED <<db, run, queue, inst, todo, request, applied, claims>>
  BY DEF Updates
<1>2. PICK r \in Record :
         /\ MemIs(i, j, r) /\ ThreadIs(i, w, pc, j, r)
         /\ Fields(r, to, cancel, mem[i][j].retry, mem[i][j].owner, mem[i][j].fresh)
  BY DEF Updates
<1>3. (mem[i][j].cancel => cancel) /\ mem[i][j] \in Record
  BY <1>1, BusyTypes DEF RecordOf
<1>4. \A k \in Instances : Queued(k)' = Queued(k)
  BY <1>1 DEF Queued
<1>. HIDE DEF j
<1>5. RowOwned'
  BY <1>1, <1>4 DEF DInv, RowOwned
<1>6. Asked'
  BY <1>1, <1>2, <1>3, <1>4 DEF DInv, Asked, ThreadIs, MemIs, Fields
<1>7. Served'
  BY <1>1, <1>2, <1>4, ServedByThread DEF DInv, Serves, ThreadIs, j
<1>. QED
  BY <1>5, <1>6, <1>7 DEF DInv

LEMMA PersistRecordServes ==
    ASSUME MaxFaults = 0, IInv, TInv, Saves, DInv, NEW i \in Instances, NEW w \in Workers, PersistRecord(i, w)
    PROVE  DInv'
<1>. DEFINE j == worker[i][w].job
            s == worker[i][w].snap
<1>1. /\ worker[i][w].pc \in {"persist", "persistResult"} /\ j \in Jobs /\ s \in Record
      /\ UNCHANGED <<run, mem, queue, inst, todo, request, applied, claims>>
      /\ inst[i] = "up"
  BY PersistRecordStep DEF TInv, Lives
<1>2. PICK r \in Record : RowIs(j, r) /\ IsStored(i, s, r)
  BY PersistRecordStep, NeverFailing DEF Persisted
<1>3. /\ r.status = s.status /\ (r.owner # None => r.status \in Active)
      /\ \/ s.status \in Terminal /\ r.owner = None
         \/ s.status = "running" /\ r.owner = i /\ worker[i][w].pc = "persist"
  BY <1>1, <1>2 DEF IsStored, Saves, Active, Terminal
<1>4. \/ s.status # "running" /\ ThreadIs(i, w, "idle", None, Blank("absent"))
      \/ ThreadIs(i, w, "sync", j, s)
      \/ ThreadIs(i, w, "work", j, Blank("absent"))
  BY <1>3, PersistRecordStep DEF Terminal
<1>5. \A k \in Instances : Queued(k)' = Queued(k)
  BY <1>1 DEF Queued
<1>. HIDE DEF j, s
<1>6. Asked'
  BY <1>1, <1>5 DEF DInv, Asked
<1>7. RowOwned'
  BY <1>1, <1>2, <1>3, <1>4, <1>5 DEF DInv, RowOwned, ThreadIs, RowIs
<1>8. Served'
  <2>1. /\ \A l \in Jobs : l # j => db'[l] = db[l]
        /\ db'[j].owner = None \/ (db'[j].status = "running" /\ db'[j].owner = i)
    BY <1>1, <1>2, <1>3 DEF RowIs
  <2>2. \A k \in Instances, v \in Workers : k # i \/ v # w =>
           /\ worker'[k][v].pc = worker[k][v].pc
           /\ worker'[k][v].job = worker[k][v].job
           /\ worker'[k][v].snap = worker[k][v].snap
    BY <1>4 DEF ThreadIs
  <2>3. PICK x \in Jobs : x = j
    BY <1>1
  <2>4. CASE s.status = "running"
    <3>1. Serves(i, w, x)'
      BY <1>4, <2>3, <2>4 DEF Serves, ThreadIs, s
    <3>. QED
      BY <1>1, <1>5, <2>1, <2>2, <2>3, <3>1, ServedByThread DEF DInv, j
  <2>5. CASE s.status # "running"
    <3>1. db'[j].owner = None
      BY <1>1, <1>2, <1>3, <2>5 DEF RowIs
    <3>2. \A k \in Instances, v \in Workers : worker[k][v].job # j =>
             /\ worker'[k][v].pc = worker[k][v].pc
             /\ worker'[k][v].job = worker[k][v].job
             /\ worker'[k][v].snap = worker[k][v].snap
      BY <2>2 DEF j
    <3>. QED
      BY <1>1, <1>5, <2>1, <3>1, <3>2, NoNone DEF DInv, Served, HeldBy, Serves
  <2>. QED
    BY <2>4, <2>5
<1>. QED
  BY <1>6, <1>7, <1>8 DEF DInv

LEMMA SyncRunServes ==
    ASSUME IInv, TInv, Saves, DInv, NEW i \in Instances, NEW w \in Workers, SyncRun(i, w)
    PROVE  DInv'
<1>. DEFINE j == worker[i][w].job
<1>1. /\ worker[i][w].pc = "sync" /\ j \in Jobs
      /\ UNCHANGED <<db, mem, queue, inst, todo, request, applied, claims>>
  BY SyncRunStep
<1>2. \/ worker[i][w].snap.status # "running" /\ ThreadIs(i, w, "idle", None, Blank("absent"))
      \/ ThreadIs(i, w, "work", j, Blank("absent"))
      \/ worker[i][w].snap.status # "running" /\ ThreadIs(i, w, "attach", j, Blank("absent"))
  BY SyncRunStep
<1>3. \A k \in Instances : Queued(k)' = Queued(k)
  BY <1>1 DEF Queued
<1>. HIDE DEF j
<1>4. Asked' /\ RowOwned'
  BY <1>1, <1>3 DEF DInv, Asked, RowOwned
<1>5. Served'
  BY <1>1, <1>2, <1>3, ServedByThread DEF DInv, Serves, ThreadIs, j
<1>. QED
  BY <1>4, <1>5 DEF DInv

LEMMA StartServes ==
    ASSUME IInv, TInv, Saves, DInv, NEW i \in Instances, Start(i)
    PROVE  DInv'
<1>1. /\ inst[i] = "new" /\ UNCHANGED <<db, run, mem, queue, worker, request, applied, claims>>
      /\ \A k \in Instances : inst'[k] = IF k = i THEN "restoring" ELSE inst[k]
  BY StartStep
<1>2. \A k \in Instances : Queued(k)' = Queued(k)
  BY <1>1 DEF Queued
<1>3. Asked' /\ RowOwned'
  BY <1>1, <1>2 DEF DInv, Asked, RowOwned
<1>4. Served'
  BY <1>1, <1>2 DEF DInv, Served, HeldBy, Serves
<1>. QED
  BY <1>3, <1>4 DEF DInv

LEMMA RestoreJobServes ==
    ASSUME MaxFaults = 0, IInv, TInv, Saves, DInv, NEW i \in Instances, NEW e \in todo[i], RestoreJob(i, e)
    PROVE  DInv'
<1>. DEFINE j == e[1]
<1>1. /\ inst[i] = "restoring" /\ j \in Jobs /\ e[2] \in Record
      /\ UNCHANGED <<run, inst, worker, request, applied, claims>>
  BY RestoreJobStep
<1>2. PICK r \in Record, s \in Record :
         /\ MemIs(i, j, r) /\ IsRestored(i, e[2], r) /\ RowIs(j, s) /\ IsStored(i, r, s)
         /\ \A k \in Instances :
               Queued(k)' = IF k = i /\ r.status = "queued" THEN Queued(i) \cup {j} ELSE Queued(k)
  BY RestoreJobStep, NeverFailing
<1>3. /\ s.status = r.status
      /\ \/ r.status = "queued" /\ s.owner = i
         \/ s.owner = None
  BY <1>2 DEF IsRestored, IsStored, Active
<1>4. \A c \in Clients : request[c].at # i
  BY <1>1 DEF TInv, Lives
<1>. HIDE DEF j
<1>5. Asked'
  BY <1>1, <1>2, <1>4 DEF DInv, Asked, MemIs, RowIs
<1>6. RowOwned'
  BY <1>1, <1>2, <1>3 DEF DInv, RowOwned, Active, MemIs, RowIs
<1>7. Served'
  BY <1>1, <1>2, <1>3, <1>4, NoNone DEF DInv, Served, HeldBy, Serves, MemIs, RowIs
<1>. QED
  BY <1>5, <1>6, <1>7 DEF DInv

LEMMA RestoreLostServes ==
    ASSUME IInv, TInv, Saves, DInv, NEW i \in Instances, NEW e \in todo[i], RestoreLost(i, e)
    PROVE  DInv'
<1>1. UNCHANGED <<db, run, mem, queue, inst, worker, request, applied, claims, faults>>
  BY RestoreLostStep
<1>2. \A k \in Instances : Queued(k)' = Queued(k)
  BY <1>1 DEF Queued
<1>3. Asked' /\ RowOwned' /\ Served'
  BY <1>1, <1>2 DEF DInv, Asked, RowOwned, Served, HeldBy, Serves
<1>. QED
  BY <1>3 DEF DInv

LEMMA ServeServes ==
    ASSUME IInv, TInv, Saves, DInv, NEW i \in Instances, Serve(i)
    PROVE  DInv'
<1>1. /\ inst[i] = "restoring"
      /\ \A k \in Instances : inst'[k] = IF k = i THEN "up" ELSE inst[k]
      /\ UNCHANGED <<db, run, mem, queue, todo, worker, request, applied, claims, faults>>
  BY ServeStep
<1>2. \A k \in Instances : Queued(k)' = Queued(k)
  BY <1>1 DEF Queued
<1>3. Asked' /\ RowOwned'
  BY <1>1, <1>2 DEF DInv, Asked, RowOwned
<1>4. Served'
  BY <1>1, <1>2 DEF DInv, Served, HeldBy, Serves
<1>. QED
  BY <1>3, <1>4 DEF DInv

LEMMA CrashServes ==
    ASSUME IInv, TInv, Saves, DInv, NEW i \in Instances, Crash(i)
    PROVE  DInv'
<1>1. DeadIs(i) /\ UNCHANGED <<db, run, applied, claims, faults>>
  BY CrashStep
<1>2. RowOwned'
  BY <1>1 DEF DInv, RowOwned
<1>3. Asked'
  BY <1>1 DEF DInv, Asked, DeadIs
<1>4. Served'
  BY <1>1 DEF DInv, Served, HeldBy, Serves, DeadIs
<1>. QED
  BY <1>2, <1>3, <1>4 DEF DInv

LEMMA CrashInRestoreServes ==
    ASSUME IInv, TInv, Saves, DInv, NEW i \in Instances, NEW e \in todo[i], CrashInRestore(i, e)
    PROVE  DInv'
<1>. DEFINE j == e[1]
<1>1. DeadIs(i) /\ j \in Jobs
  BY CrashInRestoreStep
<1>2. PICK s \in Record : RowIs(j, s) /\ Fields(s, "queued", db[j].cancel, db[j].retry, i, TRUE)
  BY CrashInRestoreStep
<1>. HIDE DEF j
<1>3. Asked'
  BY <1>1, <1>2 DEF DInv, Asked, DeadIs, RowIs
<1>4. RowOwned'
  BY <1>1, <1>2 DEF DInv, RowOwned, Active, DeadIs, RowIs, Fields
<1>5. Served'
  BY <1>1, <1>2 DEF DInv, Served, HeldBy, Serves, DeadIs, RowIs, Fields
<1>. QED
  BY <1>3, <1>4, <1>5 DEF DInv

LEMMA LeaseExpiresServes ==
    ASSUME IInv, TInv, Saves, DInv, NEW j \in Jobs, LeaseExpires(j)
    PROVE  DInv'
<1>1. UNCHANGED <<run, queue, inst, todo, worker, request, applied, claims, faults>>
  BY LeaseExpiresStep
<1>2. /\ \A l \in Jobs : /\ db'[l].status = db[l].status /\ db'[l].cancel = db[l].cancel
                         /\ db'[l].owner = db[l].owner /\ (db'[l].fresh => db[l].fresh)
      /\ \A k \in Instances, l \in Jobs : mem'[k][l].cancel = mem[k][l].cancel
  BY LeaseExpiresStep DEF Fields
<1>3. \A k \in Instances : Queued(k)' = Queued(k)
  BY <1>1 DEF Queued
<1>4. Asked'
  BY <1>1, <1>2, <1>3 DEF DInv, Asked
<1>5. RowOwned'
  BY <1>1, <1>2, <1>3 DEF DInv, RowOwned
<1>6. Served'
  BY <1>1, <1>2, <1>3 DEF DInv, Served, HeldBy, Serves
<1>. QED
  BY <1>4, <1>5, <1>6 DEF DInv

LEMMA SupersedeServes ==
    ASSUME IInv, TInv, Saves, DInv, NEW r \in Runs, Supersede(r)
    PROVE  DInv'
<1>1. UNCHANGED <<mem, queue, inst, todo, worker, request, applied, claims, faults>>
  BY SupersedeStep
<1>2. \A l \in Jobs : /\ db'[l].status = db[l].status /\ db'[l].owner = db[l].owner
                      /\ db'[l].fresh = db[l].fresh /\ (db[l].cancel => db'[l].cancel)
  <2>. SUFFICES ASSUME NEW l \in Jobs
                PROVE  /\ db'[l].status = db[l].status /\ db'[l].owner = db[l].owner
                       /\ db'[l].fresh = db[l].fresh /\ (db[l].cancel => db'[l].cancel)
    OBVIOUS
  <2>1. PICK ca \in {db[l].cancel, TRUE} :
           /\ Fields(db'[l], db[l].status, ca, db[l].retry, db[l].owner, db[l].fresh)
           /\ db'[l].artifact = db[l].artifact
    BY SupersedeStep
  <2>. QED
    BY <2>1 DEF Fields
<1>3. \A k \in Instances : Queued(k)' = Queued(k)
  BY <1>1 DEF Queued
<1>4. Asked'
  BY <1>1, <1>3 DEF DInv, Asked
<1>5. RowOwned'
  BY <1>1, <1>2, <1>3 DEF DInv, RowOwned
<1>6. Served'
  BY <1>1, <1>2, <1>3 DEF DInv, Served, HeldBy, Serves
<1>. QED
  BY <1>4, <1>5, <1>6 DEF DInv

LEMMA DInit == Init => DInv
<1>. SUFFICES ASSUME Init PROVE DInv
  OBVIOUS
<1>1. \A j \in Jobs : db[j].owner = None
  BY DEF Init, Blank
<1>2. \A c \in Clients : request[c].pc = "idle"
  BY IdleFields DEF Init
<1>. QED
  BY <1>1, <1>2, NoNone DEF DInv, Asked, RowOwned, Served, HeldBy

LEMMA DStutters == DInv /\ UNCHANGED <<db, mem, queue, inst, worker, request>> => DInv'
<1>. SUFFICES ASSUME DInv, UNCHANGED <<db, mem, queue, inst, worker, request>>
              PROVE  DInv'
  OBVIOUS
<1>1. \A k \in Instances : Queued(k)' = Queued(k)
  BY DEF Queued
<1>. QED
  BY <1>1 DEF DInv, Asked, RowOwned, Served, HeldBy, Serves

LEMMA DWorker ==
    ASSUME MaxFaults = 0, IInv, TInv, Saves, DInv, NEW i \in Instances, NEW w \in Workers,
           WorkerStep(i, w)
    PROVE  DInv'
<1>1. CASE Report(i, w)
  BY <1>1, ReportStep, SnapshotServes
<1>2. CASE Stop(i, w)
  BY <1>2, StopStep, SnapshotServes
<1>3. CASE Fail(i, w)
  <2>1. worker[i][w].pc # "taken"
    BY <1>3, FailStep, NeverFailing
  <2>. QED
    BY <1>3, <2>1, FailStep, SnapshotServes
<1>4. CASE Complete(i, w)
  BY <1>4, CompleteStep, SnapshotServes
<1>5. CASE Attach(i, w)
  BY <1>5, AttachStep, SnapshotServes
<1>. QED
  BY <1>1, <1>2, <1>3, <1>4, <1>5, TakeServes, ClaimServes, ClaimLostServes, ClaimRecordServes,
     CheckPassesServes, ApplyServes, PersistRecordServes, SyncRunServes DEF WorkerStep

LEMMA DStep ==
    ASSUME MaxFaults = 0, IInv, TInv, Saves, DInv, [Next]_vars
    PROVE  DInv'
<1>1. ASSUME NEW c \in Clients, ClientStep(c) PROVE DInv'
  <2>1. ~Failing
    BY NeverFailing
  <2>2. \A i \in Instances, j \in Jobs : ~SubmitUnsaved(c, i, j)
    BY <2>1 DEF SubmitUnsaved, Fault, Failing
  <2>3. ~AttachFails(c)
    BY <2>1 DEF AttachFails, Fault, Failing
  <2>. QED
    BY <1>1, <2>2, <2>3, SubmitServes, CancelServes, CancelTerminalServes, AttachRunServes,
       EnqueueServes, SnapCancelServes, PersistCancelServes DEF ClientStep
<1>2. ASSUME NEW i \in Instances, NEW j \in Jobs, GetJob(i, j) \/ ReuseRow(i, j) PROVE DInv'
  BY <1>2, ReadRowServes
<1>3. ASSUME NEW i \in Instances, NEW w \in Workers, WorkerStep(i, w) PROVE DInv'
  BY <1>3, DWorker
<1>4. ASSUME NEW i \in Instances, Start(i) \/ RestoreStep(i) \/ Crash(i) PROVE DInv'
  BY <1>4, StartServes, RestoreJobServes, RestoreLostServes, ServeServes, CrashServes
     DEF RestoreStep
<1>5. ASSUME NEW i \in Instances, NEW e \in todo[i], CrashInRestore(i, e) PROVE DInv'
  BY <1>5, CrashInRestoreServes
<1>6. ASSUME NEW j \in Jobs, LeaseExpires(j) PROVE DInv'
  BY <1>6, LeaseExpiresServes
<1>7. ASSUME NEW r \in Runs, Supersede(r) PROVE DInv'
  BY <1>7, SupersedeServes
<1>8. CASE Next
  BY <1>1, <1>2, <1>3, <1>4, <1>5, <1>6, <1>7, <1>8 DEF Next
<1>9. CASE UNCHANGED vars
  BY <1>9, DStutters DEF vars
<1>. QED
  BY <1>8, <1>9

(* Unless the database fails, a living instance that holds the lease of a  *)
(* job works on it, with any number of instances, crashes and clients: a   *)
(* job nobody asked to cancel is never locked away by a process that       *)
(* forgot it.                                                              *)
THEOREM HeldJobsAreServed ==
    ASSUME MaxFaults = 0
    PROVE  Spec => []LeaseIsServed
<1>1. Init => IInv /\ TInv /\ Saves /\ DInv
  BY InitHolds, TInit, SavesStarts, DInit
<1>2. (IInv /\ TInv /\ Saves /\ DInv) /\ [Next]_vars => (IInv /\ TInv /\ Saves /\ DInv)'
  BY StepKeeps, TStep, SavesStep, DStep
<1>3. IInv /\ DInv => LeaseIsServed
  <2>. SUFFICES ASSUME IInv, DInv, NEW i \in Instances, NEW j \in Jobs, inst[i] = "up",
                       db[j].owner = i, db[j].fresh, ~db[j].cancel, ~Repeatable(j)
                PROVE  Handles(i, j)
    BY DEF LeaseIsServed
  <2>1. db[j].status \in {"queued", "running"}
    BY NoNone DEF DInv, RowOwned, Active
  <2>2. j \in Queued(i) \/ \E w \in Workers : worker[i][w].job = j
    BY <2>1 DEF DInv, Served, HeldBy, Serves
  <2>. QED
    BY <2>2 DEF Handles, Queued
<1>. QED
  BY <1>1, <1>2, <1>3, PTL DEF Spec

=============================================================================
