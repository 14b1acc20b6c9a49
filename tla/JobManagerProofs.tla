-------------------------- MODULE JobManagerProofs --------------------------
(***************************************************************************)
(* Proofs about JobManager, for every number of processes, threads, jobs,  *)
(* retries, failures and deaths.                                           *)
(*                                                                         *)
(* CompletedIsPublished is inductive together with the types (Typed) and   *)
(* with what a thread knows between the publication of a result and the    *)
(* update that says so (Published): no action writes "completed" from      *)
(* nothing but Complete, every other one copies a record, a row or a       *)
(* snapshot that exists already.                                           *)
(***************************************************************************)
EXTENDS JobManager, TLAPS

Threads  == [Instances -> [Workers -> Thread]]
Memories == [Instances -> [Jobs -> Record]]

(* A thread that is not idle has a job, a busy request also an instance,   *)
(* and a snapshot that a generation run will follow has a status of runs.  *)
BusyThread ==
    \A i \in Instances, w \in Workers :
        worker[i][w].pc # "idle" => worker[i][w].job \in Jobs
BusyRequest ==
    \A c \in Clients :
        request[c].pc # "idle" => request[c].job \in Jobs /\ request[c].at \in Instances
Snapped ==
    \A i \in Instances, w \in Workers :
        worker[i][w].pc \in {"persist", "sync"} => worker[i][w].snap.status \in RunStatus
Busy == BusyThread /\ BusyRequest /\ Snapped

Typed == TypeOK /\ Busy

(* CompletedIsPublished copy by copy, and the thread that is about to say  *)
(* that its job completed.                                                 *)
PubRow == \A j \in Jobs : db[j].status = "completed" => applied[j] > 0
PubRecord ==
    \A i \in Instances, j \in Jobs : mem[i][j].status = "completed" => applied[j] > 0
PubSnap ==
    \A i \in Instances, w \in Workers :
        worker[i][w].job \in Jobs /\ worker[i][w].snap.status = "completed" =>
            applied[worker[i][w].job] > 0
PubThread ==
    \A i \in Instances, w \in Workers :
        worker[i][w].pc \in {"applied", "rechecked"} => applied[worker[i][w].job] > 0
PubRequest ==
    \A c \in Clients :
        request[c].job \in Jobs /\ request[c].snap.status = "completed" =>
            applied[request[c].job] > 0
PubTodo == \A i \in Instances : \A e \in todo[i] : e[2].status # "completed"

Published == PubRow /\ PubRecord /\ PubSnap /\ PubThread /\ PubRequest /\ PubTodo

IInv == Typed /\ Published

-----------------------------------------------------------------------------
(* The helpers return records.                                             *)

LEMMA BlankType ==
    ASSUME NEW s \in Status PROVE Blank(s) \in Record
BY JobManagerAssumption DEF Blank, Record

LEMMA RecordFields ==
    ASSUME NEW r \in Record, NEW i \in Instances, NEW b \in BOOLEAN
    PROVE  /\ \A s \in Status : [r EXCEPT !.status = s] \in Record
           /\ [r EXCEPT !.cancel = TRUE] \in Record
           /\ [r EXCEPT !.artifact = TRUE] \in Record
           /\ [r EXCEPT !.fresh = FALSE] \in Record
           /\ [r EXCEPT !.status = "cancelled", !.cancel = TRUE] \in Record
           /\ [r EXCEPT !.status = "running", !.owner = i, !.fresh = TRUE] \in Record
           /\ [r EXCEPT !.status = "queued", !.owner = i, !.fresh = TRUE] \in Record
           /\ [r EXCEPT !.status = "completed", !.path = TRUE, !.artifact = b] \in Record
BY DEF Record, Status, Active, Terminal

LEMMA StoredType ==
    ASSUME NEW i \in Instances, NEW s \in Record PROVE Stored(i, s) \in Record
<1>1. (CASE s.status = "running" -> (IF s.owner = None THEN i ELSE s.owner)
         [] s.status = "queued" -> s.owner
         [] OTHER -> None) \in Instances \cup {None}
  BY DEF Record
<1>2. (CASE s.status = "running" -> s.owner \in {None, i} \/ s.fresh
         [] s.status = "queued" -> s.fresh
         [] OTHER -> FALSE) \in BOOLEAN
  BY DEF Record
<1>. QED
  BY <1>1, <1>2 DEF Stored, Record

LEMMA StoredStatus ==
    ASSUME NEW i \in Instances, NEW s \in Record PROVE Stored(i, s).status = s.status
BY DEF Stored, Record

LEMMA RestoredType ==
    ASSUME NEW i \in Instances, NEW row \in Record
    PROVE  /\ RestoredRecord(i, row) \in Record
           /\ RestoredRecord(i, row).status \in {"cancelled", "failed", "queued"}
<1>. DEFINE retry == row.retry + (IF row.status = "running" THEN 1 ELSE 0)
<1>1. retry \in Nat
  BY DEF Record
<1>. DEFINE st == CASE row.cancel -> "cancelled"
                    [] ~row.cancel /\ retry > MaxRetries -> "failed"
                    [] OTHER -> "queued"
<1>2. st \in {"cancelled", "failed", "queued"}
  OBVIOUS
<1>3. RestoredRecord(i, row) = [row EXCEPT !.status = st, !.retry = retry, !.owner = i,
                                           !.fresh = TRUE, !.path = FALSE]
  BY DEF RestoredRecord
<1>. HIDE DEF retry, st
<1>. QED
  BY <1>1, <1>2, <1>3 DEF Record, Status, Terminal, Active

LEMMA KnownType ==
    ASSUME Typed, NEW i \in Instances, NEW j \in Jobs
    PROVE  KnownRecord(i, j) \in Record
BY DEF Typed, TypeOK, KnownRecord

LEMMA PersistFacts ==
    ASSUME db \in [Jobs -> Record], faults \in Nat,
           NEW i \in Instances, NEW j \in Jobs, NEW s \in Record, Persist(i, j, s)
    PROVE  /\ db' \in [Jobs -> Record] /\ faults' \in Nat
           /\ \A k \in Jobs : \/ db'[k] = db[k]
                              \/ k = j /\ db'[k].status = s.status
<1>1. Stored(i, s) \in Record /\ Stored(i, s).status = s.status
  BY StoredType, StoredStatus
<1>2. CASE db' = [db EXCEPT ![j] = Stored(i, s)] /\ UNCHANGED faults
  BY <1>1, <1>2
<1>3. CASE Fault /\ UNCHANGED db
  BY <1>3 DEF Fault
<1>. QED
  BY <1>2, <1>3 DEF Persist

LEMMA IdleTypes == IdleThread \in Thread /\ IdleRequest \in Request
<1>1. Blank("absent") \in Record
  BY BlankType DEF Status
<1>. QED
  BY <1>1 DEF IdleThread, IdleRequest, Thread, Request, WorkerPC, RequestPC

-----------------------------------------------------------------------------
(* What the changes of threads do to the types and to the copies of jobs.  *)

LEMMA NestedUpdate ==
    ASSUME NEW A, NEW B, NEW C, NEW f \in [A -> [B -> C]], NEW a \in A, NEW b \in B, NEW c \in C
    PROVE  /\ [f EXCEPT ![a][b] = c] \in [A -> [B -> C]]
           /\ \A x \in A, y \in B :
                 [f EXCEPT ![a][b] = c][x][y] = IF x = a /\ y = b THEN c ELSE f[x][y]
OBVIOUS

LEMMA MoveFacts ==
    ASSUME worker \in Threads, NEW i \in Instances, NEW w \in Workers,
           NEW pc \in WorkerPC, Move(i, w, pc)
    PROVE  /\ worker' \in Threads
           /\ \A k \in Instances, v \in Workers :
                 /\ worker'[k][v].job = worker[k][v].job
                 /\ worker'[k][v].snap = worker[k][v].snap
                 /\ worker'[k][v].pc = IF k = i /\ v = w THEN pc ELSE worker[k][v].pc
<1>0. PICK u \in Thread : u = worker[i][w]
  BY DEF Threads
<1>. DEFINE t == [u EXCEPT !.pc = pc]
<1>1. t \in Thread /\ t.pc = pc /\ t.job = worker[i][w].job /\ t.snap = worker[i][w].snap
  BY <1>0 DEF Thread
<1>2. worker' = [worker EXCEPT ![i][w] = t]
  BY <1>0 DEF Move
<1>. HIDE DEF t
<1>3. worker' \in Threads
  BY <1>1, <1>2, NestedUpdate DEF Threads
<1>4. \A k \in Instances, v \in Workers :
        worker'[k][v] = IF k = i /\ v = w THEN t ELSE worker[k][v]
  BY <1>1, <1>2, NestedUpdate DEF Threads
<1>5. ASSUME NEW k \in Instances, NEW v \in Workers
      PROVE  /\ worker'[k][v].job = worker[k][v].job
             /\ worker'[k][v].snap = worker[k][v].snap
             /\ worker'[k][v].pc = IF k = i /\ v = w THEN pc ELSE worker[k][v].pc
  <2>1. CASE k = i /\ v = w
    BY <1>1, <1>4, <2>1
  <2>2. CASE ~(k = i /\ v = w)
    BY <1>4, <2>2
  <2>. QED BY <2>1, <2>2
<1>. QED
  BY <1>3, <1>5

(* The check before a report passes: one report less is left. *)
Reports(i, w) ==
    /\ worker[i][w].left > 0
    /\ worker' = [worker EXCEPT ![i][w].pc = "entered", ![i][w].left = @ - 1]

LEMMA ReportsFacts ==
    ASSUME worker \in Threads, NEW i \in Instances, NEW w \in Workers, Reports(i, w)
    PROVE  /\ worker' \in Threads
           /\ \A k \in Instances, v \in Workers :
                 /\ worker'[k][v].job = worker[k][v].job
                 /\ worker'[k][v].snap = worker[k][v].snap
                 /\ worker'[k][v].pc = IF k = i /\ v = w THEN "entered" ELSE worker[k][v].pc
<1>0. PICK u \in Thread : u = worker[i][w]
  BY DEF Threads
<1>. DEFINE t == [u EXCEPT !.pc = "entered", !.left = u.left - 1]
<1>1. t \in Thread /\ t.pc = "entered" /\ t.job = worker[i][w].job /\ t.snap = worker[i][w].snap
  <2>1. u.left \in Nat /\ u.left > 0 /\ "entered" \in WorkerPC
    BY <1>0 DEF Thread, Reports, WorkerPC
  <2>2. u.left - 1 \in Nat
    BY <2>1
  <2>. HIDE DEF WorkerPC
  <2>. QED
    BY <1>0, <2>1, <2>2 DEF Thread
<1>2. worker' = [worker EXCEPT ![i][w] = t]
  BY <1>0 DEF Reports, Threads
<1>. HIDE DEF t
<1>3. worker' \in Threads
  BY <1>1, <1>2, NestedUpdate DEF Threads
<1>4. \A k \in Instances, v \in Workers :
        worker'[k][v] = IF k = i /\ v = w THEN t ELSE worker[k][v]
  BY <1>1, <1>2, NestedUpdate DEF Threads
<1>5. ASSUME NEW k \in Instances, NEW v \in Workers
      PROVE  /\ worker'[k][v].job = worker[k][v].job
             /\ worker'[k][v].snap = worker[k][v].snap
             /\ worker'[k][v].pc = IF k = i /\ v = w THEN "entered" ELSE worker[k][v].pc
  <2>1. CASE k = i /\ v = w
    BY <1>1, <1>4, <2>1
  <2>2. CASE ~(k = i /\ v = w)
    BY <1>4, <2>2
  <2>. QED BY <2>1, <2>2
<1>. QED
  BY <1>3, <1>5

LEMMA ResumeFacts ==
    ASSUME worker \in Threads, NEW i \in Instances, NEW w \in Workers,
           NEW pc \in WorkerPC, Resume(i, w, pc)
    PROVE  /\ worker' \in Threads
           /\ \A k \in Instances, v \in Workers :
                 /\ worker'[k][v].job = worker[k][v].job
                 /\ worker'[k][v].snap = IF k = i /\ v = w THEN Blank("absent")
                                          ELSE worker[k][v].snap
                 /\ worker'[k][v].pc = IF k = i /\ v = w THEN pc ELSE worker[k][v].pc
<1>u. PICK u \in Thread : u = worker[i][w]
  BY DEF Threads
<1>. DEFINE b == Blank("absent")
            t == [u EXCEPT !.pc = pc, !.snap = b]
<1>0. b \in Record
  BY BlankType DEF Status
<1>1. t \in Thread /\ t.pc = pc /\ t.job = worker[i][w].job /\ t.snap = b
  <2>. HIDE DEF b
  <2>. QED BY <1>0, <1>u DEF Thread
<1>2. worker' = [worker EXCEPT ![i][w] = t]
  <2>. HIDE DEF b
  <2>. QED BY <1>u DEF Resume, b
<1>. HIDE DEF t, b
<1>3. worker' \in Threads
  BY <1>1, <1>2, NestedUpdate DEF Threads
<1>4. \A k \in Instances, v \in Workers :
        worker'[k][v] = IF k = i /\ v = w THEN t ELSE worker[k][v]
  BY <1>1, <1>2, NestedUpdate DEF Threads
<1>. QED
  BY <1>1, <1>3, <1>4 DEF b

LEMMA UpdateFacts ==
    ASSUME worker \in Threads, mem \in Memories,
           NEW i \in Instances, NEW w \in Workers, NEW rec \in Record,
           NEW pc \in WorkerPC, NEW left \in Nat,
           worker[i][w].job \in Jobs, Update(i, w, rec, pc, left)
    PROVE  /\ mem' \in Memories /\ worker' \in Threads
           /\ \A k \in Instances, j \in Jobs :
                 mem'[k][j] = IF k = i /\ j = worker[i][w].job THEN rec ELSE mem[k][j]
           /\ \A k \in Instances, v \in Workers :
                 /\ worker'[k][v].job = worker[k][v].job
                 /\ worker'[k][v].snap = IF k = i /\ v = w THEN rec ELSE worker[k][v].snap
                 /\ worker'[k][v].pc = IF k = i /\ v = w THEN pc ELSE worker[k][v].pc
<1>. DEFINE jj == worker[i][w].job
            t == [pc |-> pc, job |-> jj, snap |-> rec, left |-> left]
<1>1. t \in Thread /\ t.pc = pc /\ t.job = jj /\ t.snap = rec
  BY DEF Thread
<1>2. worker' = [worker EXCEPT ![i][w] = t] /\ mem' = [mem EXCEPT ![i][jj] = rec]
  BY DEF Update
<1>. HIDE DEF t, jj
<1>3. worker' \in Threads /\ mem' \in Memories
  BY <1>1, <1>2, NestedUpdate DEF Threads, Memories, jj
<1>4. \A k \in Instances, v \in Workers :
        worker'[k][v] = IF k = i /\ v = w THEN t ELSE worker[k][v]
  BY <1>1, <1>2, NestedUpdate DEF Threads
<1>5. \A k \in Instances, j \in Jobs : mem'[k][j] = IF k = i /\ j = jj THEN rec ELSE mem[k][j]
  BY <1>2, NestedUpdate DEF Memories, jj
<1>. QED
  BY <1>1, <1>3, <1>4, <1>5 DEF jj

LEMMA MemoryFacts ==
    ASSUME mem \in Memories, NEW i \in Instances, NEW j \in Jobs, NEW r \in Record,
           mem' = [mem EXCEPT ![i][j] = r]
    PROVE  /\ mem' \in Memories
           /\ \A k \in Instances, l \in Jobs :
                 mem'[k][l] = IF k = i /\ l = j THEN r ELSE mem[k][l]
BY NestedUpdate DEF Memories

LEMMA RestFacts ==
    ASSUME worker \in Threads, NEW i \in Instances, NEW w \in Workers, Rest(i, w)
    PROVE  /\ worker' \in Threads
           /\ \A k \in Instances, v \in Workers :
                 worker'[k][v] = IF k = i /\ v = w THEN IdleThread ELSE worker[k][v]
BY IdleTypes, NestedUpdate DEF Rest, Threads

-----------------------------------------------------------------------------
(* Requests.                                                               *)

LEMMA SubmissionFacts ==
    ASSUME run \in [Runs -> Run], NEW r, SubmissionFailed(r)
    PROVE  run' \in [Runs -> Run]
BY DEF SubmissionFailed, Run, RunStatus

LEMMA ClientKeeps ==
    ASSUME IInv, NEW c \in Clients, ClientStep(c)
    PROVE  IInv'
<1>0. /\ db \in [Jobs -> Record] /\ run \in [Runs -> Run] /\ mem \in Memories
      /\ request \in [Clients -> Request] /\ faults \in Nat
  BY DEF IInv, Typed, TypeOK, Memories
<1>1. ASSUME NEW i \in Instances, NEW j \in Jobs, Submit(c, i, j) PROVE IInv'
  <2>. DEFINE q == Blank("queued")
  <2>1. q \in Record /\ q.status = "queued"
    BY BlankType DEF Status, Active, Blank
  <2>2. mem' = [mem EXCEPT ![i][j] = q] /\ db' = [db EXCEPT ![j] = Stored(i, q)]
    BY <1>1 DEF Submit
  <2>. HIDE DEF q
  <2>3. db' \in [Jobs -> Record]
        /\ \A k \in Jobs : db'[k].status = IF k = j THEN "queued" ELSE db[k].status
    BY <1>0, <2>1, <2>2, StoredType, StoredStatus
  <2>4. mem' \in Memories
        /\ \A l \in Instances, k \in Jobs : mem'[l][k] = IF l = i /\ k = j THEN q ELSE mem[l][k]
    BY <1>0, <2>1, <2>2, NestedUpdate DEF Memories
  <2>. DEFINE pc == IF Kind[j] = "project_run" THEN "accepted" ELSE "attached"
              u == [IdleRequest EXCEPT !.pc = pc, !.at = i, !.job = j]
  <2>5. u \in Request /\ u.job = j /\ u.at = i /\ u.snap.status = "absent"
    BY IdleTypes DEF Request, RequestPC, IdleRequest, Blank
  <2>6. request' = [request EXCEPT ![c] = u]
    BY <1>1 DEF Submit
  <2>. HIDE DEF u
  <2>t. TypeOK'
    BY <1>0, <1>1, <2>1, <2>3, <2>4, <2>5, <2>6 DEF Submit, IInv, Typed, TypeOK, Memories
  <2>b. Busy'
    BY <1>0, <1>1, <2>1, <2>3, <2>4, <2>5, <2>6 DEF Submit, IInv, Typed, TypeOK, Busy, BusyThread, BusyRequest, Snapped
  <2>p1. PubRow' /\ PubTodo'
    BY <1>0, <1>1, <2>1, <2>3, <2>4, <2>5, <2>6 DEF Submit, IInv, Published, PubRow, PubTodo, Memories
  <2>p2. PubRecord'
    BY <1>0, <1>1, <2>1, <2>3, <2>4, <2>5, <2>6 DEF Submit, IInv, Published, PubRecord, Memories
  <2>p3. PubSnap' /\ PubThread'
    BY <1>1 DEF Submit, IInv, Published, PubSnap, PubThread
  <2>p4. PubRequest'
    BY <1>0, <1>1, <2>1, <2>3, <2>4, <2>5, <2>6 DEF Submit, IInv, Published, PubRequest
  <2>. QED
    BY <2>t, <2>b, <2>p1, <2>p2, <2>p3, <2>p4 DEF IInv, Typed, Published
<1>2. ASSUME NEW i \in Instances, NEW j \in Jobs, SubmitUnsaved(c, i, j) PROVE IInv'
  <2>1. run' \in [Runs -> Run] /\ faults' \in Nat
    BY <1>0, <1>2 DEF SubmitUnsaved, SubmissionFailed, Fault, Run, RunStatus
  <2>t. TypeOK'
    BY <1>2, <2>1 DEF SubmitUnsaved, IInv, Typed, TypeOK
  <2>b. Busy'
    BY <1>2, <2>1 DEF SubmitUnsaved, IInv, Typed, TypeOK, Busy, BusyThread, BusyRequest, Snapped
  <2>p1. PubRow' /\ PubTodo'
    BY <1>2, <2>1 DEF SubmitUnsaved, IInv, Published, PubRow, PubTodo
  <2>p2. PubRecord'
    BY <1>2, <2>1 DEF SubmitUnsaved, IInv, Published, PubRecord
  <2>p3. PubSnap' /\ PubThread'
    BY <1>2 DEF SubmitUnsaved, IInv, Published, PubSnap, PubThread
  <2>p4. PubRequest'
    BY <1>2, <2>1 DEF SubmitUnsaved, IInv, Published, PubRequest
  <2>. QED
    BY <2>t, <2>b, <2>p1, <2>p2, <2>p3, <2>p4 DEF IInv, Typed, Published
<1>3. ASSUME NEW i \in Instances, NEW j \in Jobs, Cancel(c, i, j) PROVE IInv'
  <2>0. PICK r \in Record : r = KnownRecord(i, j)
    BY <1>0 DEF KnownRecord, Memories
  <2>. DEFINE q == [r EXCEPT !.cancel = TRUE]
  <2>1. q \in Record /\ q.status \in Active
    BY <1>3, <2>0 DEF Cancel, Record
  <2>2. mem' = [mem EXCEPT ![i][j] = q]
    BY <1>3, <2>0 DEF Cancel
  <2>. HIDE DEF q
  <2>3. mem' \in Memories
        /\ \A l \in Instances, k \in Jobs : mem'[l][k] = IF l = i /\ k = j THEN q ELSE mem[l][k]
    BY <1>0, <2>1, <2>2, NestedUpdate DEF Memories
  <2>. DEFINE u == [IdleRequest EXCEPT !.pc = "flagged", !.at = i, !.job = j]
  <2>4. u \in Request /\ u.job = j /\ u.at = i /\ u.snap.status = "absent"
    BY IdleTypes DEF Request, RequestPC, IdleRequest, Blank
  <2>5. request' = [request EXCEPT ![c] = u]
    BY <1>3 DEF Cancel
  <2>. HIDE DEF u
  <2>t. TypeOK'
    BY <1>0, <1>3, <2>1, <2>3, <2>4, <2>5 DEF Cancel, IInv, Typed, TypeOK, Memories, Active
  <2>b. Busy'
    BY <1>0, <1>3, <2>1, <2>3, <2>4, <2>5 DEF Cancel, IInv, Typed, TypeOK, Busy, BusyThread, BusyRequest, Snapped
  <2>p1. PubRow' /\ PubTodo'
    BY <1>0, <1>3, <2>1, <2>3, <2>4, <2>5 DEF Cancel, IInv, Published, PubRow, PubTodo, Memories, Active
  <2>p2. PubRecord'
    BY <1>0, <1>3, <2>1, <2>3, <2>4, <2>5 DEF Cancel, IInv, Published, PubRecord, Memories, Active
  <2>p3. PubSnap' /\ PubThread'
    BY <1>3 DEF Cancel, IInv, Published, PubSnap, PubThread
  <2>p4. PubRequest'
    BY <1>0, <1>3, <2>1, <2>3, <2>4, <2>5 DEF Cancel, IInv, Published, PubRequest
  <2>. QED
    BY <2>t, <2>b, <2>p1, <2>p2, <2>p3, <2>p4 DEF IInv, Typed, Published
<1>4. ASSUME NEW i \in Instances, NEW j \in Jobs, CancelTerminal(c, i, j) PROVE IInv'
  <2>. DEFINE q == KnownRecord(i, j)
  <2>1. q \in Record /\ (q.status = "completed" => applied[j] > 0)
    BY <1>0 DEF KnownRecord, Memories, IInv, Published, PubRow, PubRecord
  <2>2. mem' = [mem EXCEPT ![i][j] = q]
    BY <1>4 DEF CancelTerminal
  <2>. HIDE DEF q
  <2>3. mem' \in Memories
        /\ \A l \in Instances, k \in Jobs : mem'[l][k] = IF l = i /\ k = j THEN q ELSE mem[l][k]
    BY <1>0, <2>1, <2>2, NestedUpdate DEF Memories
  <2>. DEFINE u == [IdleRequest EXCEPT !.pc = "blocked", !.at = i, !.job = j]
  <2>4. u \in Request /\ u.job = j /\ u.at = i /\ u.snap.status = "absent"
    BY IdleTypes DEF Request, RequestPC, IdleRequest, Blank
  <2>5. request' = [request EXCEPT ![c] = u]
    BY <1>4 DEF CancelTerminal
  <2>. HIDE DEF u
  <2>t. TypeOK'
    BY <1>0, <1>4, <2>1, <2>3, <2>4, <2>5 DEF CancelTerminal, IInv, Typed, TypeOK, Memories
  <2>b. Busy'
    BY <1>0, <1>4, <2>1, <2>3, <2>4, <2>5 DEF CancelTerminal, IInv, Typed, TypeOK, Busy, BusyThread, BusyRequest, Snapped
  <2>p1. PubRow' /\ PubTodo'
    BY <1>0, <1>4, <2>1, <2>3, <2>4, <2>5 DEF CancelTerminal, IInv, Published, PubRow, PubTodo, Memories
  <2>p2. PubRecord'
    BY <1>0, <1>4, <2>1, <2>3, <2>4, <2>5 DEF CancelTerminal, IInv, Published, PubRecord, Memories
  <2>p3. PubSnap' /\ PubThread'
    BY <1>4 DEF CancelTerminal, IInv, Published, PubSnap, PubThread
  <2>p4. PubRequest'
    BY <1>0, <1>4, <2>1, <2>3, <2>4, <2>5 DEF CancelTerminal, IInv, Published, PubRequest
  <2>. QED
    BY <2>t, <2>b, <2>p1, <2>p2, <2>p3, <2>p4 DEF IInv, Typed, Published
<1>5. CASE AttachRun(c)
  <2>1. PICK u \in Request : u = request[c]
    BY <1>0
  <2>2. u.job \in Jobs /\ u.at \in Instances
    BY <1>5, <2>1 DEF AttachRun, IInv, Typed, Busy, BusyThread, BusyRequest, Snapped
  <2>3. run' \in [Runs -> Run]
    BY <1>0, <1>5, <2>1, <2>2 DEF AttachRun, Run, RunStatus
  <2>. DEFINE v == [u EXCEPT !.pc = "attached"]
  <2>4. v \in Request /\ v.job = u.job /\ v.at = u.at /\ v.snap = u.snap
    BY DEF Request, RequestPC
  <2>5. request' = [request EXCEPT ![c] = v]
    BY <1>5, <2>1 DEF AttachRun
  <2>. HIDE DEF v
  <2>t. TypeOK'
    BY <1>0, <1>5, <2>1, <2>2, <2>3, <2>4, <2>5 DEF AttachRun, IInv, Typed, TypeOK
  <2>b. Busy'
    BY <1>0, <1>5, <2>1, <2>2, <2>3, <2>4, <2>5 DEF AttachRun, IInv, Typed, TypeOK, Busy, BusyThread, BusyRequest, Snapped
  <2>p1. PubRow' /\ PubTodo'
    BY <1>0, <1>5, <2>1, <2>2, <2>3, <2>4, <2>5 DEF AttachRun, IInv, Published, PubRow, PubTodo
  <2>p2. PubRecord'
    BY <1>0, <1>5, <2>1, <2>2, <2>3, <2>4, <2>5 DEF AttachRun, IInv, Published, PubRecord
  <2>p3. PubSnap' /\ PubThread'
    BY <1>5 DEF AttachRun, IInv, Published, PubSnap, PubThread
  <2>p4. PubRequest'
    BY <1>0, <1>5, <2>1, <2>2, <2>3, <2>4, <2>5 DEF AttachRun, IInv, Published, PubRequest
  <2>. QED
    BY <2>t, <2>b, <2>p1, <2>p2, <2>p3, <2>p4 DEF IInv, Typed, Published
<1>6. CASE AttachFails(c)
  <2>. DEFINE i == request[c].at
              j == request[c].job
  <2>1. i \in Instances /\ j \in Jobs
    BY <1>6 DEF AttachFails, IInv, Typed, Busy, BusyThread, BusyRequest, Snapped
  <2>2. PICK r \in Record : r = mem[i][j]
    BY <1>0, <2>1 DEF Memories
  <2>. DEFINE q == [r EXCEPT !.status = "failed"]
  <2>3. q \in Record /\ q.status = "failed"
    BY DEF Record, Status, Terminal
  <2>4. mem' = [mem EXCEPT ![i][j] = q]
    BY <1>6, <2>2 DEF AttachFails
  <2>. HIDE DEF q
  <2>5. mem' \in Memories
        /\ \A l \in Instances, k \in Jobs : mem'[l][k] = IF l = i /\ k = j THEN q ELSE mem[l][k]
    BY <1>0, <2>1, <2>3, <2>4, NestedUpdate DEF Memories
  <2>6. db' = [db EXCEPT ![j] = Stored(i, q)] \/ UNCHANGED db
    BY <1>6, <2>1, <2>5 DEF AttachFails
  <2>7. db' \in [Jobs -> Record]
        /\ \A k \in Jobs : db'[k].status = "failed" \/ db'[k].status = db[k].status
    <3>1. CASE UNCHANGED db
      BY <1>0, <3>1
    <3>2. CASE db' = [db EXCEPT ![j] = Stored(i, q)]
      BY <1>0, <2>1, <2>3, <3>2, StoredType, StoredStatus
    <3>. QED
      BY <2>6, <3>1, <3>2
  <2>8. run' \in [Runs -> Run] /\ faults' \in Nat
    <3>1. (SubmissionFailed(RunOf[j]) \/ UNCHANGED run) /\ Fault
      BY <1>6 DEF AttachFails
    <3>. QED
      BY <1>0, <3>1, SubmissionFacts DEF Fault
  <2>9. IdleRequest.pc = "idle" /\ IdleRequest.snap.status = "absent" /\ IdleRequest \in Request
    BY IdleTypes DEF IdleRequest, Blank
  <2>t. TypeOK'
    BY <1>0, <1>6, <2>3, <2>5, <2>7, <2>8, <2>9 DEF AttachFails, IInv, Typed, TypeOK, Memories
  <2>b. Busy'
    BY <1>0, <1>6, <2>3, <2>5, <2>7, <2>8, <2>9 DEF AttachFails, IInv, Typed, TypeOK, Busy, BusyThread, BusyRequest, Snapped
  <2>p1. PubRow' /\ PubTodo'
    BY <1>0, <1>6, <2>3, <2>5, <2>7, <2>8, <2>9 DEF AttachFails, IInv, Published, PubRow, PubTodo, Memories
  <2>p2. PubRecord'
    BY <1>0, <1>6, <2>3, <2>5, <2>7, <2>8, <2>9 DEF AttachFails, IInv, Published, PubRecord, Memories
  <2>p3. PubSnap' /\ PubThread'
    BY <1>6 DEF AttachFails, IInv, Published, PubSnap, PubThread
  <2>p4. PubRequest'
    BY <1>0, <1>6, <2>3, <2>5, <2>7, <2>8, <2>9 DEF AttachFails, IInv, Published, PubRequest
  <2>. QED
    BY <2>t, <2>b, <2>p1, <2>p2, <2>p3, <2>p4 DEF IInv, Typed, Published
<1>7. CASE Enqueue(c)
  <2>1. queue' \in [Instances -> Seq(Jobs)]
    BY <1>7 DEF Enqueue, IInv, Typed, TypeOK, Busy, BusyThread, BusyRequest, Snapped
  <2>2. IdleRequest.pc = "idle" /\ IdleRequest.snap.status = "absent" /\ IdleRequest \in Request
    BY IdleTypes DEF IdleRequest, Blank
  <2>t. TypeOK'
    BY <1>0, <1>7, <2>1, <2>2 DEF Enqueue, IInv, Typed, TypeOK
  <2>b. Busy'
    BY <1>0, <1>7, <2>1, <2>2 DEF Enqueue, IInv, Typed, TypeOK, Busy, BusyThread, BusyRequest, Snapped
  <2>p1. PubRow' /\ PubTodo'
    BY <1>0, <1>7, <2>1, <2>2 DEF Enqueue, IInv, Published, PubRow, PubTodo
  <2>p2. PubRecord'
    BY <1>0, <1>7, <2>1, <2>2 DEF Enqueue, IInv, Published, PubRecord
  <2>p3. PubSnap' /\ PubThread'
    BY <1>7 DEF Enqueue, IInv, Published, PubSnap, PubThread
  <2>p4. PubRequest'
    BY <1>0, <1>7, <2>1, <2>2 DEF Enqueue, IInv, Published, PubRequest
  <2>. QED
    BY <2>t, <2>b, <2>p1, <2>p2, <2>p3, <2>p4 DEF IInv, Typed, Published
<1>8. CASE SnapCancel(c)
  <2>1. PICK u \in Request : u = request[c]
    BY <1>0
  <2>2. u.job \in Jobs /\ u.at \in Instances
    BY <1>8, <2>1 DEF SnapCancel, IInv, Typed, Busy, BusyThread, BusyRequest, Snapped
  <2>3. PICK r \in Record : r = mem[u.at][u.job]
    BY <1>0, <2>2 DEF Memories
  <2>. DEFINE v == [u EXCEPT !.pc = "snapped", !.snap = r]
  <2>4. v \in Request /\ v.job = u.job /\ v.at = u.at /\ v.snap = r
    BY DEF Request, RequestPC
  <2>5. request' = [request EXCEPT ![c] = v]
    BY <1>8, <2>1, <2>3 DEF SnapCancel
  <2>6. r.status = "completed" => applied[u.job] > 0
    BY <2>2, <2>3 DEF IInv, Published, PubRecord
  <2>. HIDE DEF v
  <2>t. TypeOK'
    BY <1>0, <1>8, <2>1, <2>2, <2>4, <2>5, <2>6 DEF SnapCancel, IInv, Typed, TypeOK
  <2>b. Busy'
    BY <1>0, <1>8, <2>1, <2>2, <2>4, <2>5, <2>6 DEF SnapCancel, IInv, Typed, TypeOK, Busy, BusyThread, BusyRequest, Snapped
  <2>p1. PubRow' /\ PubTodo'
    BY <1>0, <1>8, <2>1, <2>2, <2>4, <2>5, <2>6 DEF SnapCancel, IInv, Published, PubRow, PubTodo
  <2>p2. PubRecord'
    BY <1>0, <1>8, <2>1, <2>2, <2>4, <2>5, <2>6 DEF SnapCancel, IInv, Published, PubRecord
  <2>p3. PubSnap' /\ PubThread'
    BY <1>8 DEF SnapCancel, IInv, Published, PubSnap, PubThread
  <2>p4. PubRequest'
    BY <1>0, <1>8, <2>1, <2>2, <2>4, <2>5, <2>6 DEF SnapCancel, IInv, Published, PubRequest
  <2>. QED
    BY <2>t, <2>b, <2>p1, <2>p2, <2>p3, <2>p4 DEF IInv, Typed, Published
<1>9. CASE PersistCancel(c)
  <2>1. /\ request[c].at \in Instances /\ request[c].job \in Jobs
        /\ request[c].snap \in Record
    BY <1>0, <1>9 DEF PersistCancel, IInv, Typed, Busy, BusyThread, BusyRequest, Snapped, Request
  <2>2. /\ db' \in [Jobs -> Record] /\ faults' \in Nat
        /\ \A k \in Jobs : \/ db'[k] = db[k]
                           \/ k = request[c].job /\ db'[k].status = request[c].snap.status
    BY <1>0, <1>9, <2>1, PersistFacts DEF PersistCancel
  <2>3. IdleRequest.pc = "idle" /\ IdleRequest.snap.status = "absent" /\ IdleRequest \in Request
    BY IdleTypes DEF IdleRequest, Blank
  <2>t. TypeOK'
    BY <1>0, <1>9, <2>1, <2>2, <2>3 DEF PersistCancel, IInv, Typed, TypeOK
  <2>b. Busy'
    BY <1>0, <1>9, <2>1, <2>2, <2>3 DEF PersistCancel, IInv, Typed, TypeOK, Busy, BusyThread, BusyRequest, Snapped
  <2>p1. PubRow' /\ PubTodo'
    BY <1>0, <1>9, <2>1, <2>2, <2>3 DEF PersistCancel, IInv, Published, PubRow, PubTodo, PubRequest
  <2>p2. PubRecord'
    BY <1>0, <1>9, <2>1, <2>2, <2>3 DEF PersistCancel, IInv, Published, PubRecord
  <2>p3. PubSnap' /\ PubThread'
    BY <1>9 DEF PersistCancel, IInv, Published, PubSnap, PubThread
  <2>p4. PubRequest'
    BY <1>0, <1>9, <2>1, <2>2, <2>3 DEF PersistCancel, IInv, Published, PubRequest
  <2>. QED
    BY <2>t, <2>b, <2>p1, <2>p2, <2>p3, <2>p4 DEF IInv, Typed, Published
<1>. QED
  BY <1>1, <1>2, <1>3, <1>4, <1>5, <1>6, <1>7, <1>8, <1>9 DEF ClientStep

-----------------------------------------------------------------------------
(* Worker threads.                                                         *)

(* Every update of a record, whatever it says, as long as it says          *)
(* "completed" only of a published job or of one that was completed.       *)
LEMMA UpdateKeeps ==
    ASSUME IInv, NEW i \in Instances, NEW w \in Workers, NEW rec \in Record,
           NEW pc \in WorkerPC \ {"idle", "applied", "rechecked"}, NEW left \in Nat,
           worker[i][w].job \in Jobs, Update(i, w, rec, pc, left),
           rec.status = "completed" => applied[worker[i][w].job] > 0,
           pc \in {"persist", "sync"} => rec.status \in RunStatus,
           faults' \in Nat,
           UNCHANGED <<db, run, queue, inst, todo, request, applied, claims>>
    PROVE  IInv'
<1>0. worker \in Threads /\ mem \in Memories
  BY DEF IInv, Typed, TypeOK, Threads, Memories
<1>1. /\ mem' \in Memories /\ worker' \in Threads
      /\ \A k \in Instances, j \in Jobs :
            mem'[k][j] = IF k = i /\ j = worker[i][w].job THEN rec ELSE mem[k][j]
      /\ \A k \in Instances, v \in Workers :
            /\ worker'[k][v].job = worker[k][v].job
            /\ worker'[k][v].snap = IF k = i /\ v = w THEN rec ELSE worker[k][v].snap
            /\ worker'[k][v].pc = IF k = i /\ v = w THEN pc ELSE worker[k][v].pc
  BY <1>0, UpdateFacts
<1>2. TypeOK'
  BY <1>1 DEF IInv, Typed, TypeOK, Threads, Memories
<1>3. BusyThread' /\ BusyRequest'
  BY <1>1 DEF IInv, Typed, Busy, BusyThread, BusyRequest
<1>s. Snapped'
  <2>. SUFFICES ASSUME NEW k \in Instances, NEW v \in Workers,
                       worker'[k][v].pc \in {"persist", "sync"}
                PROVE  worker'[k][v].snap.status \in RunStatus
    BY DEF Snapped
  <2>1. CASE k = i /\ v = w
    <3>1. worker'[k][v].pc = pc /\ worker'[k][v].snap = rec
      BY <1>1, <2>1
    <3>. QED
      BY <3>1
  <2>2. CASE ~(k = i /\ v = w)
    BY <1>1, <2>2 DEF IInv, Typed, Busy, Snapped
  <2>. QED
    BY <2>1, <2>2
<1>4. PubRow' /\ PubTodo' /\ PubRequest'
  BY DEF IInv, Published, PubRow, PubTodo, PubRequest
<1>5. PubRecord'
  BY <1>1 DEF IInv, Published, PubRecord
<1>6. PubSnap'
  BY <1>1 DEF IInv, Published, PubSnap
<1>7. PubThread'
  BY <1>1 DEF IInv, Published, PubThread
<1>. QED
  BY <1>2, <1>3, <1>s, <1>4, <1>5, <1>6, <1>7 DEF IInv, Typed, Busy, Published

(* A thread that goes on with the job and the snapshot it has, or without  *)
(* the snapshot.                                                           *)
LEMMA ThreadKeeps ==
    ASSUME IInv, worker' \in Threads, NEW i \in Instances, NEW w \in Workers,
           NEW pc \in WorkerPC \ {"idle"},
           \A k \in Instances, v \in Workers :
              /\ worker'[k][v].job = worker[k][v].job
              /\ k # i \/ v # w => worker'[k][v].snap = worker[k][v].snap
              /\ worker'[k][v].pc = IF k = i /\ v = w THEN pc ELSE worker[k][v].pc,
           worker'[i][w].snap \in {worker[i][w].snap, Blank("absent")},
           worker[i][w].job \in Jobs,
           pc \in {"persist", "sync"} => worker'[i][w].snap.status \in RunStatus,
           pc \in {"applied", "rechecked"} => applied'[worker[i][w].job] > 0,
           \A j \in Jobs : applied[j] > 0 => applied'[j] > 0
    PROVE  BusyThread' /\ Snapped' /\ PubSnap' /\ PubThread'
<1>1. Blank("absent").status = "absent"
  BY DEF Blank
<1>2. BusyThread'
  BY DEF IInv, Typed, Busy, BusyThread
<1>3. Snapped'
  BY DEF IInv, Typed, Busy, Snapped
<1>4. PubSnap'
  BY <1>1 DEF IInv, Published, PubSnap
<1>5. PubThread'
  BY DEF IInv, Typed, Busy, BusyThread, Published, PubThread
<1>. QED
  BY <1>2, <1>3, <1>4, <1>5

LEMMA WorkerKeeps ==
    ASSUME IInv, NEW i \in Instances, NEW w \in Workers, WorkerStep(i, w)
    PROVE  IInv'
<1>. DEFINE j == worker[i][w].job
<1>0. /\ db \in [Jobs -> Record] /\ mem \in Memories /\ worker \in Threads
      /\ run \in [Runs -> Run] /\ applied \in [Jobs -> Nat] /\ faults \in Nat
      /\ worker[i][w].pc # "idle" => j \in Jobs
      /\ j \in Jobs => RecordOf(i, w) \in Record
  BY DEF IInv, Typed, TypeOK, Busy, BusyThread, BusyRequest, Snapped, Memories, Threads, RecordOf
<1>i. IdleThread \in Thread /\ IdleThread.pc = "idle" /\ IdleThread.snap.status = "absent"
  BY IdleTypes DEF IdleThread, Blank
<1>1. CASE Take(i, w)
  <2>1. /\ queue[i] \in Seq(Jobs) /\ queue[i] # <<>>
        /\ queue \in [Instances -> Seq(Jobs)]
    BY <1>1 DEF Take, IInv, Typed, TypeOK
  <2>2. Head(queue[i]) \in Jobs /\ queue' \in [Instances -> Seq(Jobs)]
    BY <1>1, <2>1 DEF Take
  <2>. DEFINE t == [IdleThread EXCEPT !.pc = "taken", !.job = Head(queue[i])]
  <2>3. t \in Thread /\ t.pc = "taken" /\ t.job \in Jobs /\ t.snap.status = "absent"
    BY <1>i, <2>2 DEF Thread, WorkerPC, IdleThread
  <2>4. worker' = [worker EXCEPT ![i][w] = t]
    BY <1>1 DEF Take
  <2>. HIDE DEF t
  <2>5. worker' \in Threads
        /\ \A k \in Instances, v \in Workers :
              worker'[k][v] = IF k = i /\ v = w THEN t ELSE worker[k][v]
    BY <1>0, <2>3, <2>4, NestedUpdate DEF Threads
  <2>u. UNCHANGED <<db, run, mem, inst, todo, request, applied, claims, faults>>
    BY <1>1 DEF Take
  <2>6. TypeOK'
    BY <2>2, <2>5, <2>u DEF IInv, Typed, TypeOK, Threads
  <2>7. Busy'
    BY <2>3, <2>5, <2>u DEF IInv, Typed, Busy, BusyThread, BusyRequest, Snapped
  <2>8. PubSnap' /\ PubThread'
    BY <2>3, <2>5, <2>u DEF IInv, Published, PubSnap, PubThread
  <2>9. PubRow' /\ PubRecord' /\ PubRequest' /\ PubTodo'
    BY <1>1 DEF Take, IInv, Published, PubRow, PubRecord, PubRequest, PubTodo
  <2>. QED
    BY <2>6, <2>7, <2>8, <2>9 DEF IInv, Typed, Published
<1>2. CASE Claim(i, w)
  <2>1. j \in Jobs /\ Move(i, w, "claimed")
    BY <1>0, <1>2 DEF Claim
  <2>2. PICK r \in Record : r = db[j]
    BY <1>0, <2>1
  <2>. DEFINE q == [r EXCEPT !.status = "running", !.owner = i, !.fresh = TRUE]
  <2>3. q \in Record /\ q.status = "running"
    BY RecordFields DEF Record
  <2>4. db' = [db EXCEPT ![j] = q]
    BY <1>2, <2>2 DEF Claim
  <2>. HIDE DEF q
  <2>5. db' \in [Jobs -> Record] /\ PubRow'
    BY <1>0, <1>2, <2>3, <2>4 DEF Claim, IInv, Published, PubRow
  <2>6. /\ worker' \in Threads
        /\ \A k \in Instances, v \in Workers :
              /\ worker'[k][v].job = worker[k][v].job
              /\ worker'[k][v].snap = worker[k][v].snap
              /\ worker'[k][v].pc = IF k = i /\ v = w THEN "claimed" ELSE worker[k][v].pc
    BY <1>0, <2>1, MoveFacts DEF WorkerPC
  <2>7. BusyThread' /\ Snapped' /\ PubSnap' /\ PubThread'
    <3>1. UNCHANGED applied
      BY <1>2 DEF Claim
    <3>. QED
      BY <2>1, <2>6, <3>1, ThreadKeeps DEF WorkerPC
  <2>8. claims' \in [Jobs -> Nat]
    BY <1>2, <2>1 DEF Claim, IInv, Typed, TypeOK
  <2>9. TypeOK' /\ Busy'
    BY <1>2, <2>5, <2>6, <2>7, <2>8 DEF Claim, IInv, Typed, TypeOK, Busy, BusyThread, BusyRequest, Snapped, Threads
  <2>10. PubRecord' /\ PubRequest' /\ PubTodo'
    BY <1>2 DEF Claim, IInv, Published, PubRecord, PubRequest, PubTodo
  <2>. QED
    BY <2>5, <2>7, <2>9, <2>10 DEF IInv, Typed, Published
<1>3. CASE ClaimLost(i, w)
  <2>1. worker' \in Threads
        /\ \A k \in Instances, v \in Workers :
              worker'[k][v] = IF k = i /\ v = w THEN IdleThread ELSE worker[k][v]
    BY <1>0, <1>3, RestFacts DEF ClaimLost
  <2>2. TypeOK' /\ Busy'
    BY <1>i, <1>3, <2>1 DEF ClaimLost, IInv, Typed, TypeOK, Busy, BusyThread, BusyRequest, Snapped, Threads
  <2>3. PubSnap' /\ PubThread'
    BY <1>i, <1>3, <2>1 DEF ClaimLost, IInv, Published, PubSnap, PubThread
  <2>4. PubRow' /\ PubRecord' /\ PubRequest' /\ PubTodo'
    BY <1>3 DEF ClaimLost, IInv, Published, PubRow, PubRecord, PubRequest, PubTodo
  <2>. QED
    BY <2>2, <2>3, <2>4 DEF IInv, Typed, Published
<1>4. CASE ClaimRecord(i, w)
  <2>1. j \in Jobs
    BY <1>0, <1>4 DEF ClaimRecord
  <2>2. PICK r \in Record : r = mem[i][j]
    BY <1>0, <2>1 DEF Memories
  <2>. DEFINE q == [r EXCEPT !.status = "running", !.owner = i, !.fresh = TRUE]
  <2>3. q \in Record /\ q.status = "running"
    BY RecordFields DEF Record
  <2>4. mem' = [mem EXCEPT ![i][j] = q]
    BY <1>4, <2>2 DEF ClaimRecord
  <2>. HIDE DEF q
  <2>5. mem' \in Memories /\ PubRecord'
    <3>1. mem' \in Memories
          /\ \A k \in Instances, l \in Jobs :
                mem'[k][l] = IF k = i /\ l = j THEN q ELSE mem[k][l]
      BY <1>0, <2>1, <2>3, <2>4, NestedUpdate DEF Memories
    <3>. QED
      BY <1>4, <2>3, <3>1 DEF ClaimRecord, IInv, Published, PubRecord
  <2>6. PICK u \in Thread : u = worker[i][w]
    BY <1>0 DEF Threads
  <2>. DEFINE t == [u EXCEPT !.pc = "begin", !.left = MaxReports]
  <2>7. t \in Thread /\ t.pc = "begin" /\ t.job = u.job /\ t.snap = u.snap
    BY JobManagerAssumption DEF Thread, WorkerPC
  <2>8. worker' = [worker EXCEPT ![i][w] = t]
    BY <1>4, <2>6 DEF ClaimRecord
  <2>. HIDE DEF t
  <2>9. worker' \in Threads
        /\ \A k \in Instances, v \in Workers :
              worker'[k][v] = IF k = i /\ v = w THEN t ELSE worker[k][v]
    BY <1>0, <2>7, <2>8, NestedUpdate DEF Threads
  <2>10. PubSnap' /\ PubThread' /\ Busy'
    BY <1>4, <2>1, <2>6, <2>7, <2>9
    DEF ClaimRecord, IInv, Typed, Busy, BusyThread, BusyRequest, Snapped, Published, PubSnap, PubThread
  <2>11. TypeOK'
    BY <1>4, <2>5, <2>9 DEF ClaimRecord, IInv, Typed, TypeOK, Threads, Memories
  <2>12. PubRow' /\ PubRequest' /\ PubTodo'
    BY <1>4 DEF ClaimRecord, IInv, Published, PubRow, PubRequest, PubTodo
  <2>. QED
    BY <2>5, <2>10, <2>11, <2>12 DEF IInv, Typed, Published
<1>5. CASE CheckPasses(i, w)
  <2>1. PICK pc \in {"entered", "commit", "rechecked"} :
            /\ Move(i, w, pc) \/ (Reports(i, w) /\ pc = "entered")
            /\ pc = "rechecked" => worker[i][w].pc = "applied"
    <3>1. CASE Reports(i, w)
      BY <3>1
    <3>2. CASE ~Reports(i, w)
      BY <1>5, <3>2 DEF CheckPasses, Reports
    <3>. QED
      BY <3>1, <3>2
  <2>2. j \in Jobs /\ faults' \in Nat
    BY <1>0, <1>5 DEF CheckPasses, CancelUnseen, Fault
  <2>p. pc \in {"applied", "rechecked"} => applied'[j] > 0
    BY <1>5, <2>1 DEF CheckPasses, IInv, Published, PubThread
  <2>3. /\ worker' \in Threads
        /\ \A k \in Instances, v \in Workers :
              /\ worker'[k][v].job = worker[k][v].job
              /\ worker'[k][v].snap = worker[k][v].snap
              /\ worker'[k][v].pc = IF k = i /\ v = w THEN pc ELSE worker[k][v].pc
    BY <1>0, <2>1, MoveFacts, ReportsFacts DEF WorkerPC
  <2>4. BusyThread' /\ Snapped' /\ PubSnap' /\ PubThread'
    <3>1. UNCHANGED applied /\ pc \in WorkerPC \ {"idle", "persist", "sync"}
      BY <1>5 DEF CheckPasses, WorkerPC
    <3>2. worker'[i][w].snap = worker[i][w].snap
      BY <2>3
    <3>. QED
      BY <2>2, <2>3, <2>p, <3>1, <3>2, ThreadKeeps
  <2>5. TypeOK' /\ Busy'
    BY <1>5, <2>2, <2>3, <2>4 DEF CheckPasses, IInv, Typed, TypeOK, Busy, BusyThread, BusyRequest, Snapped, Threads
  <2>6. PubRow' /\ PubRecord' /\ PubRequest' /\ PubTodo'
    BY <1>5 DEF CheckPasses, IInv, Published, PubRow, PubRecord, PubRequest, PubTodo
  <2>. QED
    BY <2>4, <2>5, <2>6 DEF IInv, Typed, Published
<1>6. CASE Report(i, w)
  <2>1. j \in Jobs
    BY <1>0, <1>6 DEF Report
  <2>. DEFINE left == worker[i][w].left
              rec == [RecordOf(i, w) EXCEPT !.status = "running"]
  <2>2. PICK r \in Record : r = RecordOf(i, w)
    BY <1>0, <2>1
  <2>3. rec \in Record /\ rec.status = "running"
    BY <2>2 DEF Record, Status, Active
  <2>4. left \in Nat /\ faults' \in Nat
    BY <1>0, <1>6 DEF Report, Threads, Thread
  <2>5. Update(i, w, rec, "persist", left)
        /\ UNCHANGED <<db, run, queue, inst, todo, request, applied, claims>>
    BY <1>6 DEF Report
  <2>. HIDE DEF left, rec
  <2>. QED
    BY <2>1, <2>3, <2>4, <2>5, UpdateKeeps DEF WorkerPC, RunStatus
<1>7. CASE Stop(i, w)
  <2>1. j \in Jobs
    BY <1>0, <1>7 DEF Stop
  <2>. DEFINE rec == [RecordOf(i, w) EXCEPT !.status = "cancelled", !.cancel = TRUE]
  <2>2. PICK r \in Record : r = RecordOf(i, w)
    BY <1>0, <2>1
  <2>3. rec \in Record /\ rec.status = "cancelled"
    BY <2>2 DEF Record, Status, Terminal
  <2>4. Update(i, w, rec, "persist", 0)
        /\ UNCHANGED <<db, run, queue, inst, todo, request, applied, claims, faults>>
    BY <1>7 DEF Stop
  <2>. HIDE DEF rec
  <2>. QED
    BY <1>0, <2>1, <2>3, <2>4, UpdateKeeps DEF WorkerPC, RunStatus
<1>8. CASE Apply(i, w)
  <2>1. j \in Jobs /\ Move(i, w, "applied")
    BY <1>0, <1>8 DEF Apply
  <2>2. applied' = [applied EXCEPT ![j] = @ + 1]
    BY <1>8 DEF Apply
  <2>3. /\ applied' \in [Jobs -> Nat] /\ applied'[j] > 0
        /\ \A l \in Jobs : applied[l] > 0 => applied'[l] > 0
    BY <1>0, <2>1, <2>2
  <2>4. /\ worker' \in Threads
        /\ \A k \in Instances, v \in Workers :
              /\ worker'[k][v].job = worker[k][v].job
              /\ worker'[k][v].snap = worker[k][v].snap
              /\ worker'[k][v].pc = IF k = i /\ v = w THEN "applied" ELSE worker[k][v].pc
    BY <1>0, <2>1, MoveFacts DEF WorkerPC
  <2>5. BusyThread' /\ Snapped' /\ PubSnap' /\ PubThread'
    BY <2>1, <2>3, <2>4, ThreadKeeps DEF WorkerPC
  <2>6. TypeOK' /\ Busy'
    BY <1>8, <2>3, <2>4, <2>5 DEF Apply, IInv, Typed, TypeOK, Busy, BusyThread, BusyRequest, Snapped, Threads
  <2>7. PubRow' /\ PubRecord' /\ PubRequest' /\ PubTodo'
    BY <1>8, <2>3 DEF Apply, IInv, Published, PubRow, PubRecord, PubRequest, PubTodo
  <2>. QED
    BY <2>5, <2>6, <2>7 DEF IInv, Typed, Published
<1>9. CASE Fail(i, w)
  <2>1. j \in Jobs
    BY <1>0, <1>9 DEF Fail
  <2>. DEFINE rec == [RecordOf(i, w) EXCEPT !.status = "failed"]
  <2>2. PICK r \in Record : r = RecordOf(i, w)
    BY <1>0, <2>1
  <2>3. rec \in Record /\ rec.status = "failed"
    BY <2>2 DEF Record, Status, Terminal
  <2>4. Update(i, w, rec, "persist", 0) /\ faults' \in Nat
        /\ UNCHANGED <<db, run, queue, inst, todo, request, applied, claims>>
    BY <1>0, <1>9 DEF Fail, Fault
  <2>. HIDE DEF rec
  <2>. QED
    BY <2>1, <2>3, <2>4, UpdateKeeps DEF WorkerPC, RunStatus
<1>10. CASE Complete(i, w)
  <2>1. j \in Jobs /\ applied[j] > 0
    BY <1>0, <1>10 DEF Complete, IInv, Published, PubThread
  <2>. DEFINE rec == [RecordOf(i, w) EXCEPT
                         !.status = "completed", !.path = TRUE,
                         !.artifact = @ \/ Rechecks(worker[i][w].job)]
  <2>2. PICK r \in Record : r = RecordOf(i, w)
    BY <1>0, <2>1
  <2>3. rec \in Record /\ rec.status = "completed"
    <3>1. (r.artifact \/ Rechecks(worker[i][w].job)) \in BOOLEAN
      BY DEF Rechecks
    <3>. QED
      BY <2>2, <3>1 DEF Record, Status, Terminal
  <2>4. Update(i, w, rec, "persist", 0)
        /\ UNCHANGED <<db, run, queue, inst, todo, request, applied, claims, faults>>
    BY <1>10 DEF Complete
  <2>. HIDE DEF rec
  <2>. QED
    BY <1>0, <2>1, <2>3, <2>4, UpdateKeeps DEF WorkerPC, RunStatus
<1>11. CASE PersistRecord(i, w)
  <2>1. j \in Jobs /\ worker[i][w].snap \in Record
    BY <1>0, <1>11 DEF PersistRecord, Threads, Thread
  <2>2. /\ db' \in [Jobs -> Record] /\ faults' \in Nat
        /\ \A k \in Jobs : \/ db'[k] = db[k]
                           \/ k = j /\ db'[k].status = worker[i][w].snap.status
    BY <1>0, <1>11, <2>1, PersistFacts DEF PersistRecord
  <2>3. PubRow' /\ PubRecord' /\ PubRequest' /\ PubTodo'
    BY <1>11, <2>1, <2>2
    DEF PersistRecord, IInv, Published, PubRow, PubSnap, PubRecord, PubRequest, PubTodo
  <2>4. worker' \in Threads /\ Busy' /\ PubSnap' /\ PubThread'
    <3>1. CASE Rest(i, w)
      <4>1. worker' \in Threads
            /\ \A k \in Instances, v \in Workers :
                  worker'[k][v] = IF k = i /\ v = w THEN IdleThread ELSE worker[k][v]
        BY <1>0, <3>1, RestFacts
      <4>. QED
        BY <1>i, <1>11, <4>1 DEF PersistRecord, IInv, Typed, Busy, BusyThread, BusyRequest, Snapped, Published, PubSnap, PubThread
    <3>2. CASE worker[i][w].pc = "persist" /\ Move(i, w, "sync")
      <4>1. /\ worker' \in Threads
            /\ \A k \in Instances, v \in Workers :
                  /\ worker'[k][v].job = worker[k][v].job
                  /\ worker'[k][v].snap = worker[k][v].snap
                  /\ worker'[k][v].pc = IF k = i /\ v = w THEN "sync" ELSE worker[k][v].pc
        BY <1>0, <3>2, MoveFacts DEF WorkerPC
      <4>2. BusyThread' /\ Snapped' /\ PubSnap' /\ PubThread'
        <5>1. worker[i][w].snap.status \in RunStatus /\ UNCHANGED applied
          BY <1>11, <3>2 DEF PersistRecord, IInv, Typed, Busy, Snapped
        <5>2. worker'[i][w].snap = worker[i][w].snap
          BY <4>1
        <5>3. worker'[i][w].snap.status \in RunStatus
          BY <5>1, <5>2
        <5>4. "sync" \in WorkerPC \ {"idle"} /\ "sync" \notin {"applied", "rechecked"}
          BY DEF WorkerPC
        <5>5. \A l \in Jobs : applied[l] > 0 => applied'[l] > 0
          BY <5>1
        <5>. QED
          BY <2>1, <4>1, <5>2, <5>3, <5>4, <5>5, ThreadKeeps
      <4>. QED
        BY <1>11, <4>1, <4>2 DEF PersistRecord, IInv, Typed, Busy, BusyThread, BusyRequest, Snapped
    <3>3. CASE Resume(i, w, "work")
      <4>1. /\ worker' \in Threads
            /\ \A k \in Instances, v \in Workers :
                  /\ worker'[k][v].job = worker[k][v].job
                  /\ worker'[k][v].snap = IF k = i /\ v = w THEN Blank("absent")
                                           ELSE worker[k][v].snap
                  /\ worker'[k][v].pc = IF k = i /\ v = w THEN "work" ELSE worker[k][v].pc
        BY <1>0, <3>3, ResumeFacts DEF WorkerPC
      <4>2. BusyThread' /\ Snapped' /\ PubSnap' /\ PubThread'
        BY <1>11, <2>1, <4>1, ThreadKeeps DEF PersistRecord, WorkerPC
      <4>. QED
        BY <1>11, <4>1, <4>2 DEF PersistRecord, IInv, Typed, Busy, BusyThread, BusyRequest, Snapped
    <3>. QED
      BY <1>11, <3>1, <3>2, <3>3 DEF PersistRecord
  <2>5. TypeOK'
    BY <1>11, <2>2, <2>4 DEF PersistRecord, IInv, Typed, TypeOK, Threads
  <2>. QED
    BY <2>3, <2>4, <2>5 DEF IInv, Typed, Published
<1>12. CASE SyncRun(i, w)
  <2>1. j \in Jobs /\ worker[i][w].snap \in Record
    BY <1>0, <1>12 DEF SyncRun, Threads, Thread
  <2>2. PubRow' /\ PubRecord' /\ PubRequest' /\ PubTodo'
    BY <1>12 DEF SyncRun, IInv, Published, PubRow, PubRecord, PubRequest, PubTodo
  <2>3. worker' \in Threads /\ Busy' /\ PubSnap' /\ PubThread'
    <3>1. CASE Rest(i, w)
      <4>1. worker' \in Threads
            /\ \A k \in Instances, v \in Workers :
                  worker'[k][v] = IF k = i /\ v = w THEN IdleThread ELSE worker[k][v]
        BY <1>0, <3>1, RestFacts
      <4>. QED
        BY <1>i, <1>12, <4>1 DEF SyncRun, IInv, Typed, Busy, BusyThread, BusyRequest, Snapped, Published, PubSnap, PubThread
    <3>2. ASSUME NEW pc \in {"work", "attach"}, Resume(i, w, pc)
          PROVE  worker' \in Threads /\ Busy' /\ PubSnap' /\ PubThread'
      <4>1. /\ worker' \in Threads
            /\ \A k \in Instances, v \in Workers :
                  /\ worker'[k][v].job = worker[k][v].job
                  /\ worker'[k][v].snap = IF k = i /\ v = w THEN Blank("absent")
                                           ELSE worker[k][v].snap
                  /\ worker'[k][v].pc = IF k = i /\ v = w THEN pc ELSE worker[k][v].pc
        BY <1>0, <3>2, ResumeFacts DEF WorkerPC
      <4>2. BusyThread' /\ Snapped' /\ PubSnap' /\ PubThread'
        BY <1>12, <2>1, <4>1, ThreadKeeps DEF SyncRun, WorkerPC
      <4>. QED
        BY <1>12, <4>1, <4>2 DEF SyncRun, IInv, Typed, Busy, BusyThread, BusyRequest, Snapped
    <3>3. Rest(i, w) \/ Resume(i, w, "work") \/ Resume(i, w, "attach")
      BY <1>12 DEF SyncRun
    <3>. QED
      BY <3>1, <3>2, <3>3
  <2>4. run' \in [Runs -> Run] /\ faults' \in Nat
    <3>1. worker[i][w].snap.status \in RunStatus
      BY <1>12 DEF SyncRun, IInv, Typed, Busy, Snapped
    <3>2. CASE UNCHANGED run /\ Fault
      BY <1>0, <3>2 DEF Fault
    <3>3. CASE run' = [r \in Runs |-> IF run[r].job = j
                                     THEN [run[r] EXCEPT !.status = worker[i][w].snap.status]
                                     ELSE run[r]]
      <4>. DEFINE st == worker[i][w].snap.status
      <4>1. ASSUME NEW q \in Run PROVE [q EXCEPT !.status = st] \in Run
        BY <3>1 DEF Run
      <4>. HIDE DEF st
      <4>2. \A r \in Runs : run'[r] \in Run
        <5>1. TAKE r \in Runs
        <5>2. PICK q \in Run : q = run[r]
          BY <1>0
        <5>. QED
          BY <3>3, <4>1, <5>2 DEF st
      <4>. QED
        BY <1>0, <1>12, <3>3, <4>2 DEF SyncRun, Fault
    <3>. QED
      BY <1>12, <3>2, <3>3 DEF SyncRun
  <2>5. TypeOK'
    BY <1>12, <2>3, <2>4 DEF SyncRun, IInv, Typed, TypeOK, Threads
  <2>. QED
    BY <2>2, <2>3, <2>5 DEF IInv, Typed, Published
<1>13. CASE Attach(i, w)
  <2>1. j \in Jobs
    BY <1>0, <1>13 DEF Attach
  <2>. DEFINE rec == [RecordOf(i, w) EXCEPT !.artifact = TRUE]
  <2>2. PICK r \in Record : r = RecordOf(i, w)
    BY <1>0, <2>1
  <2>3. rec \in Record /\ rec.status = r.status
    BY <2>2 DEF Record
  <2>4. r.status = "completed" => applied[j] > 0
    BY <2>1, <2>2 DEF RecordOf, IInv, Published, PubRecord
  <2>5. Update(i, w, rec, "persistResult", 0)
        /\ UNCHANGED <<db, run, queue, inst, todo, request, applied, claims, faults>>
    BY <1>13 DEF Attach
  <2>. HIDE DEF rec
  <2>. QED
    BY <1>0, <2>1, <2>3, <2>4, <2>5, UpdateKeeps DEF WorkerPC, RunStatus
<1>. QED
  BY <1>1, <1>2, <1>3, <1>4, <1>5, <1>6, <1>7, <1>8, <1>9, <1>10, <1>11, <1>12, <1>13
  DEF WorkerStep

-----------------------------------------------------------------------------
(* Processes, leases, runs.                                                *)

(* The process is gone: its memory and its threads say nothing any more. *)
LEMMA DieKeeps ==
    ASSUME IInv, NEW i \in Instances, Die(i), db' \in [Jobs -> Record], PubRow',
           UNCHANGED <<run, applied, claims, faults>>
    PROVE  IInv'
<1>1. /\ Blank("absent") \in Record /\ Blank("absent").status = "absent"
      /\ IdleThread \in Thread /\ IdleThread.pc = "idle"
      /\ IdleThread.snap.status = "absent" /\ IdleThread.job = None
      /\ IdleRequest \in Request /\ IdleRequest.pc = "idle"
      /\ IdleRequest.snap.status = "absent" /\ None \notin Jobs
  BY BlankType, IdleTypes, JobManagerAssumption DEF Blank, Status, IdleThread, IdleRequest
<1>2. inst' \in [Instances -> {"new", "restoring", "up", "down"}]
  BY DEF Die, IInv, Typed, TypeOK
<1>3. mem' \in Memories /\ PubRecord'
  BY <1>1 DEF Die, IInv, Typed, TypeOK, Memories, Published, PubRecord
<1>4. queue' \in [Instances -> Seq(Jobs)]
  BY DEF Die, IInv, Typed, TypeOK
<1>5. todo' \in [Instances -> SUBSET (Jobs \X Record)] /\ PubTodo'
  BY DEF Die, IInv, Typed, TypeOK, Published, PubTodo
<1>6. worker' \in Threads /\ BusyThread' /\ Snapped' /\ PubSnap' /\ PubThread'
  <2>1. worker' = [worker EXCEPT ![i] = [w \in Workers |-> IdleThread]]
        /\ worker \in Threads /\ UNCHANGED applied
    BY DEF Die, IInv, Typed, TypeOK, Threads
  <2>2. worker' \in Threads
        /\ \A k \in Instances, v \in Workers :
              worker'[k][v] = IF k = i THEN IdleThread ELSE worker[k][v]
    BY <1>1, <2>1 DEF Threads
  <2>. QED
    BY <1>1, <2>1, <2>2
    DEF IInv, Typed, Busy, BusyThread, Snapped, Published, PubSnap, PubThread
<1>7. request' \in [Clients -> Request] /\ BusyRequest' /\ PubRequest'
  <2>1. request' = [c \in Clients |-> IF request[c].at = i THEN IdleRequest ELSE request[c]]
        /\ request \in [Clients -> Request] /\ UNCHANGED applied
    BY DEF Die, IInv, Typed, TypeOK
  <2>. QED
    BY <1>1, <2>1 DEF IInv, Typed, Busy, BusyRequest, Published, PubRequest
<1>8. TypeOK'
  BY <1>2, <1>3, <1>4, <1>5, <1>6, <1>7 DEF IInv, Typed, TypeOK, Threads, Memories
<1>. QED
  BY <1>3, <1>5, <1>6, <1>7, <1>8 DEF IInv, Typed, Busy, Published

(* Only the row of one job changes, to one that is not completed. *)
LEMMA TakenOverType ==
    ASSUME db \in [Jobs -> Record], NEW i \in Instances, NEW j \in Jobs
    PROVE  TakenOver(i, j) \in Record /\ TakenOver(i, j).status = "queued"
<1>1. PICK r \in Record : r = db[j]
  OBVIOUS
<1>. QED
  BY <1>1 DEF TakenOver, Record, Status, Active

LEMMA InstanceKeeps ==
    ASSUME IInv, NEW i \in Instances,
           Start(i) \/ RestoreStep(i) \/ Crash(i) \/ \E e \in todo[i] : CrashInRestore(i, e)
    PROVE  IInv'
<1>0. /\ db \in [Jobs -> Record] /\ mem \in Memories /\ faults \in Nat
      /\ todo \in [Instances -> SUBSET (Jobs \X Record)]
      /\ queue \in [Instances -> Seq(Jobs)]
      /\ inst \in [Instances -> {"new", "restoring", "up", "down"}]
  BY DEF IInv, Typed, TypeOK, Memories
<1>1. CASE Start(i)
  <2>. DEFINE t == {<<j, db[j]>> : j \in {k \in Jobs : Restorable(db[k])}}
  <2>1. t \in SUBSET (Jobs \X Record)
    BY <1>0
  <2>2. \A e \in t : e[2].status # "completed"
    BY DEF Restorable, Active
  <2>3. /\ \/ todo' = [todo EXCEPT ![i] = t] /\ UNCHANGED faults
           \/ UNCHANGED todo /\ Fault
        /\ inst' = [inst EXCEPT ![i] = "restoring"]
        /\ UNCHANGED <<db, run, mem, queue, worker, request, applied, claims>>
    BY <1>1 DEF Start
  <2>. HIDE DEF t
  <2>4. /\ todo' \in [Instances -> SUBSET (Jobs \X Record)]
        /\ PubTodo' /\ faults' \in Nat
    <3>1. CASE todo' = [todo EXCEPT ![i] = t] /\ UNCHANGED faults
      BY <1>0, <2>1, <2>2, <3>1 DEF IInv, Published, PubTodo
    <3>2. CASE UNCHANGED todo /\ Fault
      BY <1>0, <3>2 DEF IInv, Published, PubTodo, Fault
    <3>. QED
      BY <2>3, <3>1, <3>2
  <2>5. TypeOK'
    BY <1>0, <2>3, <2>4 DEF IInv, Typed, TypeOK
  <2>6. Busy'
    BY <2>3 DEF IInv, Typed, Busy, BusyThread, BusyRequest, Snapped
  <2>7. PubRow' /\ PubRecord' /\ PubSnap' /\ PubThread' /\ PubRequest'
    BY <2>3 DEF IInv, Published, PubRow, PubRecord, PubSnap, PubThread, PubRequest
  <2>. QED
    BY <2>4, <2>5, <2>6, <2>7 DEF IInv, Typed, Published
<1>2. ASSUME NEW e \in todo[i], RestoreJob(i, e) PROVE IInv'
  <2>0. e[1] \in Jobs /\ e[2] \in Record
    BY <1>0
  <2>1. PICK j \in Jobs : j = e[1]
    BY <2>0
  <2>2. PICK rec \in Record : /\ rec = RestoredRecord(i, e[2])
                              /\ rec.status \in {"cancelled", "failed", "queued"}
    BY <2>0, RestoredType
  <2>3. /\ mem' = [mem EXCEPT ![i][j] = rec]
        /\ \/ db' = [db EXCEPT ![j] = Stored(i, rec)] /\ UNCHANGED faults
           \/ db' = [db EXCEPT ![j] = TakenOver(i, j)] /\ Fault
        /\ queue' = IF rec.status = "queued" THEN [queue EXCEPT ![i] = Append(@, j)] ELSE queue
        /\ todo' = [todo EXCEPT ![i] = @ \ {e}]
        /\ UNCHANGED <<run, inst, worker, request, applied, claims>>
    BY <1>2, <2>1, <2>2 DEF RestoreJob
  <2>4. db' \in [Jobs -> Record] /\ faults' \in Nat /\ PubRow'
    <3>1. PICK q \in Record : db' = [db EXCEPT ![j] = q] /\ q.status # "completed"
      BY <1>0, <2>1, <2>2, <2>3, StoredType, StoredStatus, TakenOverType
    <3>2. UNCHANGED applied /\ faults' \in Nat
      BY <1>0, <2>3 DEF Fault
    <3>. QED
      BY <1>0, <2>1, <3>1, <3>2 DEF IInv, Published, PubRow
  <2>m. mem' = [mem EXCEPT ![i][j] = rec]
    BY <2>3
  <2>5. mem' \in Memories
        /\ \A k \in Instances, l \in Jobs : mem'[k][l] = IF k = i /\ l = j THEN rec ELSE mem[k][l]
    <3>1. mem \in Memories
      BY <1>0
    <3>. QED
      BY <2>m, <3>1, MemoryFacts
  <2>6. PubRecord'
    BY <2>2, <2>3, <2>5 DEF IInv, Published, PubRecord
  <2>7. todo' \in [Instances -> SUBSET (Jobs \X Record)] /\ PubTodo'
    BY <1>0, <2>3 DEF IInv, Published, PubTodo
  <2>8. queue' \in [Instances -> Seq(Jobs)]
    BY <1>0, <2>1, <2>3
  <2>9. TypeOK'
    BY <2>3, <2>4, <2>5, <2>7, <2>8 DEF IInv, Typed, TypeOK, Memories
  <2>10. Busy'
    BY <2>3 DEF IInv, Typed, Busy, BusyThread, BusyRequest, Snapped
  <2>11. PubSnap' /\ PubThread' /\ PubRequest'
    BY <2>3 DEF IInv, Published, PubSnap, PubThread, PubRequest
  <2>. QED
    BY <2>4, <2>6, <2>7, <2>9, <2>10, <2>11 DEF IInv, Typed, Published
<1>3. ASSUME NEW e \in todo[i], RestoreLost(i, e) PROVE IInv'
  <2>1. /\ todo' = [todo EXCEPT ![i] = @ \ {e}]
        /\ UNCHANGED <<db, run, mem, queue, inst, worker, request, applied, claims, faults>>
    BY <1>3 DEF RestoreLost
  <2>2. todo' \in [Instances -> SUBSET (Jobs \X Record)] /\ PubTodo'
    BY <1>0, <2>1 DEF IInv, Published, PubTodo
  <2>3. TypeOK'
    BY <2>1, <2>2 DEF IInv, Typed, TypeOK
  <2>4. Busy'
    BY <2>1 DEF IInv, Typed, Busy, BusyThread, BusyRequest, Snapped
  <2>5. PubRow' /\ PubRecord' /\ PubSnap' /\ PubThread' /\ PubRequest'
    BY <2>1 DEF IInv, Published, PubRow, PubRecord, PubSnap, PubThread, PubRequest
  <2>. QED
    BY <2>2, <2>3, <2>4, <2>5 DEF IInv, Typed, Published
<1>4. CASE Serve(i)
  <2>1. /\ inst' = [inst EXCEPT ![i] = "up"]
        /\ UNCHANGED <<db, run, mem, queue, todo, worker, request, applied, claims, faults>>
    BY <1>4 DEF Serve
  <2>2. TypeOK'
    BY <1>0, <2>1 DEF IInv, Typed, TypeOK
  <2>3. Busy'
    BY <2>1 DEF IInv, Typed, Busy, BusyThread, BusyRequest, Snapped
  <2>4. Published'
    BY <2>1
    DEF IInv, Published, PubRow, PubRecord, PubSnap, PubThread, PubRequest, PubTodo
  <2>. QED
    BY <2>2, <2>3, <2>4 DEF IInv, Typed
<1>5. CASE Crash(i)
  <2>1. Die(i) /\ UNCHANGED <<db, run, applied, claims, faults>>
    BY <1>5 DEF Crash
  <2>2. PubRow'
    BY <2>1 DEF IInv, Published, PubRow
  <2>. QED
    BY <1>0, <2>1, <2>2, DieKeeps
<1>6. ASSUME NEW e \in todo[i], CrashInRestore(i, e) PROVE IInv'
  <2>1. /\ db' = [db EXCEPT ![e[1]] = TakenOver(i, e[1])]
        /\ Die(i) /\ UNCHANGED <<run, applied, claims, faults>>
    BY <1>6 DEF CrashInRestore
  <2>2. e[1] \in Jobs
    BY <1>0
  <2>3. TakenOver(i, e[1]) \in Record /\ TakenOver(i, e[1]).status = "queued"
    BY <1>0, <2>2, TakenOverType
  <2>4. db' \in [Jobs -> Record] /\ PubRow'
    BY <1>0, <2>1, <2>2, <2>3 DEF IInv, Published, PubRow
  <2>. QED
    BY <2>1, <2>4, DieKeeps
<1>. QED
  BY <1>1, <1>2, <1>3, <1>4, <1>5, <1>6 DEF RestoreStep

LEMMA OutsideKeeps ==
    ASSUME IInv,
           \/ \E i \in Instances, j \in Jobs : GetJob(i, j) \/ ReuseRow(i, j)
           \/ \E j \in Jobs : LeaseExpires(j)
           \/ \E r \in Runs : Supersede(r)
    PROVE  IInv'
<1>0. /\ db \in [Jobs -> Record] /\ mem \in Memories /\ run \in [Runs -> Run]
  BY DEF IInv, Typed, TypeOK, Memories
<1>1. ASSUME NEW i \in Instances, NEW j \in Jobs, GetJob(i, j) \/ ReuseRow(i, j) PROVE IInv'
  <2>1. /\ mem' = [mem EXCEPT ![i][j] = db[j]]
        /\ UNCHANGED <<db, run, queue, inst, todo, worker, request, applied, claims, faults>>
    BY <1>1 DEF GetJob, ReuseRow
  <2>2. mem' \in Memories
        /\ \A k \in Instances, l \in Jobs : mem'[k][l] = IF k = i /\ l = j THEN db[j] ELSE mem[k][l]
    <3>1. PICK r \in Record : r = db[j]
      BY <1>0
    <3>2. mem' = [mem EXCEPT ![i][j] = r]
      BY <2>1, <3>1
    <3>3. /\ mem' \in Memories
          /\ \A k \in Instances, l \in Jobs :
                mem'[k][l] = IF k = i /\ l = j THEN r ELSE mem[k][l]
      <4>1. mem \in Memories
        BY <1>0
      <4>. QED
        BY <3>2, <4>1, MemoryFacts
    <3>. QED
      BY <3>1, <3>3
  <2>3. TypeOK'
    BY <2>1, <2>2 DEF IInv, Typed, TypeOK, Memories
  <2>4. Busy'
    BY <2>1 DEF IInv, Typed, Busy, BusyThread, BusyRequest, Snapped
  <2>5. PubRecord'
    BY <2>1, <2>2 DEF IInv, Published, PubRow, PubRecord
  <2>6. PubRow' /\ PubSnap' /\ PubThread' /\ PubRequest' /\ PubTodo'
    BY <2>1 DEF IInv, Published, PubRow, PubSnap, PubThread, PubRequest, PubTodo
  <2>. QED
    BY <2>3, <2>4, <2>5, <2>6 DEF IInv, Typed, Published
<1>2. ASSUME NEW j \in Jobs, LeaseExpires(j) PROVE IInv'
  <2>1. /\ db' = [db EXCEPT ![j].fresh = FALSE]
        /\ mem' = [i \in Instances |-> [mem[i] EXCEPT ![j].fresh = FALSE]]
        /\ UNCHANGED <<run, queue, inst, todo, worker, request, applied, claims, faults>>
    BY <1>2 DEF LeaseExpires
  <2>2. ASSUME NEW f \in [Jobs -> Record]
        PROVE  /\ [f EXCEPT ![j].fresh = FALSE] \in [Jobs -> Record]
               /\ \A k \in Jobs : [f EXCEPT ![j].fresh = FALSE][k].status = f[k].status
    <3>1. PICK r \in Record : r = f[j]
      OBVIOUS
    <3>. DEFINE q == [r EXCEPT !.fresh = FALSE]
    <3>2. q \in Record /\ q.status = r.status
      BY DEF Record
    <3>3. [f EXCEPT ![j].fresh = FALSE] = [f EXCEPT ![j] = q]
      BY <3>1
    <3>. HIDE DEF q
    <3>. QED
      BY <3>1, <3>2, <3>3
  <2>3. db' \in [Jobs -> Record] /\ \A k \in Jobs : db'[k].status = db[k].status
    BY <1>0, <2>1, <2>2
  <2>4. mem' \in Memories
        /\ \A i \in Instances, k \in Jobs : mem'[i][k].status = mem[i][k].status
    BY <1>0, <2>1, <2>2 DEF Memories
  <2>5. TypeOK'
    BY <2>1, <2>3, <2>4 DEF IInv, Typed, TypeOK, Memories
  <2>6. Busy'
    BY <2>1 DEF IInv, Typed, Busy, BusyThread, BusyRequest, Snapped
  <2>7. PubRow' /\ PubRecord'
    BY <2>1, <2>3, <2>4 DEF IInv, Published, PubRow, PubRecord
  <2>8. PubSnap' /\ PubThread' /\ PubRequest' /\ PubTodo'
    BY <2>1 DEF IInv, Published, PubSnap, PubThread, PubRequest, PubTodo
  <2>. QED
    BY <2>5, <2>6, <2>7, <2>8 DEF IInv, Typed, Published
<1>3. ASSUME NEW r \in Runs, Supersede(r) PROVE IInv'
  <2>1. UNCHANGED <<mem, queue, inst, todo, worker, request, applied, claims, faults>>
    BY <1>3 DEF Supersede
  <2>2. run' \in [Runs -> Run]
    <3>1. run[r] \in Run
      BY <1>0
    <3>. DEFINE p == [job |-> run[r].job, active |-> FALSE,
                      status |-> IF run[r].status \in {"queued", "running", "completed"}
                                 THEN "superseded" ELSE run[r].status]
    <3>2. p \in Run
      BY <3>1 DEF Run, RunStatus
    <3>3. run' = [run EXCEPT ![r] = p]
      BY <1>3 DEF Supersede
    <3>. HIDE DEF p
    <3>. QED
      BY <1>0, <3>2, <3>3
  <2>3. db' \in [Jobs -> Record] /\ \A k \in Jobs : db'[k].status = db[k].status
    <3>1. ASSUME NEW q \in Record
          PROVE [q EXCEPT !.cancel = TRUE] \in Record /\ [q EXCEPT !.cancel = TRUE].status = q.status
      BY DEF Record
    <3>2. ASSUME NEW k \in Jobs PROVE db'[k] \in Record /\ db'[k].status = db[k].status
      <4>1. PICK q \in Record : q = db[k]
        BY <1>0
      <4>2. db'[k] = q \/ db'[k] = [q EXCEPT !.cancel = TRUE]
        BY <1>3, <4>1 DEF Supersede
      <4>. QED
        BY <3>1, <4>1, <4>2
    <3>. QED
      BY <1>3, <3>2 DEF Supersede
  <2>4. TypeOK'
    BY <2>1, <2>2, <2>3 DEF IInv, Typed, TypeOK
  <2>5. Busy'
    BY <2>1 DEF IInv, Typed, Busy, BusyThread, BusyRequest, Snapped
  <2>6. PubRow'
    BY <2>1, <2>3 DEF IInv, Published, PubRow
  <2>7. PubRecord' /\ PubSnap' /\ PubThread' /\ PubRequest' /\ PubTodo'
    BY <2>1 DEF IInv, Published, PubRecord, PubSnap, PubThread, PubRequest, PubTodo
  <2>. QED
    BY <2>4, <2>5, <2>6, <2>7 DEF IInv, Typed, Published
<1>. QED
  BY <1>1, <1>2, <1>3

-----------------------------------------------------------------------------
LEMMA InitHolds == Init => IInv
<1>. SUFFICES ASSUME Init PROVE IInv
  OBVIOUS
<1>1. /\ Blank("absent") \in Record /\ Blank("absent").status = "absent"
      /\ IdleThread \in Thread /\ IdleThread.pc = "idle"
      /\ IdleThread.snap.status = "absent"
      /\ IdleRequest \in Request /\ IdleRequest.pc = "idle"
      /\ IdleRequest.snap.status = "absent"
  BY BlankType, IdleTypes DEF Blank, Status, IdleThread, IdleRequest
<1>2. \A r \in Runs : run[r] \in Run
  BY DEF Init, Run, RunStatus
<1>3. TypeOK
  <2>1. db \in [Jobs -> Record] /\ mem \in [Instances -> [Jobs -> Record]]
    BY <1>1 DEF Init
  <2>2. run \in [Runs -> Run]
    BY <1>2 DEF Init
  <2>3. queue \in [Instances -> Seq(Jobs)]
    BY DEF Init
  <2>4. /\ inst \in [Instances -> {"new", "restoring", "up", "down"}]
        /\ todo \in [Instances -> SUBSET (Jobs \X Record)]
    BY DEF Init
  <2>5. /\ worker \in [Instances -> [Workers -> Thread]]
        /\ request \in [Clients -> Request]
    BY <1>1 DEF Init
  <2>6. applied \in [Jobs -> Nat] /\ claims \in [Jobs -> Nat] /\ faults \in Nat
    BY DEF Init
  <2>. QED
    BY <2>1, <2>2, <2>3, <2>4, <2>5, <2>6 DEF TypeOK
<1>4. Busy
  BY <1>1 DEF Init, Busy, BusyThread, BusyRequest, Snapped
<1>5. Published
  BY <1>1 DEF Init, Published, PubRow, PubRecord, PubSnap, PubThread, PubRequest, PubTodo
<1>. QED
  BY <1>3, <1>4, <1>5 DEF IInv, Typed

LEMMA StepKeeps == IInv /\ [Next]_vars => IInv'
<1>. SUFFICES ASSUME IInv, [Next]_vars PROVE IInv'
  OBVIOUS
<1>1. CASE Next
  BY <1>1, ClientKeeps, WorkerKeeps, InstanceKeeps, OutsideKeeps DEF Next
<1>2. CASE UNCHANGED vars
  BY <1>2 DEF vars, IInv, Typed, TypeOK, Busy, BusyThread, BusyRequest, Snapped,
              Published, PubRow, PubRecord, PubSnap, PubThread, PubRequest, PubTodo
<1>. QED
  BY <1>1, <1>2

LEMMA Invariance == Spec => []IInv
BY InitHolds, StepKeeps, PTL DEF Spec

(* Every variable keeps its type, whatever happens. *)
THEOREM TypeCorrect == Spec => []TypeOK
<1>1. IInv => TypeOK
  BY DEF IInv, Typed
<1>. QED
  BY <1>1, Invariance, PTL

(* No copy of a job, in any table, memory or thread of any process, ever   *)
(* says that the job completed unless its result was published: for every  *)
(* number of processes that start, share the table and die, of threads     *)
(* and of failing database operations.                                     *)
THEOREM CompletedOnlyIfPublished == Spec => []CompletedIsPublished
<1>1. IInv => CompletedIsPublished
  <2>. SUFFICES ASSUME IInv, NEW j \in Jobs, NEW r \in Copies(j), r.status = "completed"
                PROVE  applied[j] > 0
    BY DEF CompletedIsPublished
  <2>1. CASE r = db[j]
    BY <2>1 DEF IInv, Published, PubRow
  <2>2. CASE \E i \in Instances : r = mem[i][j]
    BY <2>2 DEF IInv, Published, PubRecord
  <2>3. CASE \E i \in Instances, w \in Workers : worker[i][w].job = j /\ r = worker[i][w].snap
    BY <2>3 DEF IInv, Published, PubSnap
  <2>4. CASE \E c \in Clients : request[c].job = j /\ r = request[c].snap
    BY <2>4 DEF IInv, Published, PubRequest
  <2>5. CASE \E i \in Instances : \E e \in todo[i] : r = e[2]
    BY <2>5 DEF IInv, Published, PubTodo
  <2>6. CASE r \in UNION {{worker[i][w].snap : w \in {v \in Workers : worker[i][v].job = j}} :
                             i \in Instances}
    BY <2>3, <2>6
  <2>7. CASE r \in {e[2] : e \in {x \in UNION {todo[i] : i \in Instances} : x[1] = j}}
    BY <2>5, <2>7
  <2>8. CASE r \in {mem[i][j] : i \in Instances}
    BY <2>2, <2>8
  <2>9. CASE r \in {request[c].snap : c \in {d \in Clients : request[d].job = j}}
    BY <2>4, <2>9
  <2>. QED
    BY <2>1, <2>6, <2>7, <2>8, <2>9 DEF Copies
<1>. QED
  BY <1>1, Invariance, PTL
=============================================================================
