------------------------------ MODULE JobSteps ------------------------------
(***************************************************************************)
(* What each action of JobManager does, said copy by copy of a job: the    *)
(* record, the row, the thread and the request that change and the fields  *)
(* they change to.  The proofs use these lemmas instead of the nested      *)
(* updates of the actions.                                                 *)
(*                                                                         *)
(* The first of them: in each instance a job is in the queue, with one     *)
(* thread or with one request that hands it over, and its record says      *)
(* where (TInv), so that a handler always finds the record it claimed.     *)
(***************************************************************************)
EXTENDS JobManagerProofs

(* The only record, row, thread or request that changes, and its new value. *)
MemIs(i, j, r) ==
    \A k \in Instances, l \in Jobs : mem'[k][l] = IF k = i /\ l = j THEN r ELSE mem[k][l]
RowIs(j, r) == \A l \in Jobs : db'[l] = IF l = j THEN r ELSE db[l]
ThreadIs(i, w, pc, j, s) ==
    \A k \in Instances, v \in Workers :
        /\ worker'[k][v].pc = IF k = i /\ v = w THEN pc ELSE worker[k][v].pc
        /\ worker'[k][v].job = IF k = i /\ v = w THEN j ELSE worker[k][v].job
        /\ worker'[k][v].snap = IF k = i /\ v = w THEN s ELSE worker[k][v].snap
RequestIs(c, pc, i, j, s) ==
    \A d \in Clients :
        /\ request'[d].pc = IF d = c THEN pc ELSE request[d].pc
        /\ request'[d].at = IF d = c THEN i ELSE request[d].at
        /\ request'[d].job = IF d = c THEN j ELSE request[d].job
        /\ request'[d].snap = IF d = c THEN s ELSE request[d].snap

(* The fields of a record that decide what happens to its job. *)
Fields(r, status, cancel, retry, owner, fresh) ==
    /\ r.status = status /\ r.cancel = cancel /\ r.retry = retry
    /\ r.owner = owner /\ r.fresh = fresh

(* The row that instance i stores for snapshot s. *)
IsStored(i, s, r) ==
    /\ r.status = s.status /\ r.cancel = s.cancel /\ r.retry = s.retry
    /\ s.status = "running" =>
          /\ r.owner = IF s.owner = None THEN i ELSE s.owner
          /\ r.fresh = (s.owner \in {None, i} \/ s.fresh)
    /\ s.status = "queued" => r.owner = s.owner /\ r.fresh = s.fresh
    /\ s.status \notin Active => r.owner = None /\ ~r.fresh

(* A database operation that fails. *)
Failing == faults < MaxFaults

(* The jobs in the queue of an instance, and that none is in it twice. *)
Queued(i) == {queue[i][n] : n \in 1..Len(queue[i])}
Distinct(q) == \A m, n \in 1..Len(q) : q[m] = q[n] => m = n

-----------------------------------------------------------------------------
(* Records.                                                                *)

LEMMA AllTypes ==
    ASSUME IInv
    PROVE  /\ db \in [Jobs -> Record] /\ mem \in Memories /\ worker \in Threads
           /\ run \in [Runs -> Run] /\ queue \in [Instances -> Seq(Jobs)]
           /\ inst \in [Instances -> {"new", "restoring", "up", "down"}]
           /\ todo \in [Instances -> SUBSET (Jobs \X Record)]
           /\ request \in [Clients -> Request]
           /\ applied \in [Jobs -> Nat] /\ claims \in [Jobs -> Nat] /\ faults \in Nat
BY DEF IInv, Typed, TypeOK, Memories, Threads

LEMMA BusyTypes ==
    ASSUME IInv
    PROVE  /\ \A i \in Instances, w \in Workers :
                 /\ worker[i][w] \in Thread
                 /\ worker[i][w].pc # "idle" =>
                       worker[i][w].job \in Jobs /\ RecordOf(i, w) \in Record
           /\ \A c \in Clients :
                 /\ request[c] \in Request
                 /\ request[c].pc # "idle" =>
                       request[c].job \in Jobs /\ request[c].at \in Instances
BY DEF IInv, Typed, TypeOK, Busy, BusyThread, BusyRequest, Memories, Threads, RecordOf

LEMMA BlankFields ==
    ASSUME NEW s \in Status
    PROVE  Blank(s) \in Record /\ Fields(Blank(s), s, FALSE, 0, None, FALSE)
BY BlankType DEF Blank, Fields

LEMMA StoredFields ==
    ASSUME NEW i \in Instances, NEW s \in Record
    PROVE  Stored(i, s) \in Record /\ IsStored(i, s, Stored(i, s))
<1>. DEFINE o == CASE s.status = "running" -> (IF s.owner = None THEN i ELSE s.owner)
                   [] s.status = "queued" -> s.owner
                   [] OTHER -> None
            f == CASE s.status = "running" -> s.owner \in {None, i} \/ s.fresh
                   [] s.status = "queued" -> s.fresh
                   [] OTHER -> FALSE
<1>1. Stored(i, s) = [s EXCEPT !.owner = o, !.fresh = f, !.path = s.artifact]
  BY DEF Stored
<1>2. s.status = "running" => o = (IF s.owner = None THEN i ELSE s.owner)
                              /\ f = (s.owner \in {None, i} \/ s.fresh)
  OBVIOUS
<1>3. s.status = "queued" => o = s.owner /\ f = s.fresh
  OBVIOUS
<1>4. s.status \notin Active => o = None /\ f = FALSE
  BY DEF Active
<1>5. Stored(i, s) \in Record
  BY StoredType
<1>. HIDE DEF o, f
<1>6. /\ Stored(i, s).status = s.status /\ Stored(i, s).cancel = s.cancel
      /\ Stored(i, s).retry = s.retry
      /\ Stored(i, s).owner = o /\ Stored(i, s).fresh = f
  BY <1>1 DEF Record
<1>. QED
  BY <1>2, <1>3, <1>4, <1>5, <1>6 DEF IsStored

LEMMA PersistStep ==
    ASSUME IInv, NEW i \in Instances, NEW j \in Jobs, NEW s \in Record, Persist(i, j, s)
    PROVE  \/ UNCHANGED faults /\ \E r \in Record : RowIs(j, r) /\ IsStored(i, s, r)
           \/ Failing /\ UNCHANGED db
<1>1. CASE db' = [db EXCEPT ![j] = Stored(i, s)] /\ UNCHANGED faults
  <2>1. Stored(i, s) \in Record /\ IsStored(i, s, Stored(i, s))
    BY StoredFields
  <2>2. RowIs(j, Stored(i, s))
    BY <1>1, AllTypes DEF RowIs
  <2>. QED
    BY <1>1, <2>1, <2>2
<1>. QED
  BY <1>1 DEF Persist, Fault, Failing

LEMMA MemStep ==
    ASSUME IInv, NEW i \in Instances, NEW j \in Jobs, NEW r, mem' = [mem EXCEPT ![i][j] = r]
    PROVE  MemIs(i, j, r)
<1>1. mem \in [Instances -> [Jobs -> Record]]
  BY AllTypes DEF Memories
<1>. QED
  BY <1>1 DEF MemIs

LEMMA RowStep ==
    ASSUME IInv, NEW j \in Jobs, NEW r, db' = [db EXCEPT ![j] = r]
    PROVE  RowIs(j, r)
BY AllTypes DEF RowIs

LEMMA IdleFields ==
    /\ IdleThread.pc = "idle" /\ IdleThread.job = None /\ IdleThread.snap = Blank("absent")
    /\ IdleRequest.pc = "idle" /\ IdleRequest.at = None /\ IdleRequest.job = None
    /\ IdleRequest.snap = Blank("absent") /\ IdleRequest \in Request
BY IdleTypes DEF IdleThread, IdleRequest

LEMMA RequestStep ==
    ASSUME IInv, NEW c \in Clients, NEW pc, NEW i, NEW j, NEW u, u \in Request,
           u.pc = pc, u.at = i, u.job = j, request' = [request EXCEPT ![c] = u]
    PROVE  RequestIs(c, pc, i, j, u.snap)
BY AllTypes DEF RequestIs

LEMMA QueueAppend ==
    ASSUME IInv, NEW i \in Instances, NEW j \in Jobs, queue' = [queue EXCEPT ![i] = Append(@, j)]
    PROVE  /\ \A k \in Instances : Queued(k)' = IF k = i THEN Queued(i) \cup {j} ELSE Queued(k)
           /\ \A k \in Instances :
                 Distinct(queue[k]) /\ (k = i => j \notin Queued(i)) => Distinct(queue'[k])
<1>. DEFINE q == queue[i]
<1>1. q \in Seq(Jobs) /\ queue \in [Instances -> Seq(Jobs)]
  BY AllTypes
<1>2. /\ queue' = [queue EXCEPT ![i] = Append(q, j)]
      /\ \A k \in Instances : queue'[k] = IF k = i THEN Append(q, j) ELSE queue[k]
  BY <1>1
<1>3. Queued(i) = {q[n] : n \in 1..Len(q)}
  BY DEF Queued
<1>. HIDE DEF q
<1>4. /\ Len(q) \in Nat /\ Len(Append(q, j)) = Len(q) + 1
      /\ Append(q, j)[Len(q) + 1] = j
      /\ \A n \in 1..Len(q) : Append(q, j)[n] = q[n]
  BY <1>1
<1>5. {Append(q, j)[n] : n \in 1..Len(Append(q, j))} = {q[n] : n \in 1..Len(q)} \cup {j}
  <2>1. 1..Len(Append(q, j)) = 1..Len(q) \cup {Len(q) + 1}
    BY <1>4
  <2>. QED
    BY <1>4, <2>1
<1>6. Distinct(q) /\ j \notin Queued(i) => Distinct(Append(q, j))
  <2>1. \A n \in 1..Len(q) + 1 : n \in 1..Len(q) \/ n = Len(q) + 1
    BY <1>4
  <2>2. j \notin Queued(i) => \A n \in 1..Len(q) : q[n] # j
    BY <1>3
  <2>. QED
    BY <1>4, <2>1, <2>2 DEF Distinct
<1>7. \A k \in Instances : Queued(k)' = {queue'[k][n] : n \in 1..Len(queue'[k])}
  BY DEF Queued
<1>8. \A k \in Instances : k # i => Queued(k)' = Queued(k)
  BY <1>2 DEF Queued
<1>9. Queued(i)' = Queued(i) \cup {j}
  <2>1. Queued(i)' = {queue'[i][n] : n \in 1..Len(queue'[i])} /\ queue'[i] = Append(q, j)
    BY <1>2, <1>7
  <2>. QED
    BY <1>3, <1>5, <2>1
<1>10. Distinct(queue[i]) = Distinct(q)
  BY DEF q
<1>11. \A k \in Instances : k # i => queue'[k] = queue[k]
  BY <1>2
<1>. QED
  BY <1>2, <1>6, <1>8, <1>9, <1>10, <1>11

LEMMA QueueTail ==
    ASSUME IInv, NEW i \in Instances, queue[i] # <<>>, queue' = [queue EXCEPT ![i] = Tail(@)],
           Distinct(queue[i])
    PROVE  /\ Head(queue[i]) \in Queued(i)
           /\ \A k \in Instances :
                 Queued(k)' = IF k = i THEN Queued(i) \ {Head(queue[i])} ELSE Queued(k)
           /\ \A k \in Instances : Distinct(queue[k]) => Distinct(queue'[k])
<1>. DEFINE q == queue[i]
<1>1. q \in Seq(Jobs) /\ queue \in [Instances -> Seq(Jobs)] /\ q # <<>>
  BY AllTypes
<1>2. /\ queue' = [queue EXCEPT ![i] = Tail(q)]
      /\ \A k \in Instances : queue'[k] = IF k = i THEN Tail(q) ELSE queue[k]
  BY <1>1
<1>3. Queued(i) = {q[n] : n \in 1..Len(q)} /\ Distinct(q)
  BY DEF Queued
<1>. HIDE DEF q
<1>4. /\ Len(q) \in Nat \ {0} /\ Len(Tail(q)) = Len(q) - 1 /\ Head(q) = q[1]
      /\ \A n \in 1..Len(q) - 1 : Tail(q)[n] = q[n + 1]
  BY <1>1
<1>5. {Tail(q)[n] : n \in 1..Len(Tail(q))} = {q[n] : n \in 1..Len(q)} \ {q[1]}
  <2>1. ASSUME NEW n \in 1..Len(q) - 1
        PROVE  q[n + 1] # q[1] /\ n + 1 \in 1..Len(q)
    BY <1>3, <1>4 DEF Distinct
  <2>2. ASSUME NEW m \in 1..Len(q), q[m] # q[1]
        PROVE  m - 1 \in 1..Len(q) - 1 /\ Tail(q)[m - 1] = q[m]
    BY <1>4, <2>2
  <2>. QED
    BY <1>4, <2>1, <2>2
<1>6. Distinct(Tail(q))
  <2>. SUFFICES ASSUME NEW m \in 1..Len(q) - 1, NEW n \in 1..Len(q) - 1, q[m + 1] = q[n + 1]
                PROVE  m = n
    BY <1>4 DEF Distinct
  <2>1. m + 1 \in 1..Len(q) /\ n + 1 \in 1..Len(q)
    BY <1>4
  <2>. QED
    BY <1>3, <1>4, <2>1 DEF Distinct
<1>7. \A k \in Instances : Queued(k)' = {queue'[k][n] : n \in 1..Len(queue'[k])}
  BY DEF Queued
<1>8. \A k \in Instances : k # i => Queued(k)' = Queued(k)
  BY <1>2 DEF Queued
<1>9. q[1] \in {q[n] : n \in 1..Len(q)}
  BY <1>4
<1>10. Queued(i)' = Queued(i) \ {q[1]}
  <2>1. Queued(i)' = {queue'[i][n] : n \in 1..Len(queue'[i])} /\ queue'[i] = Tail(q)
    BY <1>2, <1>7
  <2>2. Queued(i)' = {Tail(q)[n] : n \in 1..Len(Tail(q))}
    BY <2>1
  <2>. QED
    BY <1>3, <1>5, <2>2, Zenon
<1>11. Head(queue[i]) = q[1]
  BY <1>4 DEF q
<1>12. \A k \in Instances : k # i => queue'[k] = queue[k]
  BY <1>2
<1>. QED
  BY <1>2, <1>3, <1>6, <1>8, <1>9, <1>10, <1>11, <1>12
-----------------------------------------------------------------------------
(* Requests.                                                               *)

LEMMA SubmitStep ==
    ASSUME IInv, NEW c \in Clients, NEW i \in Instances, NEW j \in Jobs, Submit(c, i, j)
    PROVE  /\ inst[i] = "up" /\ request[c].pc = "idle"
           /\ db[j].status = "absent" /\ \A k \in Instances : mem[k][j].status = "absent"
           /\ \E r, s \in Record :
                 /\ MemIs(i, j, r) /\ Fields(r, "queued", FALSE, 0, None, FALSE)
                 /\ RowIs(j, s) /\ Fields(s, "queued", FALSE, 0, None, FALSE)
           /\ \E pc \in {"accepted", "attached"} :
                 /\ RequestIs(c, pc, i, j, Blank("absent"))
                 /\ pc = "accepted" <=> Kind[j] = "project_run"
           /\ UNCHANGED <<run, queue, inst, todo, worker, applied, claims, faults>>
<1>. DEFINE q == Blank("queued")
            pc == IF Kind[j] = "project_run" THEN "accepted" ELSE "attached"
            u == [IdleRequest EXCEPT !.pc = pc, !.at = i, !.job = j]
<1>1. q \in Record /\ Fields(q, "queued", FALSE, 0, None, FALSE)
  BY BlankFields DEF Status, Active
<1>2. mem' = [mem EXCEPT ![i][j] = q] /\ db' = [db EXCEPT ![j] = Stored(i, q)]
      /\ request' = [request EXCEPT ![c] = u]
  BY DEF Submit
<1>3. u \in Request /\ u.pc = pc /\ u.at = i /\ u.job = j /\ u.snap = Blank("absent")
  BY IdleFields DEF Request, RequestPC
<1>. HIDE DEF q, u, pc
<1>4. RequestIs(c, pc, i, j, Blank("absent"))
  BY <1>2, <1>3, RequestStep
<1>5. MemIs(i, j, q) /\ RowIs(j, Stored(i, q))
  BY <1>2, MemStep, RowStep
<1>6. Stored(i, q) \in Record /\ Fields(Stored(i, q), "queued", FALSE, 0, None, FALSE)
  BY <1>1, StoredFields DEF Fields, IsStored
<1>7. /\ inst[i] = "up" /\ request[c].pc = "idle"
      /\ db[j].status = "absent" /\ \A k \in Instances : mem[k][j].status = "absent"
      /\ UNCHANGED <<run, queue, inst, todo, worker, applied, claims, faults>>
  BY DEF Submit, Submittable, LockFree
<1>8. pc \in {"accepted", "attached"} /\ (pc = "accepted" <=> Kind[j] = "project_run")
  BY DEF pc
<1>. QED
  BY <1>1, <1>4, <1>5, <1>6, <1>7, <1>8

LEMMA AttachRunStep ==
    ASSUME IInv, NEW c \in Clients, AttachRun(c)
    PROVE  /\ request[c].pc = "accepted" /\ request[c].job \in Jobs /\ request[c].at \in Instances
           /\ RequestIs(c, "attached", request[c].at, request[c].job, request[c].snap)
           /\ \A r \in Runs :
                 run'[r] = IF r = RunOf[request[c].job]
                           THEN [run[r] EXCEPT !.job = request[c].job, !.status = "queued"]
                           ELSE run[r]
           /\ UNCHANGED <<db, mem, queue, inst, todo, worker, applied, claims, faults>>
<1>1. PICK u \in Request : u = request[c]
  BY BusyTypes
<1>2. u.job \in Jobs /\ u.at \in Instances /\ u.pc = "accepted"
  BY <1>1, BusyTypes DEF AttachRun
<1>. DEFINE v == [u EXCEPT !.pc = "attached"]
<1>3. v \in Request /\ v.pc = "attached" /\ v.at = u.at /\ v.job = u.job /\ v.snap = u.snap
  BY DEF Request, RequestPC
<1>4. request' = [request EXCEPT ![c] = v]
  BY <1>1 DEF AttachRun
<1>. HIDE DEF v
<1>5. RequestIs(c, "attached", u.at, u.job, u.snap)
  BY <1>3, <1>4, RequestStep
<1>6. \A r \in Runs : run'[r] = IF r = RunOf[u.job]
                                THEN [run[r] EXCEPT !.job = u.job, !.status = "queued"]
                                ELSE run[r]
  BY <1>1, <1>2, AllTypes, JobManagerAssumption DEF AttachRun
<1>7. UNCHANGED <<db, mem, queue, inst, todo, worker, applied, claims, faults>>
  BY DEF AttachRun
<1>. QED
  BY <1>1, <1>2, <1>5, <1>6, <1>7

LEMMA AttachFailsStep ==
    ASSUME IInv, NEW c \in Clients, AttachFails(c)
    PROVE  LET i == request[c].at  j == request[c].job IN
           /\ request[c].pc = "accepted" /\ j \in Jobs /\ i \in Instances /\ Failing
           /\ \E r, s \in Record :
                 /\ MemIs(i, j, r)
                 /\ Fields(r, "failed", mem[i][j].cancel, mem[i][j].retry, mem[i][j].owner, mem[i][j].fresh)
                 /\ RowIs(j, s) /\ (IsStored(i, r, s) \/ s = db[j])
           /\ RequestIs(c, "idle", None, None, Blank("absent"))
           /\ UNCHANGED <<queue, inst, todo, worker, applied, claims>>
<1>. DEFINE i == request[c].at
            j == request[c].job
<1>1. request[c].pc = "accepted" /\ i \in Instances /\ j \in Jobs
  BY BusyTypes DEF AttachFails
<1>2. PICK r \in Record : r = mem[i][j]
  BY <1>1, AllTypes DEF Memories
<1>. DEFINE q == [r EXCEPT !.status = "failed"]
<1>3. q \in Record /\ Fields(q, "failed", r.cancel, r.retry, r.owner, r.fresh)
  BY DEF Record, Status, Terminal, Fields
<1>4. mem' = [mem EXCEPT ![i][j] = q] /\ (db' = [db EXCEPT ![j] = Stored(i, mem'[i][j])] \/ UNCHANGED db)
  BY <1>2 DEF AttachFails
<1>. HIDE DEF q
<1>5. MemIs(i, j, q)
  BY <1>1, <1>4, MemStep
<1>6. RowIs(j, Stored(i, q)) \/ RowIs(j, db[j])
  <2>1. mem'[i][j] = q
    BY <1>1, <1>5 DEF MemIs
  <2>2. CASE UNCHANGED db
    BY <2>2 DEF RowIs
  <2>3. CASE db' = [db EXCEPT ![j] = Stored(i, mem'[i][j])]
    BY <1>1, <2>1, <2>3, RowStep
  <2>. QED
    BY <1>4, <2>2, <2>3
<1>7. Stored(i, q) \in Record /\ IsStored(i, q, Stored(i, q)) /\ db[j] \in Record
  BY <1>1, <1>3, StoredFields, AllTypes
<1>8. RequestIs(c, "idle", None, None, Blank("absent"))
  <2>1. request' = [request EXCEPT ![c] = IdleRequest]
    BY DEF AttachFails
  <2>. QED
    BY <2>1, IdleFields, RequestStep
<1>9. /\ Failing
      /\ UNCHANGED <<queue, inst, todo, worker, applied, claims>>
  BY DEF AttachFails, Fault, Failing
<1>. QED
  BY <1>1, <1>2, <1>3, <1>5, <1>6, <1>7, <1>8, <1>9

LEMMA EnqueueStep ==
    ASSUME IInv, NEW c \in Clients, Enqueue(c)
    PROVE  LET i == request[c].at  j == request[c].job IN
           /\ request[c].pc = "attached" /\ j \in Jobs /\ i \in Instances
           /\ RequestIs(c, "idle", None, None, Blank("absent"))
           /\ \A k \in Instances : Queued(k)' = IF k = i THEN Queued(i) \cup {j} ELSE Queued(k)
           /\ \A k \in Instances :
                 Distinct(queue[k]) /\ (k = i => j \notin Queued(i)) => Distinct(queue'[k])
           /\ UNCHANGED <<db, run, mem, inst, todo, worker, applied, claims, faults>>
<1>1. request[c].pc = "attached" /\ request[c].at \in Instances /\ request[c].job \in Jobs
  BY BusyTypes DEF Enqueue
<1>2. queue' = [queue EXCEPT ![request[c].at] = Append(@, request[c].job)]
      /\ request' = [request EXCEPT ![c] = IdleRequest]
      /\ UNCHANGED <<db, run, mem, inst, todo, worker, applied, claims, faults>>
  BY DEF Enqueue
<1>3. RequestIs(c, "idle", None, None, Blank("absent"))
  BY <1>2, IdleFields, RequestStep
<1>. QED
  BY <1>1, <1>2, <1>3, QueueAppend

LEMMA CancelStep ==
    ASSUME IInv, NEW c \in Clients, NEW i \in Instances, NEW j \in Jobs, Cancel(c, i, j)
    PROVE  /\ inst[i] = "up" /\ request[c].pc = "idle" /\ KnownRecord(i, j).status \in Active
           /\ KnownRecord(i, j) \in Record
           /\ \E r \in Record :
                 /\ MemIs(i, j, r)
                 /\ Fields(r, KnownRecord(i, j).status, TRUE, KnownRecord(i, j).retry,
                              KnownRecord(i, j).owner, KnownRecord(i, j).fresh)
           /\ RequestIs(c, "flagged", i, j, Blank("absent"))
           /\ UNCHANGED <<db, run, queue, inst, todo, worker, applied, claims, faults>>
<1>1. PICK k \in Record : k = KnownRecord(i, j)
  BY AllTypes DEF KnownRecord, Memories
<1>. DEFINE q == [k EXCEPT !.cancel = TRUE]
            u == [IdleRequest EXCEPT !.pc = "flagged", !.at = i, !.job = j]
<1>2. q \in Record /\ Fields(q, k.status, TRUE, k.retry, k.owner, k.fresh)
  BY DEF Record, Fields
<1>3. mem' = [mem EXCEPT ![i][j] = q] /\ request' = [request EXCEPT ![c] = u]
  BY <1>1 DEF Cancel
<1>4. u \in Request /\ u.pc = "flagged" /\ u.at = i /\ u.job = j /\ u.snap = Blank("absent")
  BY IdleFields DEF Request, RequestPC
<1>. HIDE DEF q, u
<1>5. MemIs(i, j, q) /\ RequestIs(c, "flagged", i, j, Blank("absent"))
  BY <1>3, <1>4, MemStep, RequestStep
<1>6. /\ inst[i] = "up" /\ request[c].pc = "idle" /\ KnownRecord(i, j).status \in Active
      /\ UNCHANGED <<db, run, queue, inst, todo, worker, applied, claims, faults>>
  BY DEF Cancel, LockFree
<1>. QED
  BY <1>1, <1>2, <1>5, <1>6

LEMMA CancelTerminalStep ==
    ASSUME IInv, NEW c \in Clients, NEW i \in Instances, NEW j \in Jobs, CancelTerminal(c, i, j)
    PROVE  /\ inst[i] = "up" /\ request[c].pc = "idle" /\ KnownRecord(i, j).status \in Terminal
           /\ KnownRecord(i, j) \in Record
           /\ MemIs(i, j, KnownRecord(i, j))
           /\ RequestIs(c, "blocked", i, j, Blank("absent"))
           /\ UNCHANGED <<db, run, queue, inst, todo, worker, applied, claims, faults>>
<1>1. KnownRecord(i, j) \in Record
  BY AllTypes DEF KnownRecord, Memories
<1>. DEFINE u == [IdleRequest EXCEPT !.pc = "blocked", !.at = i, !.job = j]
<1>2. mem' = [mem EXCEPT ![i][j] = KnownRecord(i, j)] /\ request' = [request EXCEPT ![c] = u]
  BY DEF CancelTerminal
<1>3. u \in Request /\ u.pc = "blocked" /\ u.at = i /\ u.job = j /\ u.snap = Blank("absent")
  BY IdleFields DEF Request, RequestPC
<1>. HIDE DEF u
<1>4. MemIs(i, j, KnownRecord(i, j)) /\ RequestIs(c, "blocked", i, j, Blank("absent"))
  BY <1>2, <1>3, MemStep, RequestStep
<1>5. /\ inst[i] = "up" /\ request[c].pc = "idle" /\ KnownRecord(i, j).status \in Terminal
      /\ UNCHANGED <<db, run, queue, inst, todo, worker, applied, claims, faults>>
  BY DEF CancelTerminal, LockFree
<1>. QED
  BY <1>1, <1>4, <1>5

LEMMA SnapCancelStep ==
    ASSUME IInv, NEW c \in Clients, SnapCancel(c)
    PROVE  LET i == request[c].at  j == request[c].job IN
           /\ request[c].pc = "flagged" /\ j \in Jobs /\ i \in Instances /\ mem[i][j] \in Record
           /\ RequestIs(c, "snapped", i, j, mem[i][j])
           /\ UNCHANGED <<db, run, mem, queue, inst, todo, worker, applied, claims, faults>>
<1>1. PICK u \in Request : u = request[c]
  BY BusyTypes
<1>2. u.job \in Jobs /\ u.at \in Instances /\ u.pc = "flagged"
  BY <1>1, BusyTypes DEF SnapCancel
<1>3. PICK r \in Record : r = mem[u.at][u.job]
  BY <1>2, AllTypes DEF Memories
<1>. DEFINE v == [u EXCEPT !.pc = "snapped", !.snap = r]
<1>4. v \in Request /\ v.pc = "snapped" /\ v.at = u.at /\ v.job = u.job /\ v.snap = r
  BY DEF Request, RequestPC
<1>5. request' = [request EXCEPT ![c] = v]
  BY <1>1, <1>3 DEF SnapCancel
<1>. HIDE DEF v
<1>6. RequestIs(c, "snapped", u.at, u.job, r)
  BY <1>4, <1>5, RequestStep
<1>7. UNCHANGED <<db, run, mem, queue, inst, todo, worker, applied, claims, faults>>
  BY DEF SnapCancel
<1>. QED
  BY <1>1, <1>2, <1>3, <1>6, <1>7

LEMMA PersistCancelStep ==
    ASSUME IInv, NEW c \in Clients, PersistCancel(c)
    PROVE  LET i == request[c].at  j == request[c].job  s == request[c].snap IN
           /\ request[c].pc = "snapped" /\ j \in Jobs /\ i \in Instances /\ s \in Record
           /\ \/ UNCHANGED faults /\ \E r \in Record : RowIs(j, r) /\ IsStored(i, s, r)
              \/ Failing /\ UNCHANGED db
           /\ RequestIs(c, "idle", None, None, Blank("absent"))
           /\ UNCHANGED <<run, mem, queue, inst, todo, worker, applied, claims>>
<1>1. /\ request[c].pc = "snapped" /\ request[c].at \in Instances /\ request[c].job \in Jobs
      /\ request[c].snap \in Record
  BY BusyTypes DEF PersistCancel, Request
<1>2. /\ Persist(request[c].at, request[c].job, request[c].snap)
      /\ request' = [request EXCEPT ![c] = IdleRequest]
      /\ UNCHANGED <<run, mem, queue, inst, todo, worker, applied, claims>>
  BY DEF PersistCancel
<1>3. RequestIs(c, "idle", None, None, Blank("absent"))
  BY <1>2, IdleFields, RequestStep
<1>4. \/ UNCHANGED faults /\ \E r \in Record : RowIs(request[c].job, r)
                                           /\ IsStored(request[c].at, request[c].snap, r)
      \/ Failing /\ UNCHANGED db
  BY <1>1, <1>2, PersistStep
<1>. QED
  BY <1>1, <1>2, <1>3, <1>4

LEMMA ReadRowStep ==
    ASSUME IInv, NEW i \in Instances, NEW j \in Jobs, GetJob(i, j) \/ ReuseRow(i, j)
    PROVE  /\ inst[i] = "up" /\ MemIs(i, j, db[j]) /\ db[j] \in Record /\ db[j].status # "absent"
           /\ \/ mem[i][j].status = "absent"
              \/ /\ Repeatable(j) /\ mem[i][j].status \in {"failed", "cancelled"}
                 /\ db[j].status \in Active \cup {"completed"}
           /\ UNCHANGED <<db, run, queue, inst, todo, worker, request, applied, claims, faults>>
<1>1. mem' = [mem EXCEPT ![i][j] = db[j]]
  BY DEF GetJob, ReuseRow
<1>2. MemIs(i, j, db[j]) /\ db[j] \in Record
  BY <1>1, MemStep, AllTypes
<1>3. CASE GetJob(i, j)
  BY <1>2, <1>3 DEF GetJob, LockFree
<1>4. CASE ReuseRow(i, j)
  BY <1>2, <1>4 DEF ReuseRow, LockFree, Active
<1>. QED
  BY <1>3, <1>4

-----------------------------------------------------------------------------
(* Worker threads.                                                         *)

LEMMA MoveStep ==
    ASSUME IInv, NEW i \in Instances, NEW w \in Workers, NEW pc \in WorkerPC, Move(i, w, pc)
    PROVE  ThreadIs(i, w, pc, worker[i][w].job, worker[i][w].snap)
BY MoveFacts, AllTypes DEF ThreadIs

LEMMA ReportsStep ==
    ASSUME IInv, NEW i \in Instances, NEW w \in Workers, Reports(i, w)
    PROVE  ThreadIs(i, w, "entered", worker[i][w].job, worker[i][w].snap)
BY ReportsFacts, AllTypes DEF ThreadIs

LEMMA ResumeStep ==
    ASSUME IInv, NEW i \in Instances, NEW w \in Workers, NEW pc \in WorkerPC, Resume(i, w, pc)
    PROVE  ThreadIs(i, w, pc, worker[i][w].job, Blank("absent"))
BY ResumeFacts, AllTypes DEF ThreadIs

LEMMA RestStep ==
    ASSUME IInv, NEW i \in Instances, NEW w \in Workers, Rest(i, w)
    PROVE  ThreadIs(i, w, "idle", None, Blank("absent"))
BY RestFacts, AllTypes, IdleFields DEF ThreadIs

LEMMA UpdateStep ==
    ASSUME IInv, NEW i \in Instances, NEW w \in Workers, worker[i][w].pc # "idle",
           NEW rec \in Record, NEW pc \in WorkerPC, NEW left \in Nat, Update(i, w, rec, pc, left)
    PROVE  /\ inst[i] = "up"
           /\ MemIs(i, worker[i][w].job, rec)
           /\ ThreadIs(i, w, pc, worker[i][w].job, rec)
<1>1. worker[i][w].job \in Jobs
  BY BusyTypes
<1>2. worker \in Threads /\ mem \in Memories
  BY AllTypes
<1>. DEFINE j == worker[i][w].job
<1>3. /\ \A k \in Instances, l \in Jobs : mem'[k][l] = IF k = i /\ l = j THEN rec ELSE mem[k][l]
      /\ \A k \in Instances, v \in Workers :
            /\ worker'[k][v].job = worker[k][v].job
            /\ worker'[k][v].snap = IF k = i /\ v = w THEN rec ELSE worker[k][v].snap
            /\ worker'[k][v].pc = IF k = i /\ v = w THEN pc ELSE worker[k][v].pc
  BY <1>1, <1>2, UpdateFacts
<1>4. MemIs(i, j, rec)
  BY <1>3 DEF MemIs
<1>5. ThreadIs(i, w, pc, j, rec)
  BY <1>3 DEF ThreadIs
<1>6. inst[i] = "up"
  BY DEF Update, LockFree
<1>. QED
  BY <1>4, <1>5, <1>6

LEMMA TakeStep ==
    ASSUME IInv, NEW i \in Instances, NEW w \in Workers, Take(i, w), Distinct(queue[i])
    PROVE  LET j == Head(queue[i]) IN
           /\ inst[i] = "up" /\ worker[i][w].pc = "idle" /\ j \in Queued(i) /\ j \in Jobs
           /\ ThreadIs(i, w, "taken", j, Blank("absent"))
           /\ \A k \in Instances : Queued(k)' = IF k = i THEN Queued(i) \ {j} ELSE Queued(k)
           /\ \A k \in Instances : Distinct(queue[k]) => Distinct(queue'[k])
           /\ UNCHANGED <<db, run, mem, inst, todo, request, applied, claims, faults>>
<1>. DEFINE j == Head(queue[i])
<1>1. queue[i] # <<>> /\ j \in Jobs
  BY AllTypes DEF Take
<1>. DEFINE t == [IdleThread EXCEPT !.pc = "taken", !.job = j]
<1>2. t.pc = "taken" /\ t.job = j /\ t.snap = Blank("absent")
  BY IdleFields DEF IdleThread
<1>3. worker' = [worker EXCEPT ![i][w] = t]
  BY DEF Take
<1>. HIDE DEF t, j
<1>4. ThreadIs(i, w, "taken", j, Blank("absent"))
  <2>1. worker \in [Instances -> [Workers -> Thread]]
    BY AllTypes DEF Threads
  <2>2. \A k \in Instances, v \in Workers :
           worker'[k][v] = IF k = i /\ v = w THEN t ELSE worker[k][v]
    BY <1>3, <2>1
  <2>. QED
    BY <1>2, <2>2 DEF ThreadIs
<1>5. queue' = [queue EXCEPT ![i] = Tail(@)] /\ inst[i] = "up" /\ worker[i][w].pc = "idle"
      /\ UNCHANGED <<db, run, mem, inst, todo, request, applied, claims, faults>>
  BY DEF Take
<1>6. /\ Head(queue[i]) \in Queued(i)
      /\ \A k \in Instances :
            Queued(k)' = IF k = i THEN Queued(i) \ {Head(queue[i])} ELSE Queued(k)
      /\ \A k \in Instances : Distinct(queue[k]) => Distinct(queue'[k])
  BY <1>1, <1>5, QueueTail
<1>. QED
  BY <1>1, <1>4, <1>5, <1>6 DEF j

LEMMA ClaimStep ==
    ASSUME IInv, NEW i \in Instances, NEW w \in Workers, Claim(i, w)
    PROVE  LET j == worker[i][w].job IN
           /\ worker[i][w].pc = "taken" /\ j \in Jobs /\ Claimable(i, db[j])
           /\ \E r \in Record :
                 RowIs(j, r) /\ Fields(r, "running", db[j].cancel, db[j].retry, i, TRUE)
           /\ ThreadIs(i, w, "claimed", j, worker[i][w].snap)
           /\ \A l \in Jobs : claims'[l] = IF l = j THEN claims[j] + 1 ELSE claims[l]
           /\ UNCHANGED <<run, mem, queue, inst, todo, request, applied, faults>>
<1>. DEFINE j == worker[i][w].job
<1>1. worker[i][w].pc = "taken" /\ j \in Jobs
  BY BusyTypes DEF Claim
<1>2. PICK r \in Record : r = db[j]
  BY <1>1, AllTypes
<1>. DEFINE q == [r EXCEPT !.status = "running", !.owner = i, !.fresh = TRUE]
<1>3. q \in Record /\ Fields(q, "running", r.cancel, r.retry, i, TRUE)
  BY DEF Record, Status, Active, Fields
<1>4. db' = [db EXCEPT ![j] = q]
  BY <1>2 DEF Claim
<1>. HIDE DEF q
<1>5. RowIs(j, q)
  BY <1>1, <1>4, RowStep
<1>6. ThreadIs(i, w, "claimed", j, worker[i][w].snap)
  <2>1. Move(i, w, "claimed")
    BY DEF Claim
  <2>. QED
    BY <2>1, MoveStep DEF WorkerPC
<1>7. \A l \in Jobs : claims'[l] = IF l = j THEN claims[j] + 1 ELSE claims[l]
  BY <1>1, AllTypes DEF Claim
<1>8. Claimable(i, db[j]) /\ UNCHANGED <<run, mem, queue, inst, todo, request, applied, faults>>
  BY DEF Claim
<1>. QED
  BY <1>1, <1>2, <1>3, <1>5, <1>6, <1>7, <1>8

LEMMA ClaimLostStep ==
    ASSUME IInv, NEW i \in Instances, NEW w \in Workers, ClaimLost(i, w)
    PROVE  /\ worker[i][w].pc = "taken" /\ worker[i][w].job \in Jobs
           /\ ~Claimable(i, db[worker[i][w].job])
           /\ ThreadIs(i, w, "idle", None, Blank("absent"))
           /\ UNCHANGED <<db, run, mem, queue, inst, todo, request, applied, claims, faults>>
BY RestStep, BusyTypes DEF ClaimLost

LEMMA ClaimRecordStep ==
    ASSUME IInv, NEW i \in Instances, NEW w \in Workers, ClaimRecord(i, w)
    PROVE  LET j == worker[i][w].job IN
           /\ worker[i][w].pc = "claimed" /\ j \in Jobs /\ inst[i] = "up"
           /\ \E r \in Record :
                 /\ MemIs(i, j, r)
                 /\ Fields(r, "running", mem[i][j].cancel, mem[i][j].retry, i, TRUE)
           /\ ThreadIs(i, w, "begin", j, worker[i][w].snap)
           /\ UNCHANGED <<db, run, queue, inst, todo, request, applied, claims, faults>>
<1>. DEFINE j == worker[i][w].job
<1>1. worker[i][w].pc = "claimed" /\ j \in Jobs
  BY BusyTypes DEF ClaimRecord
<1>2. PICK r \in Record : r = mem[i][j]
  BY <1>1, AllTypes DEF Memories
<1>. DEFINE q == [r EXCEPT !.status = "running", !.owner = i, !.fresh = TRUE]
<1>3. q \in Record /\ Fields(q, "running", r.cancel, r.retry, i, TRUE)
  BY DEF Record, Status, Active, Fields
<1>4. mem' = [mem EXCEPT ![i][j] = q]
  BY <1>2 DEF ClaimRecord
<1>. HIDE DEF q
<1>5. MemIs(i, j, q)
  BY <1>1, <1>4, MemStep
<1>6. ThreadIs(i, w, "begin", j, worker[i][w].snap)
  <2>1. PICK u \in Thread : u = worker[i][w]
    BY BusyTypes
  <2>. DEFINE t == [u EXCEPT !.pc = "begin", !.left = MaxReports]
  <2>2. t.pc = "begin" /\ t.job = u.job /\ t.snap = u.snap
    BY DEF Thread
  <2>3. worker' = [worker EXCEPT ![i][w] = t]
    BY <2>1 DEF ClaimRecord
  <2>. HIDE DEF t
  <2>4. worker \in [Instances -> [Workers -> Thread]]
    BY AllTypes DEF Threads
  <2>5. \A k \in Instances, v \in Workers :
           worker'[k][v] = IF k = i /\ v = w THEN t ELSE worker[k][v]
    BY <2>3, <2>4
  <2>. QED
    BY <2>1, <2>2, <2>5 DEF ThreadIs
<1>7. inst[i] = "up" /\ UNCHANGED <<db, run, queue, inst, todo, request, applied, claims, faults>>
  BY DEF ClaimRecord, LockFree
<1>. QED
  BY <1>1, <1>2, <1>3, <1>5, <1>6, <1>7

LEMMA CheckPassesStep ==
    ASSUME IInv, NEW i \in Instances, NEW w \in Workers, CheckPasses(i, w)
    PROVE  LET j == worker[i][w].job IN
           /\ j \in Jobs
           /\ \/ /\ worker[i][w].pc \in {"begin", "work"}
                 /\ ThreadIs(i, w, "entered", j, worker[i][w].snap)
              \/ worker[i][w].pc = "work" /\ ThreadIs(i, w, "commit", j, worker[i][w].snap)
              \/ /\ worker[i][w].pc = "applied" /\ Rechecks(j)
                 /\ ThreadIs(i, w, "rechecked", j, worker[i][w].snap)
           /\ UNCHANGED faults \/ Failing
           /\ UNCHANGED <<db, run, mem, queue, inst, todo, request, applied, claims>>
<1>1. worker[i][w].job \in Jobs
  BY BusyTypes DEF CheckPasses
<1>2. \/ worker[i][w].pc = "begin" /\ Move(i, w, "entered")
      \/ worker[i][w].pc = "work" /\ Reports(i, w)
      \/ worker[i][w].pc = "work" /\ Move(i, w, "commit")
      \/ worker[i][w].pc = "applied" /\ Rechecks(worker[i][w].job) /\ Move(i, w, "rechecked")
  BY DEF CheckPasses, Reports
<1>3. (UNCHANGED faults \/ Failing)
      /\ UNCHANGED <<db, run, mem, queue, inst, todo, request, applied, claims>>
  BY DEF CheckPasses, CancelUnseen, Fault, Failing
<1>4. {"entered", "commit", "rechecked"} \subseteq WorkerPC
  BY DEF WorkerPC
<1>. QED
  BY <1>1, <1>2, <1>3, <1>4, MoveStep, ReportsStep

LEMMA ApplyStep ==
    ASSUME IInv, NEW i \in Instances, NEW w \in Workers, Apply(i, w)
    PROVE  LET j == worker[i][w].job IN
           /\ worker[i][w].pc = "commit" /\ j \in Jobs
           /\ ThreadIs(i, w, "applied", j, worker[i][w].snap)
           /\ \A l \in Jobs : applied'[l] = IF l = j THEN applied[j] + 1 ELSE applied[l]
           /\ UNCHANGED <<db, run, mem, queue, inst, todo, request, claims, faults>>
<1>1. worker[i][w].pc = "commit" /\ worker[i][w].job \in Jobs
  BY BusyTypes DEF Apply
<1>2. Move(i, w, "applied")
      /\ UNCHANGED <<db, run, mem, queue, inst, todo, request, claims, faults>>
      /\ applied' = [applied EXCEPT ![worker[i][w].job] = @ + 1]
  BY DEF Apply
<1>. QED
  BY <1>1, <1>2, MoveStep, AllTypes DEF WorkerPC

(* An update of the record of a thread's job: the new status, and a cancel *)
(* flag that only a cancelled job gains.                                   *)
Updates(i, w, status, cancel, pc) ==
    LET j == worker[i][w].job IN
    /\ inst[i] = "up" /\ worker[i][w].pc # "idle" /\ j \in Jobs
    /\ \E r \in Record :
          /\ MemIs(i, j, r) /\ ThreadIs(i, w, pc, j, r)
          /\ Fields(r, status, cancel, mem[i][j].retry, mem[i][j].owner, mem[i][j].fresh)
    /\ UNCHANGED <<db, run, queue, inst, todo, request, applied, claims>>

LEMMA ReportStep ==
    ASSUME IInv, NEW i \in Instances, NEW w \in Workers, Report(i, w)
    PROVE  /\ worker[i][w].pc = "entered" /\ UNCHANGED faults
           /\ Updates(i, w, "running", RecordOf(i, w).cancel, "persist")
<1>1. worker[i][w].pc = "entered" /\ UNCHANGED faults
  BY DEF Report
<1>2. PICK r \in Record : r = RecordOf(i, w)
  BY <1>1, BusyTypes
<1>. DEFINE q == [r EXCEPT !.status = "running"]
            left == worker[i][w].left
<1>3. q \in Record /\ Fields(q, "running", r.cancel, r.retry, r.owner, r.fresh)
  BY DEF Record, Status, Active, Fields
<1>4. left \in Nat /\ Update(i, w, q, "persist", left)
  <2>1. worker[i][w].left \in Nat
    BY BusyTypes DEF Thread
  <2>. QED
    BY <1>2, <2>1 DEF Report
<1>. HIDE DEF q, left
<1>5. inst[i] = "up" /\ MemIs(i, worker[i][w].job, q)
      /\ ThreadIs(i, w, "persist", worker[i][w].job, q)
  BY <1>1, <1>3, <1>4, UpdateStep DEF WorkerPC
<1>6. worker[i][w].job \in Jobs /\ worker[i][w].pc # "idle"
  BY <1>1, BusyTypes
<1>7. UNCHANGED <<db, run, queue, inst, todo, request, applied, claims>>
  BY DEF Report
<1>. QED
  BY <1>1, <1>2, <1>3, <1>5, <1>6, <1>7 DEF Updates, RecordOf

LEMMA StopStep ==
    ASSUME IInv, NEW i \in Instances, NEW w \in Workers, Stop(i, w)
    PROVE  /\ \/ worker[i][w].pc \in {"begin", "work"}
              \/ worker[i][w].pc = "applied" /\ Rechecks(worker[i][w].job)
           /\ UNCHANGED faults
           /\ Updates(i, w, "cancelled", TRUE, "persist")
<1>1. /\ \/ worker[i][w].pc \in {"begin", "work"}
         \/ worker[i][w].pc = "applied" /\ Rechecks(worker[i][w].job)
      /\ UNCHANGED faults /\ worker[i][w].pc # "idle"
  BY DEF Stop
<1>2. PICK r \in Record : r = RecordOf(i, w)
  BY <1>1, BusyTypes
<1>. DEFINE q == [r EXCEPT !.status = "cancelled", !.cancel = TRUE]
<1>3. q \in Record /\ Fields(q, "cancelled", TRUE, r.retry, r.owner, r.fresh)
  BY DEF Record, Status, Terminal, Fields
<1>4. Update(i, w, q, "persist", 0)
  BY <1>2 DEF Stop
<1>. HIDE DEF q
<1>5. inst[i] = "up" /\ MemIs(i, worker[i][w].job, q)
      /\ ThreadIs(i, w, "persist", worker[i][w].job, q)
  BY <1>1, <1>3, <1>4, UpdateStep DEF WorkerPC
<1>6. worker[i][w].job \in Jobs
      /\ UNCHANGED <<db, run, queue, inst, todo, request, applied, claims>>
  BY <1>1, BusyTypes DEF Stop
<1>. QED
  BY <1>1, <1>2, <1>3, <1>5, <1>6 DEF Updates, RecordOf

LEMMA FailStep ==
    ASSUME IInv, NEW i \in Instances, NEW w \in Workers, Fail(i, w)
    PROVE  /\ \/ worker[i][w].pc \in {"entered", "work", "commit", "applied"} /\ UNCHANGED faults
              \/ worker[i][w].pc = "taken" /\ Failing
           /\ Updates(i, w, "failed", RecordOf(i, w).cancel, "persist")
<1>1. /\ \/ worker[i][w].pc \in {"entered", "work", "commit", "applied"} /\ UNCHANGED faults
         \/ worker[i][w].pc = "taken" /\ Failing
      /\ worker[i][w].pc # "idle"
  BY DEF Fail, Fault, Failing
<1>2. PICK r \in Record : r = RecordOf(i, w)
  BY <1>1, BusyTypes
<1>. DEFINE q == [r EXCEPT !.status = "failed"]
<1>3. q \in Record /\ Fields(q, "failed", r.cancel, r.retry, r.owner, r.fresh)
  BY DEF Record, Status, Terminal, Fields
<1>4. Update(i, w, q, "persist", 0)
  BY <1>2 DEF Fail
<1>. HIDE DEF q
<1>5. inst[i] = "up" /\ MemIs(i, worker[i][w].job, q)
      /\ ThreadIs(i, w, "persist", worker[i][w].job, q)
  BY <1>1, <1>3, <1>4, UpdateStep DEF WorkerPC
<1>6. worker[i][w].job \in Jobs
      /\ UNCHANGED <<db, run, queue, inst, todo, request, applied, claims>>
  BY <1>1, BusyTypes DEF Fail
<1>. QED
  BY <1>1, <1>2, <1>3, <1>5, <1>6 DEF Updates, RecordOf

LEMMA CompleteStep ==
    ASSUME IInv, NEW i \in Instances, NEW w \in Workers, Complete(i, w)
    PROVE  /\ \/ worker[i][w].pc = "applied" /\ ~Rechecks(worker[i][w].job)
              \/ worker[i][w].pc = "rechecked"
           /\ UNCHANGED faults
           /\ Updates(i, w, "completed", RecordOf(i, w).cancel, "persist")
<1>1. /\ \/ worker[i][w].pc = "applied" /\ ~Rechecks(worker[i][w].job)
         \/ worker[i][w].pc = "rechecked"
      /\ UNCHANGED faults /\ worker[i][w].pc # "idle"
  BY DEF Complete
<1>2. PICK r \in Record : r = RecordOf(i, w)
  BY <1>1, BusyTypes
<1>. DEFINE b == r.artifact \/ Rechecks(worker[i][w].job)
            q == [r EXCEPT !.status = "completed", !.path = TRUE, !.artifact = b]
<1>3. q \in Record /\ Fields(q, "completed", r.cancel, r.retry, r.owner, r.fresh)
  <2>1. b \in BOOLEAN
    BY DEF Record
  <2>. HIDE DEF b
  <2>. QED
    BY <2>1 DEF Record, Status, Terminal, Fields
<1>4. Update(i, w, q, "persist", 0)
  BY <1>2 DEF Complete
<1>. HIDE DEF q
<1>5. inst[i] = "up" /\ MemIs(i, worker[i][w].job, q)
      /\ ThreadIs(i, w, "persist", worker[i][w].job, q)
  BY <1>1, <1>3, <1>4, UpdateStep DEF WorkerPC
<1>6. worker[i][w].job \in Jobs
      /\ UNCHANGED <<db, run, queue, inst, todo, request, applied, claims>>
  BY <1>1, BusyTypes DEF Complete
<1>. QED
  BY <1>1, <1>2, <1>3, <1>5, <1>6 DEF Updates, RecordOf

LEMMA AttachStep ==
    ASSUME IInv, NEW i \in Instances, NEW w \in Workers, Attach(i, w)
    PROVE  /\ worker[i][w].pc = "attach" /\ UNCHANGED faults
           /\ Updates(i, w, RecordOf(i, w).status, RecordOf(i, w).cancel, "persistResult")
<1>1. worker[i][w].pc = "attach" /\ UNCHANGED faults /\ worker[i][w].pc # "idle"
  BY DEF Attach
<1>2. PICK r \in Record : r = RecordOf(i, w)
  BY <1>1, BusyTypes
<1>. DEFINE q == [r EXCEPT !.artifact = TRUE]
<1>3. q \in Record /\ Fields(q, r.status, r.cancel, r.retry, r.owner, r.fresh)
  BY DEF Record, Fields
<1>4. Update(i, w, q, "persistResult", 0)
  BY <1>2 DEF Attach
<1>. HIDE DEF q
<1>5. inst[i] = "up" /\ MemIs(i, worker[i][w].job, q)
      /\ ThreadIs(i, w, "persistResult", worker[i][w].job, q)
  BY <1>1, <1>3, <1>4, UpdateStep DEF WorkerPC
<1>6. worker[i][w].job \in Jobs
      /\ UNCHANGED <<db, run, queue, inst, todo, request, applied, claims>>
  BY <1>1, BusyTypes DEF Attach
<1>. QED
  BY <1>1, <1>2, <1>3, <1>5, <1>6 DEF Updates, RecordOf

(* A snapshot is persisted, or its persist fails. *)
Persisted(i, j, s) ==
    \/ UNCHANGED faults /\ \E r \in Record : RowIs(j, r) /\ IsStored(i, s, r)
    \/ Failing /\ UNCHANGED db

LEMMA PersistRecordStep ==
    ASSUME IInv, NEW i \in Instances, NEW w \in Workers, PersistRecord(i, w)
    PROVE  LET pc == worker[i][w].pc  j == worker[i][w].job  s == worker[i][w].snap IN
           /\ pc \in {"persist", "persistResult"} /\ j \in Jobs /\ s \in Record
           /\ Persisted(i, j, s)
           /\ \/ /\ pc = "persistResult" \/ s.status = "cancelled"
                 /\ ThreadIs(i, w, "idle", None, Blank("absent"))
              \/ pc = "persist" /\ s.status # "cancelled" /\ ThreadIs(i, w, "sync", j, s)
              \/ pc = "persist" /\ s.status = "running" /\ ThreadIs(i, w, "work", j, Blank("absent"))
           /\ UNCHANGED <<run, mem, queue, inst, todo, request, applied, claims>>
<1>. DEFINE j == worker[i][w].job
            s == worker[i][w].snap
            pc == worker[i][w].pc
<1>1. pc \in {"persist", "persistResult"} /\ j \in Jobs /\ s \in Record
  BY BusyTypes DEF PersistRecord, Thread
<1>2. /\ Persist(i, j, s)
      /\ \/ (pc = "persistResult" \/ s.status = "cancelled") /\ Rest(i, w)
         \/ pc = "persist" /\ s.status # "cancelled" /\ Move(i, w, "sync")
         \/ pc = "persist" /\ s.status = "running" /\ Resume(i, w, "work")
      /\ UNCHANGED <<run, mem, queue, inst, todo, request, applied, claims>>
  BY DEF PersistRecord
<1>. HIDE DEF j, s, pc
<1>3. Persisted(i, j, s)
  BY <1>1, <1>2, PersistStep DEF Persisted
<1>4. Rest(i, w) => ThreadIs(i, w, "idle", None, Blank("absent"))
  BY RestStep
<1>5. Move(i, w, "sync") => ThreadIs(i, w, "sync", j, s)
  BY MoveStep DEF WorkerPC, j, s
<1>6. Resume(i, w, "work") => ThreadIs(i, w, "work", j, Blank("absent"))
  BY ResumeStep DEF WorkerPC, j
<1>. QED
  BY <1>1, <1>2, <1>3, <1>4, <1>5, <1>6 DEF j, s, pc

LEMMA SyncRunStep ==
    ASSUME IInv, NEW i \in Instances, NEW w \in Workers, SyncRun(i, w)
    PROVE  LET j == worker[i][w].job  s == worker[i][w].snap IN
           /\ worker[i][w].pc = "sync" /\ j \in Jobs /\ s \in Record
           /\ \/ /\ UNCHANGED faults
                 /\ \A r \in Runs : run'[r] = IF run[r].job = j
                                              THEN [run[r] EXCEPT !.status = s.status] ELSE run[r]
              \/ Failing /\ UNCHANGED run
           /\ \/ s.status = "running" /\ ThreadIs(i, w, "work", j, Blank("absent"))
              \/ /\ s.status = "completed" /\ Kind[j] # "preview_audio"
                 /\ ThreadIs(i, w, "attach", j, Blank("absent"))
              \/ /\ s.status # "running" /\ (s.status # "completed" \/ Kind[j] = "preview_audio")
                 /\ ThreadIs(i, w, "idle", None, Blank("absent"))
           /\ UNCHANGED <<db, mem, queue, inst, todo, request, applied, claims>>
<1>. DEFINE j == worker[i][w].job
            s == worker[i][w].snap
<1>1. worker[i][w].pc = "sync" /\ j \in Jobs /\ s \in Record
  BY BusyTypes DEF SyncRun, Thread
<1>2. /\ \/ /\ run' = [r \in Runs |-> IF run[r].job = j THEN [run[r] EXCEPT !.status = s.status]
                                      ELSE run[r]]
            /\ UNCHANGED faults
         \/ Fault /\ UNCHANGED run
      /\ CASE s.status = "running" -> Resume(i, w, "work")
           [] s.status = "completed" /\ Kind[j] # "preview_audio" -> Resume(i, w, "attach")
           [] OTHER -> Rest(i, w)
      /\ UNCHANGED <<db, mem, queue, inst, todo, request, applied, claims>>
  BY DEF SyncRun
<1>. HIDE DEF j, s
<1>3. \/ s.status = "running" /\ Resume(i, w, "work")
      \/ s.status = "completed" /\ Kind[j] # "preview_audio" /\ Resume(i, w, "attach")
      \/ /\ s.status # "running" /\ (s.status # "completed" \/ Kind[j] = "preview_audio")
         /\ Rest(i, w)
  BY <1>2
<1>4. Rest(i, w) => ThreadIs(i, w, "idle", None, Blank("absent"))
  BY RestStep
<1>5. Resume(i, w, "attach") => ThreadIs(i, w, "attach", j, Blank("absent"))
  BY ResumeStep DEF WorkerPC, j
<1>6. Resume(i, w, "work") => ThreadIs(i, w, "work", j, Blank("absent"))
  BY ResumeStep DEF WorkerPC, j
<1>7. \/ /\ UNCHANGED faults
         /\ \A r \in Runs : run'[r] = IF run[r].job = j
                                      THEN [run[r] EXCEPT !.status = s.status] ELSE run[r]
      \/ Failing /\ UNCHANGED run
  BY <1>2 DEF Fault, Failing
<1>. QED
  BY <1>1, <1>2, <1>3, <1>4, <1>5, <1>6, <1>7 DEF j, s

-----------------------------------------------------------------------------
(* Instances.                                                              *)

Selected == {<<j, db[j]>> : j \in {k \in Jobs : Restorable(db[k])}}

LEMMA StartStep ==
    ASSUME IInv, NEW i \in Instances, Start(i)
    PROVE  /\ inst[i] = "new" /\ Cardinality(Alive) < MaxAlive
           /\ \A k \in Instances : inst'[k] = IF k = i THEN "restoring" ELSE inst[k]
           /\ \/ /\ UNCHANGED faults
                 /\ \A k \in Instances : todo'[k] = IF k = i THEN Selected ELSE todo[k]
              \/ Failing /\ UNCHANGED todo
           /\ UNCHANGED <<db, run, mem, queue, worker, request, applied, claims>>
BY AllTypes DEF Start, Selected, Fault, Failing

(* The record that instance i makes of a row it restores. *)
IsRestored(i, row, r) ==
    /\ r.cancel = row.cancel /\ r.owner = i /\ r.fresh
    /\ r.retry = row.retry + (IF row.status = "running" THEN 1 ELSE 0)
    /\ r.status = IF row.cancel THEN "cancelled"
                  ELSE IF r.retry > MaxRetries THEN "failed" ELSE "queued"

LEMMA RestoredFields ==
    ASSUME NEW i \in Instances, NEW row \in Record
    PROVE  RestoredRecord(i, row) \in Record /\ IsRestored(i, row, RestoredRecord(i, row))
<1>. DEFINE retry == row.retry + (IF row.status = "running" THEN 1 ELSE 0)
            st == CASE row.cancel -> "cancelled"
                    [] ~row.cancel /\ retry > MaxRetries -> "failed"
                    [] OTHER -> "queued"
<1>1. RestoredRecord(i, row) = [row EXCEPT !.status = st, !.retry = retry, !.owner = i,
                                           !.fresh = TRUE, !.path = FALSE]
  BY DEF RestoredRecord
<1>2. row.cancel \in BOOLEAN
  BY DEF Record
<1>3. st = IF row.cancel THEN "cancelled" ELSE IF retry > MaxRetries THEN "failed" ELSE "queued"
  BY <1>2
<1>. DEFINE rr == RestoredRecord(i, row)
<1>4. /\ rr.status = st /\ rr.retry = retry
      /\ rr.owner = i /\ rr.fresh = TRUE /\ rr.cancel = row.cancel
  <2>. HIDE DEF st, retry
  <2>. QED
    BY <1>1 DEF Record
<1>5. rr \in Record
  BY RestoredType
<1>. QED
  BY <1>3, <1>4, <1>5 DEF IsRestored

LEMMA TakenOverFields ==
    ASSUME IInv, NEW i \in Instances, NEW j \in Jobs
    PROVE  /\ TakenOver(i, j) \in Record
           /\ Fields(TakenOver(i, j), "queued", db[j].cancel, db[j].retry, i, TRUE)
<1>1. PICK r \in Record : r = db[j]
  BY AllTypes
<1>. QED
  BY <1>1 DEF TakenOver, Fields, Record, Status, Active

LEMMA RestoreJobStep ==
    ASSUME IInv, NEW i \in Instances, NEW e \in todo[i], RestoreJob(i, e)
    PROVE  LET j == e[1] IN
           /\ inst[i] = "restoring" /\ j \in Jobs /\ e[2] \in Record /\ Restorable(db[j])
           /\ \E r, s \in Record :
                 /\ MemIs(i, j, r) /\ IsRestored(i, e[2], r) /\ RowIs(j, s)
                 /\ \/ UNCHANGED faults /\ IsStored(i, r, s)
                    \/ Failing /\ Fields(s, "queued", db[j].cancel, db[j].retry, i, TRUE)
                 /\ \A k \in Instances :
                       /\ Queued(k)' = IF k = i /\ r.status = "queued" THEN Queued(i) \cup {j}
                                       ELSE Queued(k)
                       /\ Distinct(queue[k]) /\ (k = i => j \notin Queued(i)) => Distinct(queue'[k])
           /\ \A k \in Instances : todo'[k] = IF k = i THEN todo[i] \ {e} ELSE todo[k]
           /\ UNCHANGED <<run, inst, worker, request, applied, claims>>
<1>1. e[1] \in Jobs /\ e[2] \in Record
  BY AllTypes
<1>2. PICK j \in Jobs : j = e[1]
  BY <1>1
<1>3. PICK rec \in Record : rec = RestoredRecord(i, e[2]) /\ IsRestored(i, e[2], rec)
  BY <1>1, RestoredFields
<1>4. /\ mem' = [mem EXCEPT ![i][j] = rec]
      /\ \/ db' = [db EXCEPT ![j] = Stored(i, rec)] /\ UNCHANGED faults
         \/ db' = [db EXCEPT ![j] = TakenOver(i, j)] /\ Fault
      /\ queue' = IF rec.status = "queued" THEN [queue EXCEPT ![i] = Append(@, j)] ELSE queue
      /\ todo' = [todo EXCEPT ![i] = @ \ {e}]
      /\ UNCHANGED <<run, inst, worker, request, applied, claims>>
      /\ inst[i] = "restoring" /\ Restorable(db[j])
  BY <1>2, <1>3 DEF RestoreJob
<1>5. MemIs(i, j, rec)
  BY <1>4, MemStep
<1>6. \E s \in Record : /\ RowIs(j, s)
                        /\ \/ UNCHANGED faults /\ IsStored(i, rec, s)
                           \/ Failing /\ Fields(s, "queued", db[j].cancel, db[j].retry, i, TRUE)
  <2>1. CASE db' = [db EXCEPT ![j] = Stored(i, rec)] /\ UNCHANGED faults
    BY <2>1, RowStep, StoredFields
  <2>2. CASE db' = [db EXCEPT ![j] = TakenOver(i, j)] /\ Fault
    BY <2>2, RowStep, TakenOverFields DEF Fault, Failing
  <2>. QED
    BY <1>4, <2>1, <2>2
<1>7. \A k \in Instances :
         /\ Queued(k)' = IF k = i /\ rec.status = "queued" THEN Queued(i) \cup {j} ELSE Queued(k)
         /\ Distinct(queue[k]) /\ (k = i => j \notin Queued(i)) => Distinct(queue'[k])
  <2>1. CASE rec.status = "queued"
    <3>1. queue' = [queue EXCEPT ![i] = Append(@, j)]
      BY <1>4, <2>1
    <3>. QED
      BY <2>1, <3>1, QueueAppend
  <2>2. CASE rec.status # "queued"
    <3>1. queue' = queue
      BY <1>4, <2>2
    <3>. QED
      BY <2>2, <3>1 DEF Queued
  <2>. QED
    BY <2>1, <2>2
<1>8. \A k \in Instances : todo'[k] = IF k = i THEN todo[i] \ {e} ELSE todo[k]
  BY <1>4, AllTypes
<1>. QED
  BY <1>1, <1>2, <1>3, <1>4, <1>5, <1>6, <1>7, <1>8

LEMMA RestoreLostStep ==
    ASSUME IInv, NEW i \in Instances, NEW e \in todo[i], RestoreLost(i, e)
    PROVE  /\ inst[i] = "restoring"
           /\ \A k \in Instances : todo'[k] = IF k = i THEN todo[i] \ {e} ELSE todo[k]
           /\ UNCHANGED <<db, run, mem, queue, inst, worker, request, applied, claims, faults>>
BY AllTypes DEF RestoreLost

LEMMA ServeStep ==
    ASSUME IInv, NEW i \in Instances, Serve(i)
    PROVE  /\ inst[i] = "restoring" /\ todo[i] = {}
           /\ \A k \in Instances : inst'[k] = IF k = i THEN "up" ELSE inst[k]
           /\ UNCHANGED <<db, run, mem, queue, todo, worker, request, applied, claims, faults>>
BY AllTypes DEF Serve

(* What is left of an instance that dies. *)
DeadIs(i) ==
    /\ \A k \in Instances : inst'[k] = IF k = i THEN "down" ELSE inst[k]
    /\ \A k \in Instances, l \in Jobs : mem'[k][l] = IF k = i THEN Blank("absent") ELSE mem[k][l]
    /\ \A k \in Instances : Queued(k)' = IF k = i THEN {} ELSE Queued(k)
    /\ \A k \in Instances : Distinct(queue[k]) => Distinct(queue'[k])
    /\ \A k \in Instances : todo'[k] = IF k = i THEN {} ELSE todo[k]
    /\ \A k \in Instances, v \in Workers :
          /\ worker'[k][v].pc = IF k = i THEN "idle" ELSE worker[k][v].pc
          /\ worker'[k][v].job = IF k = i THEN None ELSE worker[k][v].job
          /\ worker'[k][v].snap = IF k = i THEN Blank("absent") ELSE worker[k][v].snap
    /\ \A d \in Clients :
          /\ request'[d].pc = IF request[d].at = i THEN "idle" ELSE request[d].pc
          /\ request'[d].at = IF request[d].at = i THEN None ELSE request[d].at
          /\ request'[d].job = IF request[d].at = i THEN None ELSE request[d].job
          /\ request'[d].snap = IF request[d].at = i THEN Blank("absent") ELSE request[d].snap

LEMMA DieStep ==
    ASSUME IInv, NEW i \in Instances, Die(i)
    PROVE  DeadIs(i)
<1>1. \A k \in Instances : inst'[k] = IF k = i THEN "down" ELSE inst[k]
  BY AllTypes DEF Die
<1>2. \A k \in Instances, l \in Jobs : mem'[k][l] = IF k = i THEN Blank("absent") ELSE mem[k][l]
  BY AllTypes DEF Die, Memories
<1>3. \A k \in Instances : queue'[k] = IF k = i THEN <<>> ELSE queue[k]
  BY AllTypes DEF Die
<1>4. \A k \in Instances : Queued(k)' = IF k = i THEN {} ELSE Queued(k)
  BY <1>3 DEF Queued
<1>5. \A k \in Instances : Distinct(queue[k]) => Distinct(queue'[k])
  BY <1>3 DEF Distinct
<1>6. \A k \in Instances : todo'[k] = IF k = i THEN {} ELSE todo[k]
  BY AllTypes DEF Die
<1>7. \A k \in Instances, v \in Workers :
         worker'[k][v] = IF k = i THEN IdleThread ELSE worker[k][v]
  BY AllTypes DEF Die, Threads
<1>8. \A d \in Clients : request'[d] = IF request[d].at = i THEN IdleRequest ELSE request[d]
  BY AllTypes DEF Die
<1>9. \A k \in Instances, v \in Workers :
          /\ worker'[k][v].pc = IF k = i THEN "idle" ELSE worker[k][v].pc
          /\ worker'[k][v].job = IF k = i THEN None ELSE worker[k][v].job
          /\ worker'[k][v].snap = IF k = i THEN Blank("absent") ELSE worker[k][v].snap
  BY <1>7, IdleFields
<1>10. \A d \in Clients :
          /\ request'[d].pc = IF request[d].at = i THEN "idle" ELSE request[d].pc
          /\ request'[d].at = IF request[d].at = i THEN None ELSE request[d].at
          /\ request'[d].job = IF request[d].at = i THEN None ELSE request[d].job
          /\ request'[d].snap = IF request[d].at = i THEN Blank("absent") ELSE request[d].snap
  BY <1>8, IdleFields
<1>. QED
  BY <1>1, <1>2, <1>4, <1>5, <1>6, <1>9, <1>10 DEF DeadIs

LEMMA CrashStep ==
    ASSUME IInv, NEW i \in Instances, Crash(i)
    PROVE  /\ inst[i] \in {"up", "restoring"} /\ DeadIs(i) /\ MayCrash
           /\ UNCHANGED <<db, run, applied, claims, faults>>
BY DieStep DEF Crash

LEMMA CrashInRestoreStep ==
    ASSUME IInv, NEW i \in Instances, NEW e \in todo[i], CrashInRestore(i, e)
    PROVE  /\ inst[i] = "restoring" /\ DeadIs(i) /\ MayCrash /\ CrashWhileRestoring
           /\ e[1] \in Jobs /\ Restorable(db[e[1]])
           /\ \E s \in Record :
                 /\ RowIs(e[1], s)
                 /\ Fields(s, "queued", db[e[1]].cancel, db[e[1]].retry, i, TRUE)
           /\ UNCHANGED <<run, applied, claims, faults>>
<1>1. e[1] \in Jobs
  BY AllTypes
<1>2. RowIs(e[1], TakenOver(i, e[1]))
  BY <1>1, RowStep DEF CrashInRestore
<1>. QED
  BY <1>1, <1>2, DieStep, TakenOverFields DEF CrashInRestore

-----------------------------------------------------------------------------
(* What happens around the job manager.                                    *)

LEMMA LeaseExpiresStep ==
    ASSUME IInv, NEW j \in Jobs, LeaseExpires(j)
    PROVE  /\ LeaseCoversRun => \A i \in Instances, w \in Workers : ~Executes(i, w, j)
           /\ \A l \in Jobs :
                 /\ l # j => db'[l] = db[l]
                 /\ Fields(db'[l], db[l].status, db[l].cancel, db[l].retry, db[l].owner,
                           db[l].fresh /\ l # j)
                 /\ db'[l].artifact = db[l].artifact
           /\ \A k \in Instances, l \in Jobs :
                 /\ l # j => mem'[k][l] = mem[k][l]
                 /\ Fields(mem'[k][l], mem[k][l].status, mem[k][l].cancel, mem[k][l].retry,
                           mem[k][l].owner, mem[k][l].fresh /\ l # j)
           /\ UNCHANGED <<run, queue, inst, todo, worker, request, applied, claims, faults>>
<1>1. db' = [db EXCEPT ![j].fresh = FALSE]
      /\ mem' = [i \in Instances |-> [mem[i] EXCEPT ![j].fresh = FALSE]]
  BY DEF LeaseExpires
<1>2. \A l \in Jobs : db[l] \in Record /\ db'[l] = IF l = j THEN [db[l] EXCEPT !.fresh = FALSE] ELSE db[l]
  BY <1>1, AllTypes
<1>3. \A k \in Instances, l \in Jobs :
         /\ mem[k][l] \in Record
         /\ mem'[k][l] = IF l = j THEN [mem[k][l] EXCEPT !.fresh = FALSE] ELSE mem[k][l]
  BY <1>1, AllTypes DEF Memories
<1>4. \A r \in Record : /\ Fields([r EXCEPT !.fresh = FALSE], r.status, r.cancel, r.retry, r.owner, FALSE)
                        /\ [r EXCEPT !.fresh = FALSE].artifact = r.artifact
                        /\ r.fresh \in BOOLEAN
  BY DEF Record, Fields
<1>5. \A l \in Jobs :
                 /\ l # j => db'[l] = db[l]
                 /\ Fields(db'[l], db[l].status, db[l].cancel, db[l].retry, db[l].owner,
                           db[l].fresh /\ l # j)
                 /\ db'[l].artifact = db[l].artifact
  <2>. SUFFICES ASSUME NEW l \in Jobs
                PROVE  /\ l # j => db'[l] = db[l]
                       /\ Fields(db'[l], db[l].status, db[l].cancel, db[l].retry, db[l].owner,
                                 db[l].fresh /\ l # j)
                       /\ db'[l].artifact = db[l].artifact
    OBVIOUS
  <2>1. PICK r \in Record : r = db[l]
    BY <1>2
  <2>2. CASE l = j
    BY <1>2, <1>4, <2>1, <2>2 DEF Fields
  <2>3. CASE l # j
    BY <1>2, <1>4, <2>1, <2>3 DEF Fields
  <2>. QED
    BY <2>2, <2>3
<1>6. \A k \in Instances, l \in Jobs :
                 /\ l # j => mem'[k][l] = mem[k][l]
                 /\ Fields(mem'[k][l], mem[k][l].status, mem[k][l].cancel, mem[k][l].retry,
                           mem[k][l].owner, mem[k][l].fresh /\ l # j)
  <2>. SUFFICES ASSUME NEW k \in Instances, NEW l \in Jobs
                PROVE  /\ l # j => mem'[k][l] = mem[k][l]
                       /\ Fields(mem'[k][l], mem[k][l].status, mem[k][l].cancel, mem[k][l].retry,
                                 mem[k][l].owner, mem[k][l].fresh /\ l # j)
    OBVIOUS
  <2>1. PICK r \in Record : r = mem[k][l]
    BY <1>3
  <2>2. CASE l = j
    BY <1>3, <1>4, <2>1, <2>2 DEF Fields
  <2>3. CASE l # j
    BY <1>3, <1>4, <2>1, <2>3 DEF Fields
  <2>. QED
    BY <2>2, <2>3
<1>7. /\ LeaseCoversRun => \A i \in Instances, w \in Workers : ~Executes(i, w, j)
      /\ UNCHANGED <<run, queue, inst, todo, worker, request, applied, claims, faults>>
  BY DEF LeaseExpires
<1>. QED
  BY <1>5, <1>6, <1>7

LEMMA SupersedeStep ==
    ASSUME IInv, NEW r \in Runs, Supersede(r)
    PROVE  /\ run[r].active
           /\ \A q \in Runs :
                 /\ q # r => run'[q] = run[q]
                 /\ run'[q].job = run[q].job
                 /\ run'[q].status \in {run[q].status, "superseded"}
                 /\ run'[q].active = (run[q].active /\ q # r)
           /\ \A l \in Jobs :
                 \E ca \in {db[l].cancel, TRUE} :
                    /\ Fields(db'[l], db[l].status, ca, db[l].retry, db[l].owner, db[l].fresh)
                    /\ db'[l].artifact = db[l].artifact
           /\ UNCHANGED <<mem, queue, inst, todo, worker, request, applied, claims, faults>>
<1>1. \A l \in Jobs :
         \E ca \in {db[l].cancel, TRUE} :
                    /\ Fields(db'[l], db[l].status, ca, db[l].retry, db[l].owner, db[l].fresh)
                    /\ db'[l].artifact = db[l].artifact
  <2>1. \A l \in Jobs : db[l] \in Record /\ db'[l] \in {db[l], [db[l] EXCEPT !.cancel = TRUE]}
    BY AllTypes DEF Supersede
  <2>2. \A q \in Record : /\ Fields([q EXCEPT !.cancel = TRUE], q.status, TRUE, q.retry, q.owner, q.fresh)
                          /\ [q EXCEPT !.cancel = TRUE].artifact = q.artifact
    BY DEF Record, Fields
  <2>. QED
    BY <2>1, <2>2 DEF Fields
<1>2. run[r].active
      /\ \A q \in Runs :
                 /\ q # r => run'[q] = run[q]
                 /\ run'[q].job = run[q].job
                 /\ run'[q].status \in {run[q].status, "superseded"}
                 /\ run'[q].active = (run[q].active /\ q # r)
  <2>1. \A q \in Runs : run[q] \in Run
    BY AllTypes
  <2>2. PICK u \in Run : u = run[r]
    BY <2>1
  <2>. DEFINE t == [job |-> u.job, active |-> FALSE,
                    status |-> IF u.status \in {"queued", "running", "completed"}
                               THEN "superseded" ELSE u.status]
  <2>3. run' = [run EXCEPT ![r] = t] /\ run[r].active
    BY <2>2 DEF Supersede
  <2>4. t.job = u.job /\ t.active = FALSE /\ t.status \in {u.status, "superseded"}
    OBVIOUS
  <2>. HIDE DEF t
  <2>5. \A q \in Runs : run'[q] = IF q = r THEN t ELSE run[q]
    BY <2>3, AllTypes
  <2>6. \A q \in Runs : run[q].active \in BOOLEAN
    BY <2>1 DEF Run
  <2>7. \A q \in Runs : /\ run'[q].job = run[q].job
                        /\ run'[q].status \in {run[q].status, "superseded"}
    BY <2>2, <2>4, <2>5
  <2>8. \A q \in Runs : run'[q].active = (run[q].active /\ q # r)
    <3>1. \A q \in Runs : q = r => run'[q].active = FALSE
      BY <2>4, <2>5
    <3>2. \A q \in Runs : q # r => run'[q].active = run[q].active
      BY <2>5
    <3>. QED
      BY <2>6, <3>1, <3>2
  <2>. QED
    BY <2>3, <2>5, <2>7, <2>8
<1>3. UNCHANGED <<mem, queue, inst, todo, worker, request, applied, claims, faults>>
  BY DEF Supersede
<1>. QED
  BY <1>1, <1>2, <1>3

-----------------------------------------------------------------------------
(* Where a job is in an instance.                                           *)

(* A request hands its job to the queue; a thread runs the handler of its  *)
(* job, or persists the record of a job that goes on running.              *)
Handing(c, i, j) ==
    request[c].pc \in {"accepted", "attached"} /\ request[c].at = i /\ request[c].job = j
Waits(i, j) ==
    \/ j \in Queued(i)
    \/ \E w \in Workers : worker[i][w].job = j /\ worker[i][w].pc \in {"taken", "claimed"}
    \/ \E c \in Clients : Handing(c, i, j)
Running == {"begin", "entered", "work", "commit", "applied", "rechecked"}
RunsOn(i, w) ==
    \/ worker[i][w].pc \in Running
    \/ worker[i][w].pc \in {"persist", "sync"} /\ worker[i][w].snap.status = "running"

(* An instance has threads and requests only while it is up, rows to       *)
(* restore only while it restores, and nothing before and after.           *)
Lives ==
    \A i \in Instances :
        /\ inst[i] # "up" => /\ \A w \in Workers : worker[i][w].pc = "idle"
                             /\ \A c \in Clients : request[c].at # i
        /\ inst[i] # "restoring" => todo[i] = {}
        /\ inst[i] \in {"new", "down"} =>
              Queued(i) = {} /\ \A j \in Jobs : mem[i][j].status = "absent"

Idle ==
    /\ \A i \in Instances, w \in Workers : worker[i][w].pc = "idle" => worker[i][w].job = None
    /\ \A c \in Clients :
          request[c].pc = "idle" => request[c].at = None /\ request[c].job = None

(* A job that any part of an instance deals with has a record in it, and a *)
(* job with a record has a row.                                            *)
HasRow ==
    \A i \in Instances, j \in Jobs : mem[i][j].status # "absent" => db[j].status # "absent"
KnownQueue ==
    \A i \in Instances, j \in Jobs : j \in Queued(i) => mem[i][j].status # "absent"
KnownThread ==
    \A i \in Instances, w \in Workers :
        worker[i][w].pc # "idle" => RecordOf(i, w).status # "absent"
KnownRequest ==
    \A c \in Clients :
        request[c].pc # "idle" => mem[request[c].at][request[c].job].status # "absent"
KnownSnap ==
    /\ \A c \in Clients : request[c].pc = "snapped" => request[c].snap.status # "absent"
    /\ \A i \in Instances, w \in Workers :
          worker[i][w].pc \in {"persist", "sync", "persistResult"} =>
              worker[i][w].snap.status # "absent"
KnownTodo ==
    \A i \in Instances : \A e \in todo[i] :
        e[2].status \in Active /\ db[e[1]].status # "absent"
Known ==
    HasRow /\ KnownQueue /\ KnownThread /\ KnownRequest /\ KnownSnap /\ KnownTodo

(* A job is in a queue, with a thread or with the request that submits it, *)
(* and in one of these places only.                                        *)
OnceQueue == \A i \in Instances : Distinct(queue[i])
OnceThread ==
    \A i \in Instances, w \in Workers :
        /\ worker[i][w].job \notin Queued(i)
        /\ \A v \in Workers :
              worker[i][w].job \in Jobs /\ worker[i][w].job = worker[i][v].job => w = v
OnceRequest ==
    \A i \in Instances, c \in Clients, j \in Jobs :
        Handing(c, i, j) =>
            /\ j \notin Queued(i)
            /\ \A w \in Workers : worker[i][w].job # j
            /\ \A d \in Clients : Handing(d, i, j) => c = d
OnceTodo ==
    \A i \in Instances : \A e \in todo[i] :
        /\ e[1] \notin Queued(i)
        /\ \A f \in todo[i] : e[1] = f[1] => e = f
Once == OnceQueue /\ OnceThread /\ OnceRequest /\ OnceTodo

(* What the record says of a job that waits, runs or has just ended.       *)
Waiting == \A i \in Instances, j \in Jobs : Waits(i, j) => mem[i][j].status = "queued"
Held ==
    \A i \in Instances, w \in Workers :
        RunsOn(i, w) => RecordOf(i, w).status = "running" /\ RecordOf(i, w).owner = i
Ended ==
    \A i \in Instances, w \in Workers, j \in Jobs :
        worker[i][w].job = j /\ ~Repeatable(j) =>
            /\ worker[i][w].pc \in {"persist", "sync", "persistResult"} =>
                  mem[i][j].status = worker[i][w].snap.status
            /\ worker[i][w].pc \in {"attach", "persistResult"} =>
                  mem[i][j].status = "completed"

TInv == Lives /\ Idle /\ Known /\ Once /\ Waiting /\ Held /\ Ended

LEMMA NoNone == None \notin Jobs /\ None \notin Instances
BY JobManagerAssumption

LEMMA QueuedTypes ==
    ASSUME IInv
    PROVE  \A i \in Instances : Queued(i) \subseteq Jobs
BY AllTypes DEF Queued

LEMMA TodoTypes ==
    ASSUME IInv
    PROVE  \A i \in Instances : \A e \in todo[i] : e[1] \in Jobs /\ e[2] \in Record
BY AllTypes

LEMMA SubmitKeeps ==
    ASSUME IInv, TInv, NEW c \in Clients, NEW i \in Instances, NEW j \in Jobs, Submit(c, i, j)
    PROVE  TInv'
<1>1. /\ inst[i] = "up" /\ request[c].pc = "idle"
      /\ db[j].status = "absent" /\ \A k \in Instances : mem[k][j].status = "absent"
      /\ UNCHANGED <<run, queue, inst, todo, worker, applied, claims, faults>>
  BY SubmitStep
<1>2. PICK r \in Record, s \in Record, pc \in {"accepted", "attached"} :
         /\ MemIs(i, j, r) /\ Fields(r, "queued", FALSE, 0, None, FALSE)
         /\ RowIs(j, s) /\ Fields(s, "queued", FALSE, 0, None, FALSE)
         /\ RequestIs(c, pc, i, j, Blank("absent"))
  BY SubmitStep
<1>3. \A k \in Instances : Queued(k)' = Queued(k)
  BY <1>1 DEF Queued
<1>4. OnceQueue' /\ OnceThread' /\ OnceTodo'
  BY <1>1, <1>3 DEF TInv, Once, OnceQueue, OnceThread, OnceTodo
<1>5. Lives'
  BY <1>1, <1>2, <1>3 DEF TInv, Lives, MemIs, RowIs, RequestIs
<1>6. Idle'
  BY <1>1, <1>2, <1>3 DEF TInv, Idle, MemIs, RowIs, RequestIs
<1>7. HasRow'
  BY <1>1, <1>2, <1>3 DEF TInv, Known, HasRow, MemIs, RowIs, RequestIs, Fields
<1>8. KnownQueue'
  BY <1>1, <1>2, <1>3 DEF TInv, Known, KnownQueue, HasRow, MemIs, RowIs, RequestIs
<1>9. KnownThread'
  BY <1>1, <1>2, <1>3, BusyTypes DEF TInv, Known, KnownThread, RecordOf, MemIs, RowIs, RequestIs
<1>10. KnownRequest'
  BY <1>1, <1>2, <1>3, BusyTypes DEF TInv, Known, KnownRequest, MemIs, RowIs, RequestIs, Fields
<1>11. KnownSnap'
  BY <1>1, <1>2, <1>3 DEF TInv, Known, KnownSnap, MemIs, RowIs, RequestIs
<1>12. KnownTodo'
  BY <1>1, <1>2, <1>3, TodoTypes DEF TInv, Known, KnownTodo, MemIs, RowIs, RequestIs
<1>13. OnceRequest'
  BY <1>1, <1>2, <1>3, NoNone
     DEF TInv, Known, Once, OnceRequest, Handing, Idle, KnownQueue, KnownThread, KnownRequest,
         RecordOf, MemIs, RowIs, RequestIs
<1>14. Waiting'
  BY <1>1, <1>2, <1>3
     DEF TInv, Waiting, Waits, Handing, KnownQueue, KnownThread, MemIs, RowIs, RequestIs, Fields
<1>15. Held'
  BY <1>1, <1>2, <1>3, BusyTypes
     DEF TInv, Held, RunsOn, Running, RecordOf, KnownThread, MemIs, RowIs, RequestIs
<1>16. Ended'
  BY <1>1, <1>2, <1>3 DEF TInv, Known, Ended, RecordOf, KnownThread, MemIs, RowIs, RequestIs
<1>. QED
  BY <1>4, <1>5, <1>6, <1>7, <1>8, <1>9, <1>10, <1>11, <1>12, <1>13, <1>14, <1>15, <1>16
     DEF TInv, Known, Once

LEMMA SubmitUnsavedKeeps ==
    ASSUME IInv, TInv, NEW c \in Clients, NEW i \in Instances, NEW j \in Jobs, SubmitUnsaved(c, i, j)
    PROVE  TInv'
<1>1. UNCHANGED <<db, mem, queue, inst, todo, worker, request, applied, claims>>
  BY DEF SubmitUnsaved
<1>2. \A k \in Instances : Queued(k)' = Queued(k)
  BY <1>1 DEF Queued
<1>3. Lives' /\ Idle' /\ HasRow' /\ KnownQueue' /\ KnownThread' /\ KnownRequest' /\ KnownSnap'
      /\ KnownTodo' /\ OnceQueue' /\ OnceThread' /\ OnceRequest' /\ OnceTodo' /\ Waiting' /\ Held'
      /\ Ended'
  BY <1>1, <1>2
     DEF TInv, Known, Once, Lives, Idle, HasRow, KnownQueue, KnownThread, RecordOf, KnownRequest,
         KnownSnap, KnownTodo, OnceQueue, OnceThread, OnceRequest, Handing, OnceTodo, Waiting,
         Waits, Held, RunsOn, Ended
<1>. QED
  BY <1>3 DEF TInv, Known, Once

LEMMA AttachRunKeeps ==
    ASSUME IInv, TInv, NEW c \in Clients, AttachRun(c)
    PROVE  TInv'
<1>1. /\ request[c].pc = "accepted"
      /\ RequestIs(c, "attached", request[c].at, request[c].job, request[c].snap)
      /\ UNCHANGED <<db, mem, queue, inst, todo, worker, applied, claims, faults>>
  BY AttachRunStep
<1>2. \A k \in Instances : Queued(k)' = Queued(k)
  BY <1>1 DEF Queued
<1>3. HasRow' /\ KnownQueue' /\ KnownThread' /\ KnownTodo' /\ OnceQueue' /\ OnceThread'
      /\ OnceTodo' /\ Held' /\ Ended'
  BY <1>1, <1>2
     DEF TInv, Known, Once, HasRow, KnownQueue, KnownThread, RecordOf, KnownTodo, OnceQueue,
         OnceThread, OnceTodo, Held, RunsOn, Ended
<1>4. Lives'
  BY <1>1, <1>2 DEF TInv, Lives, RequestIs
<1>5. Idle'
  BY <1>1, <1>2 DEF TInv, Idle, RequestIs
<1>6. KnownRequest'
  BY <1>1, <1>2 DEF TInv, Known, KnownRequest, RequestIs
<1>7. KnownSnap'
  BY <1>1, <1>2 DEF TInv, Known, KnownSnap, RequestIs
<1>8. OnceRequest'
  BY <1>1, <1>2 DEF TInv, Once, OnceRequest, Handing, RequestIs
<1>9. Waiting'
  BY <1>1, <1>2 DEF TInv, Waiting, Waits, Handing, RequestIs
<1>. QED
  BY <1>3, <1>4, <1>5, <1>6, <1>7, <1>8, <1>9 DEF TInv, Known, Once

LEMMA AttachFailsKeeps ==
    ASSUME IInv, TInv, NEW c \in Clients, AttachFails(c)
    PROVE  TInv'
<1>. DEFINE i == request[c].at
            j == request[c].job
<1>1. /\ request[c].pc = "accepted" /\ i \in Instances /\ j \in Jobs
      /\ RequestIs(c, "idle", None, None, Blank("absent"))
      /\ UNCHANGED <<queue, inst, todo, worker, applied, claims>>
  BY AttachFailsStep
<1>2. PICK r \in Record, s \in Record :
         /\ MemIs(i, j, r) /\ r.status = "failed"
         /\ RowIs(j, s) /\ (IsStored(i, r, s) \/ s = db[j])
  BY AttachFailsStep DEF Fields
<1>3. \A k \in Instances : Queued(k)' = Queued(k)
  BY <1>1 DEF Queued
<1>4. OnceQueue' /\ OnceThread' /\ OnceTodo'
  BY <1>1, <1>3 DEF TInv, Once, OnceQueue, OnceThread, OnceTodo
<1>5. Lives'
  BY <1>1, <1>2, <1>3, NoNone DEF TInv, Lives, MemIs, RowIs, RequestIs, IsStored
<1>6. Idle'
  BY <1>1, <1>2, <1>3 DEF TInv, Idle, MemIs, RowIs, RequestIs, IsStored
<1>7. HasRow'
  <2>1. mem[i][j].status = "queued"
    BY <1>1 DEF TInv, Waiting, Waits, Handing
  <2>2. db[j].status # "absent" /\ s.status # "absent"
    BY <1>1, <1>2, <2>1 DEF TInv, Known, HasRow, IsStored
  <2>. QED
    BY <1>1, <1>2, <1>3, <2>2 DEF TInv, Known, HasRow, MemIs, RowIs, RequestIs, IsStored
<1>8. KnownQueue'
  BY <1>1, <1>2, <1>3 DEF TInv, Known, KnownQueue, HasRow, MemIs, RowIs, RequestIs, IsStored
<1>9. KnownThread'
  BY <1>1, <1>2, <1>3, BusyTypes
     DEF TInv, Known, KnownThread, RecordOf, MemIs, RowIs, RequestIs, IsStored
<1>10. KnownRequest'
  BY <1>1, <1>2, <1>3, BusyTypes DEF TInv, Known, KnownRequest, MemIs, RowIs, RequestIs, IsStored
<1>11. KnownSnap'
  BY <1>1, <1>2, <1>3 DEF TInv, Known, KnownSnap, MemIs, RowIs, RequestIs, IsStored
<1>12. KnownTodo'
  BY <1>1, <1>2, <1>3, TodoTypes DEF TInv, Known, KnownTodo, MemIs, RowIs, RequestIs, IsStored
<1>13. OnceRequest'
  BY <1>1, <1>2, <1>3 DEF TInv, Once, OnceRequest, Handing, MemIs, RowIs, RequestIs, IsStored
<1>14. Waiting'
  BY <1>1, <1>2, <1>3
     DEF TInv, Once, Waiting, Waits, Handing, OnceRequest, MemIs, RowIs, RequestIs, IsStored
<1>15. Held'
  BY <1>1, <1>2, <1>3, BusyTypes
     DEF TInv, Once, Held, RunsOn, Running, RecordOf, OnceRequest, Handing, MemIs, RowIs,
         RequestIs, IsStored
<1>16. Ended'
  BY <1>1, <1>2, <1>3
     DEF TInv, Once, Ended, OnceRequest, Handing, MemIs, RowIs, RequestIs, IsStored
<1>. QED
  BY <1>4, <1>5, <1>6, <1>7, <1>8, <1>9, <1>10, <1>11, <1>12, <1>13, <1>14, <1>15, <1>16
     DEF TInv, Known, Once

LEMMA EnqueueKeeps ==
    ASSUME IInv, TInv, NEW c \in Clients, Enqueue(c)
    PROVE  TInv'
<1>. DEFINE i == request[c].at
            j == request[c].job
<1>1. /\ request[c].pc = "attached" /\ i \in Instances /\ j \in Jobs
      /\ RequestIs(c, "idle", None, None, Blank("absent"))
      /\ UNCHANGED <<db, run, mem, inst, todo, worker, applied, claims, faults>>
  BY EnqueueStep
<1>2. /\ \A k \in Instances : Queued(k)' = IF k = i THEN Queued(i) \cup {j} ELSE Queued(k)
      /\ \A k \in Instances :
            Distinct(queue[k]) /\ (k = i => j \notin Queued(i)) => Distinct(queue'[k])
  BY EnqueueStep
<1>3. HasRow' /\ KnownThread' /\ KnownTodo' /\ Held' /\ Ended'
  BY <1>1 DEF TInv, Known, HasRow, KnownThread, RecordOf, KnownTodo, Held, RunsOn, Ended
<1>4. Lives'
  BY <1>1, <1>2, NoNone DEF TInv, Lives, RequestIs
<1>5. Idle'
  BY <1>1, <1>2 DEF TInv, Idle, RequestIs
<1>6. KnownQueue'
  BY <1>1, <1>2 DEF TInv, Known, KnownQueue, HasRow, KnownRequest, RequestIs
<1>7. KnownRequest'
  BY <1>1, <1>2 DEF TInv, Known, KnownRequest, RequestIs
<1>8. KnownSnap'
  BY <1>1, <1>2 DEF TInv, Known, KnownSnap, RequestIs
<1>9. OnceQueue'
  BY <1>1, <1>2 DEF TInv, Once, OnceQueue, OnceRequest, Handing, RequestIs
<1>10. OnceThread'
  BY <1>1, <1>2 DEF TInv, Once, OnceThread, OnceRequest, Handing, RequestIs
<1>11. OnceRequest'
  BY <1>1, <1>2 DEF TInv, Once, OnceRequest, Handing, RequestIs
<1>12. OnceTodo'
  BY <1>1, <1>2 DEF TInv, Once, OnceTodo, Lives, RequestIs
<1>13. Waiting'
  BY <1>1, <1>2 DEF TInv, Waiting, Waits, Handing, RequestIs
<1>. QED
  BY <1>3, <1>4, <1>5, <1>6, <1>7, <1>8, <1>9, <1>10, <1>11, <1>12, <1>13 DEF TInv, Known, Once

LEMMA CancelKeeps ==
    ASSUME IInv, TInv, NEW c \in Clients, NEW i \in Instances, NEW j \in Jobs, Cancel(c, i, j)
    PROVE  TInv'
<1>1. /\ inst[i] = "up" /\ request[c].pc = "idle" /\ KnownRecord(i, j).status \in Active
      /\ RequestIs(c, "flagged", i, j, Blank("absent"))
      /\ UNCHANGED <<db, run, queue, inst, todo, worker, applied, claims, faults>>
  BY CancelStep
<1>2. PICK r \in Record : /\ MemIs(i, j, r) /\ r.status = KnownRecord(i, j).status
                          /\ r.owner = KnownRecord(i, j).owner
  BY CancelStep DEF Fields
<1>3. \A k \in Instances : Queued(k)' = Queued(k)
  BY <1>1 DEF Queued
<1>4. KnownTodo' /\ OnceQueue' /\ OnceThread' /\ OnceTodo'
  BY <1>1, <1>3 DEF TInv, Known, Once, KnownTodo, OnceQueue, OnceThread, OnceTodo
<1>5. Lives'
  BY <1>1, <1>2, <1>3 DEF TInv, Lives, MemIs, RequestIs, KnownRecord
<1>6. Idle'
  BY <1>1, <1>2, <1>3 DEF TInv, Idle, MemIs, RequestIs, KnownRecord
<1>7. HasRow'
  BY <1>1, <1>2, <1>3 DEF TInv, Known, HasRow, MemIs, RequestIs, KnownRecord
<1>8. KnownQueue'
  BY <1>1, <1>2, <1>3 DEF TInv, Known, KnownQueue, HasRow, MemIs, RequestIs, KnownRecord
<1>9. KnownThread'
  BY <1>1, <1>2, <1>3, BusyTypes
     DEF TInv, Known, KnownThread, RecordOf, MemIs, RequestIs, KnownRecord
<1>10. KnownRequest'
  BY <1>1, <1>2, <1>3, BusyTypes
     DEF TInv, Known, KnownRequest, MemIs, RequestIs, KnownRecord, Active
<1>11. KnownSnap'
  BY <1>1, <1>2, <1>3 DEF TInv, Known, KnownSnap, MemIs, RequestIs, KnownRecord
<1>12. OnceRequest'
  BY <1>1, <1>2, <1>3 DEF TInv, Once, OnceRequest, Handing, MemIs, RequestIs, KnownRecord
<1>13. Waiting'
  BY <1>1, <1>2, <1>3
     DEF TInv, Waiting, Waits, Handing, KnownQueue, KnownThread, MemIs, RequestIs, KnownRecord
<1>14. Held'
  BY <1>1, <1>2, <1>3, BusyTypes
     DEF TInv, Held, RunsOn, Running, RecordOf, KnownThread, MemIs, RequestIs, KnownRecord
<1>15. Ended'
  BY <1>1, <1>2, <1>3 DEF TInv, Known, Ended, RecordOf, KnownThread, MemIs, RequestIs, KnownRecord
<1>. QED
  BY <1>4, <1>5, <1>6, <1>7, <1>8, <1>9, <1>10, <1>11, <1>12, <1>13, <1>14, <1>15
     DEF TInv, Known, Once

LEMMA CancelTerminalKeeps ==
    ASSUME IInv, TInv, NEW c \in Clients, NEW i \in Instances, NEW j \in Jobs, CancelTerminal(c, i, j)
    PROVE  TInv'
<1>1. /\ inst[i] = "up" /\ request[c].pc = "idle" /\ KnownRecord(i, j).status \in Terminal
      /\ MemIs(i, j, KnownRecord(i, j))
      /\ RequestIs(c, "blocked", i, j, Blank("absent"))
      /\ UNCHANGED <<db, run, queue, inst, todo, worker, applied, claims, faults>>
  BY CancelTerminalStep
<1>2. \A k \in Instances : Queued(k)' = Queued(k)
  BY <1>1 DEF Queued
<1>3. KnownTodo' /\ OnceQueue' /\ OnceThread' /\ OnceTodo'
  BY <1>1, <1>2 DEF TInv, Known, Once, KnownTodo, OnceQueue, OnceThread, OnceTodo
<1>4. Lives'
  BY <1>1, <1>2 DEF TInv, Lives, MemIs, RequestIs, KnownRecord
<1>5. Idle'
  BY <1>1, <1>2 DEF TInv, Idle, MemIs, RequestIs, KnownRecord
<1>6. HasRow'
  BY <1>1, <1>2 DEF TInv, Known, HasRow, MemIs, RequestIs, KnownRecord
<1>7. KnownQueue'
  BY <1>1, <1>2 DEF TInv, Known, KnownQueue, HasRow, MemIs, RequestIs, KnownRecord
<1>8. KnownThread'
  BY <1>1, <1>2, BusyTypes DEF TInv, Known, KnownThread, RecordOf, MemIs, RequestIs, KnownRecord
<1>9. KnownRequest'
  BY <1>1, <1>2, BusyTypes DEF TInv, Known, KnownRequest, MemIs, RequestIs, KnownRecord, Terminal
<1>10. KnownSnap'
  BY <1>1, <1>2 DEF TInv, Known, KnownSnap, MemIs, RequestIs, KnownRecord
<1>11. OnceRequest'
  BY <1>1, <1>2 DEF TInv, Once, OnceRequest, Handing, MemIs, RequestIs, KnownRecord
<1>12. Waiting'
  BY <1>1, <1>2
     DEF TInv, Waiting, Waits, Handing, KnownQueue, KnownThread, MemIs, RequestIs, KnownRecord
<1>13. Held'
  BY <1>1, <1>2, BusyTypes
     DEF TInv, Held, RunsOn, Running, RecordOf, KnownThread, MemIs, RequestIs, KnownRecord
<1>14. Ended'
  BY <1>1, <1>2 DEF TInv, Known, Ended, RecordOf, KnownThread, MemIs, RequestIs, KnownRecord
<1>. QED
  BY <1>3, <1>4, <1>5, <1>6, <1>7, <1>8, <1>9, <1>10, <1>11, <1>12, <1>13, <1>14
     DEF TInv, Known, Once

LEMMA SnapCancelKeeps ==
    ASSUME IInv, TInv, NEW c \in Clients, SnapCancel(c)
    PROVE  TInv'
<1>1. /\ request[c].pc = "flagged" /\ request[c].job \in Jobs /\ request[c].at \in Instances
      /\ RequestIs(c, "snapped", request[c].at, request[c].job, mem[request[c].at][request[c].job])
      /\ UNCHANGED <<db, run, mem, queue, inst, todo, worker, applied, claims, faults>>
  BY SnapCancelStep
<1>2. \A k \in Instances : Queued(k)' = Queued(k)
  BY <1>1 DEF Queued
<1>3. HasRow' /\ KnownQueue' /\ KnownThread' /\ KnownTodo' /\ OnceQueue' /\ OnceThread'
      /\ OnceTodo' /\ Held' /\ Ended'
  BY <1>1, <1>2
     DEF TInv, Known, Once, HasRow, KnownQueue, KnownThread, RecordOf, KnownTodo, OnceQueue,
         OnceThread, OnceTodo, Held, RunsOn, Ended
<1>4. Lives'
  BY <1>1, <1>2 DEF TInv, Lives, RequestIs
<1>5. Idle'
  BY <1>1, <1>2 DEF TInv, Idle, RequestIs
<1>6. KnownRequest'
  BY <1>1, <1>2 DEF TInv, Known, KnownRequest, RequestIs
<1>7. KnownSnap'
  BY <1>1, <1>2 DEF TInv, Known, KnownSnap, KnownRequest, RequestIs
<1>8. OnceRequest'
  BY <1>1, <1>2 DEF TInv, Once, OnceRequest, Handing, RequestIs
<1>9. Waiting'
  BY <1>1, <1>2 DEF TInv, Waiting, Waits, Handing, RequestIs
<1>. QED
  BY <1>3, <1>4, <1>5, <1>6, <1>7, <1>8, <1>9 DEF TInv, Known, Once

LEMMA PersistCancelKeeps ==
    ASSUME IInv, TInv, NEW c \in Clients, PersistCancel(c)
    PROVE  TInv'
<1>1. /\ request[c].pc = "snapped" /\ request[c].job \in Jobs
      /\ RequestIs(c, "idle", None, None, Blank("absent"))
      /\ UNCHANGED <<run, mem, queue, inst, todo, worker, applied, claims>>
  BY PersistCancelStep
<1>2. \A l \in Jobs : db'[l].status \in {db[l].status, IF l = request[c].job THEN request[c].snap.status
                                                        ELSE db[l].status}
  BY PersistCancelStep DEF RowIs, IsStored
<1>3. \A k \in Instances : Queued(k)' = Queued(k)
  BY <1>1 DEF Queued
<1>4. KnownQueue' /\ KnownThread' /\ OnceQueue' /\ OnceThread' /\ OnceTodo' /\ Held' /\ Ended'
  BY <1>1, <1>3
     DEF TInv, Known, Once, KnownQueue, HasRow, KnownThread, RecordOf, OnceQueue, OnceThread,
         OnceTodo, Held, RunsOn, Ended
<1>5. Lives'
  BY <1>1, <1>2, <1>3, NoNone DEF TInv, Lives, RequestIs
<1>6. Idle'
  BY <1>1, <1>2, <1>3 DEF TInv, Idle, RequestIs
<1>7. HasRow'
  BY <1>1, <1>2, <1>3 DEF TInv, Known, HasRow, KnownSnap, RequestIs
<1>8. KnownRequest'
  BY <1>1, <1>2, <1>3 DEF TInv, Known, KnownRequest, RequestIs
<1>9. KnownSnap'
  BY <1>1, <1>2, <1>3 DEF TInv, Known, KnownSnap, RequestIs
<1>10. KnownTodo'
  BY <1>1, <1>2, <1>3, TodoTypes DEF TInv, Known, KnownTodo, KnownSnap, RequestIs
<1>11. OnceRequest'
  BY <1>1, <1>2, <1>3 DEF TInv, Once, OnceRequest, Handing, RequestIs
<1>12. Waiting'
  BY <1>1, <1>2, <1>3 DEF TInv, Waiting, Waits, Handing, RequestIs
<1>. QED
  BY <1>4, <1>5, <1>6, <1>7, <1>8, <1>9, <1>10, <1>11, <1>12 DEF TInv, Known, Once

LEMMA ReadRowKeeps ==
    ASSUME IInv, TInv, NEW i \in Instances, NEW j \in Jobs, GetJob(i, j) \/ ReuseRow(i, j)
    PROVE  TInv'
<1>1. /\ inst[i] = "up" /\ MemIs(i, j, db[j]) /\ db[j].status # "absent"
      /\ \/ mem[i][j].status = "absent"
         \/ Repeatable(j) /\ mem[i][j].status \in {"failed", "cancelled"}
      /\ UNCHANGED <<db, run, queue, inst, todo, worker, request, applied, claims, faults>>
  BY ReadRowStep
<1>2. \A k \in Instances : Queued(k)' = Queued(k)
  BY <1>1 DEF Queued
<1>3. Idle' /\ KnownSnap' /\ KnownTodo' /\ OnceQueue' /\ OnceThread' /\ OnceRequest' /\ OnceTodo'
  BY <1>1, <1>2
     DEF TInv, Known, Once, Idle, KnownSnap, KnownTodo, OnceQueue, OnceThread, OnceRequest,
         Handing, OnceTodo
<1>4. Lives'
  BY <1>1, <1>2 DEF TInv, Lives, MemIs
<1>5. HasRow'
  BY <1>1, <1>2 DEF TInv, Known, HasRow, MemIs
<1>6. KnownQueue'
  BY <1>1, <1>2 DEF TInv, Known, KnownQueue, HasRow, MemIs
<1>7. KnownThread'
  BY <1>1, <1>2, BusyTypes DEF TInv, Known, KnownThread, RecordOf, MemIs
<1>8. KnownRequest'
  BY <1>1, <1>2, BusyTypes DEF TInv, Known, KnownRequest, MemIs
<1>9. Waiting'
  BY <1>1, <1>2 DEF TInv, Waiting, Waits, Handing, KnownQueue, KnownThread, MemIs
<1>10. Held'
  BY <1>1, <1>2, BusyTypes DEF TInv, Held, RunsOn, Running, RecordOf, KnownThread, MemIs
<1>11. Ended'
  BY <1>1, <1>2 DEF TInv, Known, Ended, RecordOf, KnownThread, MemIs
<1>. QED
  BY <1>3, <1>4, <1>5, <1>6, <1>7, <1>8, <1>9, <1>10, <1>11 DEF TInv, Known, Once

LEMMA TakeKeeps ==
    ASSUME IInv, TInv, NEW i \in Instances, NEW w \in Workers, Take(i, w)
    PROVE  TInv'
<1>. DEFINE j == Head(queue[i])
<1>1. /\ inst[i] = "up" /\ worker[i][w].pc = "idle" /\ j \in Queued(i) /\ j \in Jobs
      /\ ThreadIs(i, w, "taken", j, Blank("absent"))
      /\ UNCHANGED <<db, run, mem, inst, todo, request, applied, claims, faults>>
      /\ \A k \in Instances : Queued(k)' = IF k = i THEN Queued(i) \ {j} ELSE Queued(k)
      /\ \A k \in Instances : Distinct(queue[k]) => Distinct(queue'[k])
  BY TakeStep DEF TInv, Once, OnceQueue
<1>. HIDE DEF j
<1>2. HasRow' /\ KnownRequest' /\ KnownTodo'
  BY <1>1 DEF TInv, Known, HasRow, KnownRequest, KnownTodo
<1>3. Lives'
  BY <1>1 DEF TInv, Lives, ThreadIs
<1>4. Idle'
  BY <1>1 DEF TInv, Idle, ThreadIs
<1>5. KnownQueue'
  BY <1>1 DEF TInv, Known, KnownQueue, HasRow, ThreadIs
<1>6. KnownThread'
  BY <1>1 DEF TInv, Known, KnownThread, RecordOf, KnownQueue, ThreadIs
<1>7. KnownSnap'
  BY <1>1 DEF TInv, Known, KnownSnap, ThreadIs
<1>8. OnceQueue'
  BY <1>1 DEF TInv, Once, OnceQueue, ThreadIs
<1>9. OnceThread'
  BY <1>1 DEF TInv, Once, OnceThread, ThreadIs
<1>10. OnceRequest'
  BY <1>1 DEF TInv, Once, OnceRequest, Handing, OnceThread, ThreadIs
<1>11. OnceTodo'
  BY <1>1 DEF TInv, Once, OnceTodo, ThreadIs
<1>12. Waiting'
  BY <1>1 DEF TInv, Waiting, Waits, Handing, ThreadIs
<1>13. Held'
  BY <1>1 DEF TInv, Held, RunsOn, Running, RecordOf, ThreadIs
<1>14. Ended'
  BY <1>1 DEF TInv, Ended, KnownThread, ThreadIs
<1>. QED
  BY <1>2, <1>3, <1>4, <1>5, <1>6, <1>7, <1>8, <1>9, <1>10, <1>11, <1>12, <1>13, <1>14
     DEF TInv, Known, Once

LEMMA ClaimKeeps ==
    ASSUME IInv, TInv, NEW i \in Instances, NEW w \in Workers, Claim(i, w)
    PROVE  TInv'
<1>. DEFINE j == worker[i][w].job
<1>1. /\ worker[i][w].pc = "taken" /\ j \in Jobs
      /\ ThreadIs(i, w, "claimed", j, worker[i][w].snap)
      /\ UNCHANGED <<run, mem, queue, inst, todo, request, applied, faults>>
  BY ClaimStep
<1>2. PICK r \in Record : RowIs(j, r) /\ r.status = "running"
  BY ClaimStep DEF Fields
<1>3. \A k \in Instances : Queued(k)' = Queued(k)
  BY <1>1 DEF Queued
<1>4. KnownQueue' /\ KnownRequest' /\ OnceQueue' /\ OnceTodo'
  BY <1>1, <1>3 DEF TInv, Known, Once, KnownQueue, HasRow, KnownRequest, OnceQueue, OnceTodo
<1>5. Lives'
  BY <1>1, <1>2, <1>3 DEF TInv, Lives, ThreadIs, RowIs
<1>6. Idle'
  BY <1>1, <1>2, <1>3 DEF TInv, Idle, ThreadIs, RowIs
<1>7. HasRow'
  BY <1>1, <1>2, <1>3 DEF TInv, Known, HasRow, ThreadIs, RowIs
<1>8. KnownThread'
  BY <1>1, <1>2, <1>3 DEF TInv, Known, KnownThread, RecordOf, ThreadIs, RowIs
<1>9. KnownSnap'
  BY <1>1, <1>2, <1>3 DEF TInv, Known, KnownSnap, ThreadIs, RowIs
<1>10. KnownTodo'
  BY <1>1, <1>2, <1>3, TodoTypes DEF TInv, Known, KnownTodo, ThreadIs, RowIs
<1>11. OnceThread'
  BY <1>1, <1>2, <1>3 DEF TInv, Once, OnceThread, ThreadIs, RowIs
<1>12. OnceRequest'
  BY <1>1, <1>2, <1>3 DEF TInv, Once, OnceRequest, Handing, ThreadIs, RowIs
<1>13. Waiting'
  BY <1>1, <1>2, <1>3 DEF TInv, Waiting, Waits, Handing, ThreadIs, RowIs
<1>14. Held'
  BY <1>1, <1>2, <1>3 DEF TInv, Held, RunsOn, Running, RecordOf, ThreadIs, RowIs
<1>15. Ended'
  BY <1>1, <1>2, <1>3 DEF TInv, Ended, ThreadIs, RowIs
<1>. QED
  BY <1>4, <1>5, <1>6, <1>7, <1>8, <1>9, <1>10, <1>11, <1>12, <1>13, <1>14, <1>15
     DEF TInv, Known, Once

LEMMA ClaimLostKeeps ==
    ASSUME IInv, TInv, NEW i \in Instances, NEW w \in Workers, ClaimLost(i, w)
    PROVE  TInv'
<1>1. /\ worker[i][w].pc = "taken"
      /\ ThreadIs(i, w, "idle", None, Blank("absent"))
      /\ UNCHANGED <<db, run, mem, queue, inst, todo, request, applied, claims, faults>>
  BY ClaimLostStep
<1>2. \A k \in Instances : Queued(k)' = Queued(k)
  BY <1>1 DEF Queued
<1>3. HasRow' /\ KnownQueue' /\ KnownRequest' /\ KnownTodo' /\ OnceQueue' /\ OnceTodo'
  BY <1>1, <1>2
     DEF TInv, Known, Once, HasRow, KnownQueue, KnownRequest, KnownTodo, OnceQueue, OnceTodo
<1>4. Lives'
  BY <1>1, <1>2 DEF TInv, Lives, ThreadIs
<1>5. Idle'
  BY <1>1, <1>2 DEF TInv, Idle, ThreadIs
<1>6. KnownThread'
  BY <1>1, <1>2 DEF TInv, Known, KnownThread, RecordOf, ThreadIs
<1>7. KnownSnap'
  BY <1>1, <1>2 DEF TInv, Known, KnownSnap, ThreadIs
<1>8. OnceThread'
  BY <1>1, <1>2, QueuedTypes, NoNone DEF TInv, Once, OnceThread, ThreadIs
<1>9. OnceRequest'
  BY <1>1, <1>2, NoNone DEF TInv, Once, OnceRequest, Handing, ThreadIs
<1>10. Waiting'
  BY <1>1, <1>2 DEF TInv, Waiting, Waits, Handing, ThreadIs
<1>11. Held'
  BY <1>1, <1>2 DEF TInv, Held, RunsOn, Running, RecordOf, ThreadIs
<1>12. Ended'
  BY <1>1, <1>2 DEF TInv, Ended, ThreadIs
<1>. QED
  BY <1>3, <1>4, <1>5, <1>6, <1>7, <1>8, <1>9, <1>10, <1>11, <1>12 DEF TInv, Known, Once

LEMMA ClaimRecordKeeps ==
    ASSUME IInv, TInv, NEW i \in Instances, NEW w \in Workers, ClaimRecord(i, w)
    PROVE  TInv'
<1>. DEFINE j == worker[i][w].job
<1>1. /\ worker[i][w].pc = "claimed" /\ j \in Jobs /\ inst[i] = "up"
      /\ ThreadIs(i, w, "begin", j, worker[i][w].snap)
      /\ UNCHANGED <<db, run, queue, inst, todo, request, applied, claims, faults>>
  BY ClaimRecordStep
<1>2. PICK r \in Record : MemIs(i, j, r)
                       /\ Fields(r, "running", mem[i][j].cancel, mem[i][j].retry, i, TRUE)
  BY ClaimRecordStep
<1>3. \A k \in Instances : Queued(k)' = Queued(k)
  BY <1>1 DEF Queued
<1>4. KnownTodo' /\ OnceQueue' /\ OnceTodo'
  BY <1>1, <1>3 DEF TInv, Known, Once, KnownTodo, OnceQueue, OnceTodo
<1>5. Lives'
  BY <1>1, <1>2, <1>3 DEF TInv, Lives, ThreadIs, MemIs
<1>6. Idle'
  BY <1>1, <1>2, <1>3 DEF TInv, Idle, ThreadIs, MemIs
<1>7. HasRow'
  BY <1>1, <1>2, <1>3 DEF TInv, Known, HasRow, KnownThread, RecordOf, ThreadIs, MemIs
<1>8. KnownQueue'
  BY <1>1, <1>2, <1>3 DEF TInv, Known, KnownQueue, HasRow, ThreadIs, MemIs, Fields
<1>9. KnownThread'
  BY <1>1, <1>2, <1>3, BusyTypes DEF TInv, Known, KnownThread, RecordOf, ThreadIs, MemIs, Fields
<1>10. KnownRequest'
  BY <1>1, <1>2, <1>3, BusyTypes DEF TInv, Known, KnownRequest, ThreadIs, MemIs, Fields
<1>11. KnownSnap'
  BY <1>1, <1>2, <1>3 DEF TInv, Known, KnownSnap, ThreadIs, MemIs
<1>12. OnceThread'
  BY <1>1, <1>2, <1>3 DEF TInv, Once, OnceThread, ThreadIs, MemIs
<1>13. OnceRequest'
  BY <1>1, <1>2, <1>3 DEF TInv, Once, OnceRequest, Handing, ThreadIs, MemIs
<1>14. Waiting'
  BY <1>1, <1>2, <1>3
     DEF TInv, Once, Waiting, Waits, Handing, OnceThread, OnceRequest, ThreadIs, MemIs
<1>15. Held'
  BY <1>1, <1>2, <1>3, BusyTypes
     DEF TInv, Held, RunsOn, Running, RecordOf, OnceThread, ThreadIs, MemIs, Fields
<1>16. Ended'
  BY <1>1, <1>2, <1>3 DEF TInv, Once, Ended, OnceThread, ThreadIs, MemIs
<1>. QED
  BY <1>4, <1>5, <1>6, <1>7, <1>8, <1>9, <1>10, <1>11, <1>12, <1>13, <1>14, <1>15, <1>16
     DEF TInv, Known, Once

LEMMA CheckPassesKeeps ==
    ASSUME IInv, TInv, NEW i \in Instances, NEW w \in Workers, CheckPasses(i, w)
    PROVE  TInv'
<1>1. /\ worker[i][w].job \in Jobs /\ worker[i][w].pc \in Running
      /\ UNCHANGED <<db, run, mem, queue, inst, todo, request, applied, claims>>
  BY CheckPassesStep DEF Running
<1>2. PICK pc \in {"entered", "commit", "rechecked"} :
         ThreadIs(i, w, pc, worker[i][w].job, worker[i][w].snap)
  BY CheckPassesStep
<1>3. \A k \in Instances : Queued(k)' = Queued(k)
  BY <1>1 DEF Queued
<1>4. HasRow' /\ KnownQueue' /\ KnownRequest' /\ KnownTodo' /\ OnceQueue' /\ OnceTodo'
  BY <1>1, <1>3
     DEF TInv, Known, Once, HasRow, KnownQueue, KnownRequest, KnownTodo, OnceQueue, OnceTodo
<1>5. Lives'
  BY <1>1, <1>2, <1>3 DEF TInv, Lives, ThreadIs, Running
<1>6. Idle'
  BY <1>1, <1>2, <1>3 DEF TInv, Idle, ThreadIs
<1>7. KnownThread'
  BY <1>1, <1>2, <1>3 DEF TInv, Known, KnownThread, RecordOf, ThreadIs, Running
<1>8. KnownSnap'
  BY <1>1, <1>2, <1>3 DEF TInv, Known, KnownSnap, ThreadIs
<1>9. OnceThread'
  BY <1>1, <1>2, <1>3 DEF TInv, Once, OnceThread, ThreadIs
<1>10. OnceRequest'
  BY <1>1, <1>2, <1>3 DEF TInv, Once, OnceRequest, Handing, ThreadIs
<1>11. Waiting'
  BY <1>1, <1>2, <1>3 DEF TInv, Waiting, Waits, Handing, ThreadIs
<1>12. Held'
  BY <1>1, <1>2, <1>3 DEF TInv, Held, RunsOn, RecordOf, ThreadIs
<1>13. Ended'
  BY <1>1, <1>2, <1>3 DEF TInv, Ended, ThreadIs
<1>. QED
  BY <1>4, <1>5, <1>6, <1>7, <1>8, <1>9, <1>10, <1>11, <1>12, <1>13 DEF TInv, Known, Once

LEMMA ApplyKeeps ==
    ASSUME IInv, TInv, NEW i \in Instances, NEW w \in Workers, Apply(i, w)
    PROVE  TInv'
<1>1. /\ worker[i][w].pc = "commit" /\ worker[i][w].job \in Jobs
      /\ ThreadIs(i, w, "applied", worker[i][w].job, worker[i][w].snap)
      /\ UNCHANGED <<db, run, mem, queue, inst, todo, request, claims, faults>>
  BY ApplyStep
<1>2. \A k \in Instances : Queued(k)' = Queued(k)
  BY <1>1 DEF Queued
<1>3. HasRow' /\ KnownQueue' /\ KnownRequest' /\ KnownTodo' /\ OnceQueue' /\ OnceTodo'
  BY <1>1, <1>2
     DEF TInv, Known, Once, HasRow, KnownQueue, KnownRequest, KnownTodo, OnceQueue, OnceTodo
<1>4. Lives'
  BY <1>1, <1>2 DEF TInv, Lives, ThreadIs
<1>5. Idle'
  BY <1>1, <1>2 DEF TInv, Idle, ThreadIs
<1>6. KnownThread'
  BY <1>1, <1>2 DEF TInv, Known, KnownThread, RecordOf, ThreadIs
<1>7. KnownSnap'
  BY <1>1, <1>2 DEF TInv, Known, KnownSnap, ThreadIs
<1>8. OnceThread'
  BY <1>1, <1>2 DEF TInv, Once, OnceThread, ThreadIs
<1>9. OnceRequest'
  BY <1>1, <1>2 DEF TInv, Once, OnceRequest, Handing, ThreadIs
<1>10. Waiting'
  BY <1>1, <1>2 DEF TInv, Waiting, Waits, Handing, ThreadIs
<1>11. Held'
  BY <1>1, <1>2 DEF TInv, Held, RunsOn, Running, RecordOf, ThreadIs
<1>12. Ended'
  BY <1>1, <1>2 DEF TInv, Ended, ThreadIs
<1>. QED
  BY <1>3, <1>4, <1>5, <1>6, <1>7, <1>8, <1>9, <1>10, <1>11, <1>12 DEF TInv, Known, Once

LEMMA SnapshotKeeps ==
    ASSUME IInv, TInv, NEW i \in Instances, NEW w \in Workers,
           NEW j \in Jobs, NEW r \in Record, NEW pc \in {"persist", "persistResult"},
           inst[i] = "up", worker[i][w].pc # "idle", worker[i][w].job = j,
           MemIs(i, j, r), ThreadIs(i, w, pc, j, r), r.status # "absent",
           r.status = "running" => r.owner = i \/ pc # "persist",
           pc = "persistResult" => worker[i][w].pc = "attach" /\ r.status = mem[i][j].status, UNCHANGED <<db, run, queue, inst, todo, request, applied, claims>>
    PROVE  TInv'
<1>1. UNCHANGED <<db, run, queue, inst, todo, request, applied, claims>> /\ inst[i] = "up"
      /\ worker[i][w].pc # "idle" /\ worker[i][w].job = j
  OBVIOUS
<1>2. \A k \in Instances, l \in Jobs : mem'[k][l] = IF k = i /\ l = j THEN r ELSE mem[k][l]
  BY DEF MemIs
<1>3. \A k \in Instances, v \in Workers :
         k # i \/ v # w => /\ worker'[k][v].pc = worker[k][v].pc
                          /\ worker'[k][v].job = worker[k][v].job
                          /\ worker'[k][v].snap = worker[k][v].snap
  BY DEF ThreadIs
<1>4. worker'[i][w].pc = pc /\ worker'[i][w].job = j /\ worker'[i][w].snap = r
  BY DEF ThreadIs
<1>5. \A k \in Instances : Queued(k)' = Queued(k)
  BY <1>1 DEF Queued
<1>6. KnownTodo' /\ OnceQueue' /\ OnceTodo'
  BY <1>1, <1>5 DEF TInv, Known, Once, KnownTodo, OnceQueue, OnceTodo
<1>7. Lives'
  BY <1>1, <1>2, <1>3, <1>4, <1>5 DEF TInv, Lives
<1>8. Idle'
  BY <1>1, <1>2, <1>3, <1>4, <1>5 DEF TInv, Idle
<1>9. HasRow'
  BY <1>1, <1>2, <1>3, <1>4, <1>5 DEF TInv, Known, HasRow, KnownThread, RecordOf
<1>10. KnownQueue'
  BY <1>1, <1>2, <1>3, <1>4, <1>5 DEF TInv, Known, KnownQueue, HasRow
<1>11. KnownThread'
  BY <1>1, <1>2, <1>3, <1>4, <1>5, BusyTypes DEF TInv, Known, KnownThread, RecordOf
<1>12. KnownRequest'
  BY <1>1, <1>2, <1>3, <1>4, <1>5, BusyTypes DEF TInv, Known, KnownRequest
<1>13. KnownSnap'
  BY <1>1, <1>2, <1>3, <1>4, <1>5 DEF TInv, Known, KnownSnap
<1>14. OnceThread'
  BY <1>1, <1>2, <1>3, <1>4, <1>5 DEF TInv, Once, OnceThread
<1>15. OnceRequest'
  BY <1>1, <1>2, <1>3, <1>4, <1>5 DEF TInv, Once, OnceRequest, Handing
<1>16. Waiting'
  BY <1>1, <1>2, <1>3, <1>4, <1>5 DEF TInv, Once, Waiting, Waits, Handing, OnceThread, OnceRequest
<1>17. Held'
  BY <1>1, <1>2, <1>3, <1>4, <1>5, BusyTypes
     DEF TInv, Once, Held, RunsOn, Running, RecordOf, OnceThread
<1>18. Ended'
  BY <1>1, <1>2, <1>3, <1>4, <1>5 DEF TInv, Once, Ended, OnceThread
<1>. QED
  BY <1>6, <1>7, <1>8, <1>9, <1>10, <1>11, <1>12, <1>13, <1>14, <1>15, <1>16, <1>17, <1>18
     DEF TInv, Known, Once

LEMMA ReportKeeps ==
    ASSUME IInv, TInv, NEW i \in Instances, NEW w \in Workers, Report(i, w)
    PROVE  TInv'
<1>. DEFINE j == worker[i][w].job
<1>1. inst[i] = "up" /\ worker[i][w].pc # "idle" /\ j \in Jobs
      /\ UNCHANGED <<db, run, queue, inst, todo, request, applied, claims>>
  BY ReportStep DEF Updates
<1>2. PICK r \in Record :
         /\ MemIs(i, j, r) /\ ThreadIs(i, w, "persist", j, r)
         /\ Fields(r, "running", RecordOf(i, w).cancel, RecordOf(i, w).retry, RecordOf(i, w).owner,
                      RecordOf(i, w).fresh)
  BY ReportStep DEF Updates, RecordOf
<1>3. RecordOf(i, w).owner = i
  BY <1>1, ReportStep DEF TInv, Held, RunsOn, Running
<1>. QED
  BY <1>1, <1>2, <1>3, SnapshotKeeps DEF Fields

LEMMA StopKeeps ==
    ASSUME IInv, TInv, NEW i \in Instances, NEW w \in Workers, Stop(i, w)
    PROVE  TInv'
<1>. DEFINE j == worker[i][w].job
<1>1. inst[i] = "up" /\ worker[i][w].pc # "idle" /\ j \in Jobs
      /\ UNCHANGED <<db, run, queue, inst, todo, request, applied, claims>>
  BY StopStep DEF Updates
<1>2. PICK r \in Record :
         MemIs(i, j, r) /\ ThreadIs(i, w, "persist", j, r) /\ r.status = "cancelled"
  BY StopStep DEF Updates, Fields
<1>. QED
  BY <1>1, <1>2, SnapshotKeeps

LEMMA FailKeeps ==
    ASSUME IInv, TInv, NEW i \in Instances, NEW w \in Workers, Fail(i, w)
    PROVE  TInv'
<1>. DEFINE j == worker[i][w].job
<1>1. inst[i] = "up" /\ worker[i][w].pc # "idle" /\ j \in Jobs
      /\ UNCHANGED <<db, run, queue, inst, todo, request, applied, claims>>
  BY FailStep DEF Updates
<1>2. PICK r \in Record :
         MemIs(i, j, r) /\ ThreadIs(i, w, "persist", j, r) /\ r.status = "failed"
  BY FailStep DEF Updates, Fields
<1>. QED
  BY <1>1, <1>2, SnapshotKeeps

LEMMA CompleteKeeps ==
    ASSUME IInv, TInv, NEW i \in Instances, NEW w \in Workers, Complete(i, w)
    PROVE  TInv'
<1>. DEFINE j == worker[i][w].job
<1>1. inst[i] = "up" /\ worker[i][w].pc # "idle" /\ j \in Jobs
      /\ UNCHANGED <<db, run, queue, inst, todo, request, applied, claims>>
  BY CompleteStep DEF Updates
<1>2. PICK r \in Record :
         MemIs(i, j, r) /\ ThreadIs(i, w, "persist", j, r) /\ r.status = "completed"
  BY CompleteStep DEF Updates, Fields
<1>. QED
  BY <1>1, <1>2, SnapshotKeeps

LEMMA AttachKeeps ==
    ASSUME IInv, TInv, NEW i \in Instances, NEW w \in Workers, Attach(i, w)
    PROVE  TInv'
<1>. DEFINE j == worker[i][w].job
<1>1. inst[i] = "up" /\ worker[i][w].pc # "idle" /\ j \in Jobs
      /\ UNCHANGED <<db, run, queue, inst, todo, request, applied, claims>>
  BY AttachStep DEF Updates
<1>2. PICK r \in Record :
         /\ MemIs(i, j, r) /\ ThreadIs(i, w, "persistResult", j, r)
         /\ Fields(r, RecordOf(i, w).status, RecordOf(i, w).cancel, RecordOf(i, w).retry, RecordOf(i, w).owner,
                      RecordOf(i, w).fresh)
  BY AttachStep DEF Updates, RecordOf
<1>3. worker[i][w].pc = "attach" /\ RecordOf(i, w).status # "absent" /\ RecordOf(i, w) = mem[i][j]
  BY <1>1, AttachStep DEF TInv, Known, KnownThread, RecordOf
<1>. QED
  BY <1>1, <1>2, <1>3, SnapshotKeeps DEF Fields

LEMMA PersistRecordKeeps ==
    ASSUME IInv, TInv, NEW i \in Instances, NEW w \in Workers, PersistRecord(i, w)
    PROVE  TInv'
<1>. DEFINE j == worker[i][w].job
            s == worker[i][w].snap
<1>1. /\ worker[i][w].pc \in {"persist", "persistResult"} /\ j \in Jobs /\ s \in Record
      /\ UNCHANGED <<run, mem, queue, inst, todo, request, applied, claims>>
  BY PersistRecordStep
<1>2. \A l \in Jobs : db'[l].status \in {db[l].status, IF l = j THEN s.status ELSE db[l].status}
  BY PersistRecordStep DEF Persisted, RowIs, IsStored
<1>3. \/ ThreadIs(i, w, "idle", None, Blank("absent"))
      \/ worker[i][w].pc = "persist" /\ ThreadIs(i, w, "sync", j, s)
      \/ /\ worker[i][w].pc = "persist" /\ s.status = "running"
         /\ ThreadIs(i, w, "work", j, Blank("absent"))
  BY PersistRecordStep
<1>4. \A k \in Instances : Queued(k)' = Queued(k)
  BY <1>1 DEF Queued
<1>5. KnownQueue' /\ KnownRequest' /\ OnceQueue' /\ OnceTodo'
  BY <1>1, <1>4 DEF TInv, Known, Once, KnownQueue, HasRow, KnownRequest, OnceQueue, OnceTodo
<1>6. Lives'
  BY <1>1, <1>2, <1>3, <1>4 DEF TInv, Lives, ThreadIs
<1>7. Idle'
  BY <1>1, <1>2, <1>3, <1>4 DEF TInv, Idle, ThreadIs
<1>8. HasRow'
  BY <1>1, <1>2, <1>3, <1>4 DEF TInv, Known, HasRow, KnownSnap, ThreadIs
<1>9. KnownThread'
  BY <1>1, <1>2, <1>3, <1>4 DEF TInv, Known, KnownThread, RecordOf, ThreadIs
<1>10. KnownSnap'
  BY <1>1, <1>2, <1>3, <1>4 DEF TInv, Known, KnownSnap, ThreadIs
<1>11. KnownTodo'
  BY <1>1, <1>2, <1>3, <1>4, TodoTypes DEF TInv, Known, KnownTodo, KnownSnap, ThreadIs
<1>12. OnceThread'
  BY <1>1, <1>2, <1>3, <1>4, QueuedTypes, NoNone DEF TInv, Once, OnceThread, ThreadIs
<1>13. OnceRequest'
  BY <1>1, <1>2, <1>3, <1>4, NoNone DEF TInv, Once, OnceRequest, Handing, ThreadIs
<1>14. Waiting'
  BY <1>1, <1>2, <1>3, <1>4 DEF TInv, Waiting, Waits, Handing, ThreadIs
<1>15. Held'
  BY <1>1, <1>2, <1>3, <1>4 DEF TInv, Held, RunsOn, Running, RecordOf, ThreadIs
<1>16. Ended'
  BY <1>1, <1>2, <1>3, <1>4 DEF TInv, Ended, ThreadIs
<1>. QED
  BY <1>5, <1>6, <1>7, <1>8, <1>9, <1>10, <1>11, <1>12, <1>13, <1>14, <1>15, <1>16
     DEF TInv, Known, Once

LEMMA SyncRunKeeps ==
    ASSUME IInv, TInv, NEW i \in Instances, NEW w \in Workers, SyncRun(i, w)
    PROVE  TInv'
<1>. DEFINE j == worker[i][w].job
            s == worker[i][w].snap
<1>1. /\ worker[i][w].pc = "sync" /\ j \in Jobs
      /\ UNCHANGED <<db, mem, queue, inst, todo, request, applied, claims>>
  BY SyncRunStep
<1>2. \/ ThreadIs(i, w, "idle", None, Blank("absent"))
      \/ s.status = "running" /\ ThreadIs(i, w, "work", j, Blank("absent"))
      \/ s.status = "completed" /\ ThreadIs(i, w, "attach", j, Blank("absent"))
  BY SyncRunStep
<1>3. \A k \in Instances : Queued(k)' = Queued(k)
  BY <1>1 DEF Queued
<1>4. HasRow' /\ KnownQueue' /\ KnownRequest' /\ KnownTodo' /\ OnceQueue' /\ OnceTodo'
  BY <1>1, <1>3
     DEF TInv, Known, Once, HasRow, KnownQueue, KnownRequest, KnownTodo, OnceQueue, OnceTodo
<1>5. Lives'
  BY <1>1, <1>2, <1>3 DEF TInv, Lives, ThreadIs
<1>6. Idle'
  BY <1>1, <1>2, <1>3 DEF TInv, Idle, ThreadIs
<1>7. KnownThread'
  BY <1>1, <1>2, <1>3 DEF TInv, Known, KnownThread, RecordOf, ThreadIs
<1>8. KnownSnap'
  BY <1>1, <1>2, <1>3 DEF TInv, Known, KnownSnap, ThreadIs
<1>9. OnceThread'
  BY <1>1, <1>2, <1>3, QueuedTypes, NoNone DEF TInv, Once, OnceThread, ThreadIs
<1>10. OnceRequest'
  BY <1>1, <1>2, <1>3, NoNone DEF TInv, Once, OnceRequest, Handing, ThreadIs
<1>11. Waiting'
  BY <1>1, <1>2, <1>3 DEF TInv, Waiting, Waits, Handing, ThreadIs
<1>12. Held'
  BY <1>1, <1>2, <1>3 DEF TInv, Held, RunsOn, Running, RecordOf, ThreadIs
<1>13. Ended'
  BY <1>1, <1>2, <1>3 DEF TInv, Ended, ThreadIs
<1>. QED
  BY <1>4, <1>5, <1>6, <1>7, <1>8, <1>9, <1>10, <1>11, <1>12, <1>13 DEF TInv, Known, Once

LEMMA StartKeeps ==
    ASSUME IInv, TInv, NEW i \in Instances, Start(i)
    PROVE  TInv'
<1>1. /\ inst[i] = "new" /\ UNCHANGED <<db, run, mem, queue, worker, request, applied, claims>>
      /\ \A k \in Instances : inst'[k] = IF k = i THEN "restoring" ELSE inst[k]
  BY StartStep
<1>2. \A k \in Instances : \A e \in todo'[k] :
         e \in todo[k] \/ (k = i /\ \E l \in Jobs : e = <<l, db[l]>> /\ Restorable(db[l]))
  <2>1. \A e \in Selected : \E l \in Jobs : e = <<l, db[l]>> /\ Restorable(db[l])
    BY DEF Selected
  <2>2. \A k \in Instances : k # i => todo'[k] = todo[k]
    BY StartStep
  <2>3. todo'[i] = Selected \/ todo'[i] = todo[i]
    BY StartStep
  <2>. QED
    BY <2>1, <2>2, <2>3
<1>3. \A k \in Instances : k # i => todo'[k] = todo[k]
  BY StartStep
<1>4. \A k \in Instances : Queued(k)' = Queued(k)
  BY <1>1 DEF Queued
<1>5. Idle' /\ HasRow' /\ KnownQueue' /\ KnownThread' /\ KnownRequest' /\ KnownSnap' /\ OnceQueue'
      /\ OnceThread' /\ OnceRequest' /\ Waiting' /\ Held' /\ Ended'
  BY <1>1, <1>4
     DEF TInv, Known, Once, Idle, HasRow, KnownQueue, KnownThread, RecordOf, KnownRequest,
         KnownSnap, OnceQueue, OnceThread, OnceRequest, Handing, Waiting, Waits, Held, RunsOn,
         Ended
<1>6. Lives'
  BY <1>1, <1>2, <1>3, <1>4 DEF TInv, Lives
<1>7. KnownTodo'
  BY <1>1, <1>2, <1>3, <1>4 DEF TInv, Known, KnownTodo, Restorable, Active
<1>8. OnceTodo'
  BY <1>1, <1>2, <1>3, <1>4 DEF TInv, Once, OnceTodo, Lives
<1>. QED
  BY <1>5, <1>6, <1>7, <1>8 DEF TInv, Known, Once

LEMMA RestoreJobKeeps ==
    ASSUME IInv, TInv, NEW i \in Instances, NEW e \in todo[i], RestoreJob(i, e)
    PROVE  TInv'
<1>. DEFINE j == e[1]
<1>1. /\ inst[i] = "restoring" /\ j \in Jobs /\ e[2] \in Record /\ Restorable(db[j])
      /\ \A k \in Instances : todo'[k] = IF k = i THEN todo[i] \ {e} ELSE todo[k]
      /\ UNCHANGED <<run, inst, worker, request, applied, claims>>
  BY RestoreJobStep
<1>2. PICK r \in Record, s \in Record :
         /\ MemIs(i, j, r) /\ RowIs(j, s)
         /\ r.status # "absent" /\ s.status # "absent"
         /\ \A k \in Instances :
               /\ Queued(k)' = IF k = i /\ r.status = "queued" THEN Queued(i) \cup {j}
                               ELSE Queued(k)
               /\ Distinct(queue[k]) /\ (k = i => j \notin Queued(i)) => Distinct(queue'[k])
  <2>1. PICK r \in Record, s \in Record :
           /\ MemIs(i, j, r) /\ IsRestored(i, e[2], r) /\ RowIs(j, s)
           /\ \/ IsStored(i, r, s)
              \/ Fields(s, "queued", db[j].cancel, db[j].retry, i, TRUE)
           /\ \A k \in Instances :
                 /\ Queued(k)' = IF k = i /\ r.status = "queued" THEN Queued(i) \cup {j}
                                 ELSE Queued(k)
                 /\ Distinct(queue[k]) /\ (k = i => j \notin Queued(i)) => Distinct(queue'[k])
    BY RestoreJobStep
  <2>2. r.status \in {"cancelled", "failed", "queued"} /\ s.status \in {r.status, "queued"}
    BY <2>1 DEF IsRestored, IsStored, Fields
  <2>. QED
    BY <2>1, <2>2
<1>. HIDE DEF j
<1>3. Idle' /\ KnownSnap'
  BY <1>1 DEF TInv, Known, Idle, KnownSnap
<1>4. Lives'
  BY <1>1, <1>2 DEF TInv, Lives, MemIs, RowIs
<1>5. HasRow'
  BY <1>1, <1>2 DEF TInv, Known, HasRow, MemIs, RowIs
<1>6. KnownQueue'
  BY <1>1, <1>2 DEF TInv, Known, KnownQueue, HasRow, MemIs, RowIs
<1>7. KnownThread'
  BY <1>1, <1>2, BusyTypes DEF TInv, Known, KnownThread, RecordOf, Lives, MemIs, RowIs
<1>8. KnownRequest'
  BY <1>1, <1>2, BusyTypes DEF TInv, Known, KnownRequest, MemIs, RowIs
<1>9. KnownTodo'
  BY <1>1, <1>2, TodoTypes DEF TInv, Known, KnownTodo, j, MemIs, RowIs
<1>10. OnceQueue'
  BY <1>1, <1>2 DEF TInv, Once, OnceQueue, OnceTodo, j, MemIs, RowIs
<1>11. OnceThread'
  BY <1>1, <1>2, NoNone DEF TInv, Once, OnceThread, Lives, Idle, MemIs, RowIs
<1>12. OnceRequest'
  BY <1>1, <1>2 DEF TInv, Once, OnceRequest, Handing, Lives, MemIs, RowIs
<1>13. OnceTodo'
  BY <1>1, <1>2 DEF TInv, Once, OnceTodo, j, MemIs, RowIs
<1>14. Waiting'
  BY <1>1, <1>2 DEF TInv, Once, Waiting, Waits, Handing, Lives, Idle, OnceTodo, j, MemIs, RowIs
<1>15. Held'
  BY <1>1, <1>2, BusyTypes DEF TInv, Held, RunsOn, Running, RecordOf, Lives, MemIs, RowIs
<1>16. Ended'
  BY <1>1, <1>2 DEF TInv, Ended, Lives, MemIs, RowIs
<1>. QED
  BY <1>3, <1>4, <1>5, <1>6, <1>7, <1>8, <1>9, <1>10, <1>11, <1>12, <1>13, <1>14, <1>15, <1>16
     DEF TInv, Known, Once

LEMMA RestoreLostKeeps ==
    ASSUME IInv, TInv, NEW i \in Instances, NEW e \in todo[i], RestoreLost(i, e)
    PROVE  TInv'
<1>1. /\ inst[i] = "restoring"
      /\ \A k \in Instances : todo'[k] = IF k = i THEN todo[i] \ {e} ELSE todo[k]
      /\ UNCHANGED <<db, run, mem, queue, inst, worker, request, applied, claims, faults>>
  BY RestoreLostStep
<1>2. \A k \in Instances : Queued(k)' = Queued(k)
  BY <1>1 DEF Queued
<1>3. Idle' /\ HasRow' /\ KnownQueue' /\ KnownThread' /\ KnownRequest' /\ KnownSnap' /\ OnceQueue'
      /\ OnceThread' /\ OnceRequest' /\ Waiting' /\ Held' /\ Ended'
  BY <1>1, <1>2
     DEF TInv, Known, Once, Idle, HasRow, KnownQueue, KnownThread, RecordOf, KnownRequest,
         KnownSnap, OnceQueue, OnceThread, OnceRequest, Handing, Waiting, Waits, Held, RunsOn,
         Ended
<1>4. Lives'
  BY <1>1, <1>2 DEF TInv, Lives
<1>5. KnownTodo'
  BY <1>1, <1>2 DEF TInv, Known, KnownTodo
<1>6. OnceTodo'
  BY <1>1, <1>2 DEF TInv, Once, OnceTodo
<1>. QED
  BY <1>3, <1>4, <1>5, <1>6 DEF TInv, Known, Once

LEMMA ServeKeeps ==
    ASSUME IInv, TInv, NEW i \in Instances, Serve(i)
    PROVE  TInv'
<1>1. /\ inst[i] = "restoring" /\ todo[i] = {}
      /\ \A k \in Instances : inst'[k] = IF k = i THEN "up" ELSE inst[k]
      /\ UNCHANGED <<db, run, mem, queue, todo, worker, request, applied, claims, faults>>
  BY ServeStep
<1>2. \A k \in Instances : Queued(k)' = Queued(k)
  BY <1>1 DEF Queued
<1>3. Idle' /\ HasRow' /\ KnownQueue' /\ KnownThread' /\ KnownRequest' /\ KnownSnap' /\ KnownTodo'
      /\ OnceQueue' /\ OnceThread' /\ OnceRequest' /\ OnceTodo' /\ Waiting' /\ Held' /\ Ended'
  BY <1>1, <1>2
     DEF TInv, Known, Once, Idle, HasRow, KnownQueue, KnownThread, RecordOf, KnownRequest,
         KnownSnap, KnownTodo, OnceQueue, OnceThread, OnceRequest, Handing, OnceTodo, Waiting,
         Waits, Held, RunsOn, Ended
<1>4. Lives'
  BY <1>1, <1>2 DEF TInv, Lives
<1>. QED
  BY <1>3, <1>4 DEF TInv, Known, Once

LEMMA CrashKeeps ==
    ASSUME IInv, TInv, NEW i \in Instances, Crash(i)
    PROVE  TInv'
<1>1. DeadIs(i) /\ UNCHANGED <<db, run, applied, claims, faults>>
  BY CrashStep
<1>2. Blank("absent").status = "absent"
  BY DEF Blank
<1>3. Lives'
  BY <1>1, <1>2, NoNone DEF TInv, Lives, DeadIs
<1>4. Idle'
  BY <1>1, <1>2 DEF TInv, Idle, DeadIs
<1>5. HasRow'
  BY <1>1, <1>2 DEF TInv, Known, HasRow, DeadIs
<1>6. KnownQueue'
  BY <1>1, <1>2 DEF TInv, Known, KnownQueue, HasRow, DeadIs
<1>7. KnownThread'
  BY <1>1, <1>2, BusyTypes DEF TInv, Known, KnownThread, RecordOf, DeadIs
<1>8. KnownRequest'
  BY <1>1, <1>2, BusyTypes DEF TInv, Known, KnownRequest, DeadIs
<1>9. KnownSnap'
  BY <1>1, <1>2 DEF TInv, Known, KnownSnap, DeadIs
<1>10. KnownTodo'
  BY <1>1, <1>2 DEF TInv, Known, KnownTodo, DeadIs
<1>11. OnceQueue'
  BY <1>1, <1>2 DEF TInv, Once, OnceQueue, DeadIs
<1>12. OnceThread'
  BY <1>1, <1>2, NoNone DEF TInv, Once, OnceThread, DeadIs
<1>13. OnceRequest'
  BY <1>1, <1>2 DEF TInv, Once, OnceRequest, Handing, DeadIs
<1>14. OnceTodo'
  BY <1>1, <1>2 DEF TInv, Once, OnceTodo, DeadIs
<1>15. Waiting'
  BY <1>1, <1>2 DEF TInv, Waiting, Waits, Handing, DeadIs
<1>16. Held'
  BY <1>1, <1>2, BusyTypes DEF TInv, Held, RunsOn, Running, RecordOf, DeadIs
<1>17. Ended'
  BY <1>1, <1>2 DEF TInv, Ended, DeadIs
<1>. QED
  BY <1>3, <1>4, <1>5, <1>6, <1>7, <1>8, <1>9, <1>10, <1>11, <1>12, <1>13, <1>14, <1>15, <1>16,
     <1>17
     DEF TInv, Known, Once

LEMMA CrashInRestoreKeeps ==
    ASSUME IInv, TInv, NEW i \in Instances, NEW e \in todo[i], CrashInRestore(i, e)
    PROVE  TInv'
<1>1. DeadIs(i) /\ e[1] \in Jobs
  BY CrashInRestoreStep
<1>2. PICK s \in Record : RowIs(e[1], s) /\ s.status = "queued"
  BY CrashInRestoreStep DEF Fields
<1>3. Blank("absent").status = "absent"
  BY DEF Blank
<1>4. Lives'
  BY <1>1, <1>2, <1>3 DEF TInv, Lives, DeadIs, RowIs
<1>5. Idle'
  BY <1>1, <1>2, <1>3 DEF TInv, Idle, DeadIs, RowIs
<1>6. HasRow'
  BY <1>1, <1>2, <1>3 DEF TInv, Known, HasRow, DeadIs, RowIs
<1>7. KnownQueue'
  BY <1>1, <1>2, <1>3 DEF TInv, Known, KnownQueue, HasRow, DeadIs, RowIs
<1>8. KnownThread'
  BY <1>1, <1>2, <1>3, BusyTypes DEF TInv, Known, KnownThread, RecordOf, DeadIs, RowIs
<1>9. KnownRequest'
  BY <1>1, <1>2, <1>3, BusyTypes DEF TInv, Known, KnownRequest, DeadIs, RowIs
<1>10. KnownSnap'
  BY <1>1, <1>2, <1>3 DEF TInv, Known, KnownSnap, DeadIs, RowIs
<1>11. KnownTodo'
  BY <1>1, <1>2, <1>3, TodoTypes DEF TInv, Known, KnownTodo, DeadIs, RowIs
<1>12. OnceQueue'
  BY <1>1, <1>2, <1>3 DEF TInv, Once, OnceQueue, DeadIs, RowIs
<1>13. OnceThread'
  BY <1>1, <1>2, <1>3, NoNone DEF TInv, Once, OnceThread, DeadIs, RowIs
<1>14. OnceRequest'
  BY <1>1, <1>2, <1>3 DEF TInv, Once, OnceRequest, Handing, DeadIs, RowIs
<1>15. OnceTodo'
  BY <1>1, <1>2, <1>3 DEF TInv, Once, OnceTodo, DeadIs, RowIs
<1>16. Waiting'
  BY <1>1, <1>2, <1>3 DEF TInv, Waiting, Waits, Handing, DeadIs, RowIs
<1>17. Held'
  BY <1>1, <1>2, <1>3, BusyTypes DEF TInv, Held, RunsOn, Running, RecordOf, DeadIs, RowIs
<1>18. Ended'
  BY <1>1, <1>2, <1>3 DEF TInv, Ended, DeadIs, RowIs
<1>. QED
  BY <1>4, <1>5, <1>6, <1>7, <1>8, <1>9, <1>10, <1>11, <1>12, <1>13, <1>14, <1>15, <1>16, <1>17,
     <1>18
     DEF TInv, Known, Once

LEMMA LeaseExpiresKeeps ==
    ASSUME IInv, TInv, NEW j \in Jobs, LeaseExpires(j)
    PROVE  TInv'
<1>1. UNCHANGED <<run, queue, inst, todo, worker, request, applied, claims, faults>>
  BY LeaseExpiresStep
<1>2. /\ \A l \in Jobs : db'[l].status = db[l].status
      /\ \A k \in Instances, l \in Jobs :
            mem'[k][l].status = mem[k][l].status /\ mem'[k][l].owner = mem[k][l].owner
  BY LeaseExpiresStep DEF Fields
<1>3. \A k \in Instances : Queued(k)' = Queued(k)
  BY <1>1 DEF Queued
<1>4. Idle' /\ KnownSnap' /\ OnceQueue' /\ OnceThread' /\ OnceRequest' /\ OnceTodo'
  BY <1>1, <1>3
     DEF TInv, Known, Once, Idle, KnownSnap, OnceQueue, OnceThread, OnceRequest, Handing, OnceTodo
<1>5. Lives'
  BY <1>1, <1>2, <1>3 DEF TInv, Lives
<1>6. HasRow'
  BY <1>1, <1>2, <1>3 DEF TInv, Known, HasRow
<1>7. KnownQueue'
  BY <1>1, <1>2, <1>3 DEF TInv, Known, KnownQueue, HasRow
<1>8. KnownThread'
  BY <1>1, <1>2, <1>3, BusyTypes DEF TInv, Known, KnownThread, RecordOf
<1>9. KnownRequest'
  BY <1>1, <1>2, <1>3, BusyTypes DEF TInv, Known, KnownRequest
<1>10. KnownTodo'
  BY <1>1, <1>2, <1>3, TodoTypes DEF TInv, Known, KnownTodo
<1>11. Waiting'
  BY <1>1, <1>2, <1>3 DEF TInv, Waiting, Waits, Handing
<1>12. Held'
  BY <1>1, <1>2, <1>3, BusyTypes DEF TInv, Held, RunsOn, Running, RecordOf
<1>13. Ended'
  BY <1>1, <1>2, <1>3 DEF TInv, Ended
<1>. QED
  BY <1>4, <1>5, <1>6, <1>7, <1>8, <1>9, <1>10, <1>11, <1>12, <1>13 DEF TInv, Known, Once

LEMMA SupersedeKeeps ==
    ASSUME IInv, TInv, NEW r \in Runs, Supersede(r)
    PROVE  TInv'
<1>1. UNCHANGED <<mem, queue, inst, todo, worker, request, applied, claims, faults>>
  BY SupersedeStep
<1>2. \A l \in Jobs : db'[l].status = db[l].status
  BY SupersedeStep DEF Fields
<1>3. \A k \in Instances : Queued(k)' = Queued(k)
  BY <1>1 DEF Queued
<1>4. Lives' /\ Idle' /\ KnownQueue' /\ KnownThread' /\ KnownRequest' /\ KnownSnap' /\ OnceQueue'
      /\ OnceThread' /\ OnceRequest' /\ OnceTodo' /\ Waiting' /\ Held' /\ Ended'
  BY <1>1, <1>3
     DEF TInv, Known, Once, Lives, Idle, KnownQueue, HasRow, KnownThread, RecordOf, KnownRequest,
         KnownSnap, OnceQueue, OnceThread, OnceRequest, Handing, OnceTodo, Waiting, Waits, Held,
         RunsOn, Ended
<1>5. HasRow'
  BY <1>1, <1>2, <1>3 DEF TInv, Known, HasRow
<1>6. KnownTodo'
  BY <1>1, <1>2, <1>3, TodoTypes DEF TInv, Known, KnownTodo
<1>. QED
  BY <1>4, <1>5, <1>6 DEF TInv, Known, Once
LEMMA TInit == Init => TInv
<1>. SUFFICES ASSUME Init PROVE TInv
  OBVIOUS
<1>1. /\ \A j \in Jobs : db[j].status = "absent"
      /\ \A i \in Instances, j \in Jobs : mem[i][j].status = "absent"
  BY DEF Init, Blank
<1>2. \A i \in Instances : queue[i] = <<>> /\ inst[i] = "new" /\ todo[i] = {}
  BY DEF Init
<1>3. \A i \in Instances, w \in Workers : worker[i][w].pc = "idle" /\ worker[i][w].job = None
  BY IdleFields DEF Init
<1>4. \A c \in Clients : request[c].pc = "idle" /\ request[c].at = None /\ request[c].job = None
  BY IdleFields DEF Init
<1>5. \A i \in Instances : Queued(i) = {} /\ Distinct(queue[i])
  BY <1>2 DEF Queued, Distinct
<1>6. Lives /\ Idle
  BY <1>1, <1>2, <1>3, <1>4, <1>5, NoNone DEF Lives, Idle
<1>7. Known
  BY <1>1, <1>2, <1>3, <1>4, <1>5
     DEF Known, HasRow, KnownQueue, KnownThread, KnownRequest, KnownSnap, KnownTodo
<1>8. Once
  BY <1>2, <1>3, <1>4, <1>5, NoNone
     DEF Once, OnceQueue, OnceThread, OnceRequest, OnceTodo, Handing
<1>9. Waiting /\ Held /\ Ended
  BY <1>3, <1>4, <1>5 DEF Waiting, Waits, Handing, Held, RunsOn, Running, Ended
<1>. QED
  BY <1>6, <1>7, <1>8, <1>9 DEF TInv

LEMMA TStutters == TInv /\ UNCHANGED vars => TInv'
<1>. SUFFICES ASSUME TInv, UNCHANGED vars PROVE TInv'
  OBVIOUS
<1>1. UNCHANGED <<db, mem, queue, inst, todo, worker, request>>
  BY DEF vars
<1>2. \A k \in Instances : Queued(k)' = Queued(k)
  BY <1>1 DEF Queued
<1>. QED
  BY <1>1, <1>2
     DEF TInv, Lives, Idle, Known, HasRow, KnownQueue, KnownThread, KnownRequest, KnownSnap,
         KnownTodo, Once, OnceQueue, OnceThread, OnceRequest, OnceTodo, Waiting, Waits, Handing,
         Held, RunsOn, Running, Ended, RecordOf

LEMMA TStep == IInv /\ TInv /\ [Next]_vars => TInv'
<1>. SUFFICES ASSUME IInv, TInv, [Next]_vars PROVE TInv'
  OBVIOUS
<1>1. ASSUME NEW c \in Clients, ClientStep(c) PROVE TInv'
  BY <1>1, SubmitKeeps, SubmitUnsavedKeeps, CancelKeeps, CancelTerminalKeeps, AttachRunKeeps,
     AttachFailsKeeps, EnqueueKeeps, SnapCancelKeeps, PersistCancelKeeps DEF ClientStep
<1>2. ASSUME NEW i \in Instances, NEW j \in Jobs, GetJob(i, j) \/ ReuseRow(i, j) PROVE TInv'
  BY <1>2, ReadRowKeeps
<1>3. ASSUME NEW i \in Instances, NEW w \in Workers, WorkerStep(i, w) PROVE TInv'
  BY <1>3, TakeKeeps, ClaimKeeps, ClaimLostKeeps, ClaimRecordKeeps, CheckPassesKeeps, ReportKeeps,
     StopKeeps, ApplyKeeps, FailKeeps, CompleteKeeps, PersistRecordKeeps, SyncRunKeeps, AttachKeeps
     DEF WorkerStep
<1>4. ASSUME NEW i \in Instances, Start(i) \/ RestoreStep(i) \/ Crash(i) PROVE TInv'
  BY <1>4, StartKeeps, RestoreJobKeeps, RestoreLostKeeps, ServeKeeps, CrashKeeps DEF RestoreStep
<1>5. ASSUME NEW i \in Instances, NEW e \in todo[i], CrashInRestore(i, e) PROVE TInv'
  BY <1>5, CrashInRestoreKeeps
<1>6. ASSUME NEW j \in Jobs, LeaseExpires(j) PROVE TInv'
  BY <1>6, LeaseExpiresKeeps
<1>7. ASSUME NEW r \in Runs, Supersede(r) PROVE TInv'
  BY <1>7, SupersedeKeeps
<1>. QED
  BY <1>1, <1>2, <1>3, <1>4, <1>5, <1>6, <1>7, TStutters DEF Next

LEMMA TInvariance == Spec => [](IInv /\ TInv)
<1>1. Init => IInv /\ TInv
  BY InitHolds, TInit
<1>2. (IInv /\ TInv) /\ [Next]_vars => (IInv /\ TInv)'
  BY StepKeeps, TStep
<1>. QED
  BY <1>1, <1>2, PTL DEF Spec

(* While a handler runs, whatever requests, restores and other threads do, *)
(* the record of its job is running and leased to its instance.            *)
THEOREM RecordIsHeld == Spec => []RecordFollowsThread
<1>1. TInv => RecordFollowsThread
  BY DEF TInv, Held, RunsOn, Running, RecordFollowsThread
<1>. QED
  BY <1>1, TInvariance, PTL
=============================================================================
